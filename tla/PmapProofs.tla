----------------------------- MODULE PmapProofs -----------------------------
(***************************************************************************)
(* Proofs about Pmap for any number of pages, addresses, environments and  *)
(* CPUs: the reference counts and the free list are exact as long as no    *)
(* count wraps, page tables stay private, and no TLB is stale.             *)
(***************************************************************************)
EXTENDS Pmap, FiniteSetTheorems, TLAPS

\* All pointers to page p from address spaces.
Refs(m, p) == UNION {Pointers(m, e, p) : e \in Env}

-----------------------------------------------------------------------------
(* Sets of pointers.                                                       *)

LEMMA PointersOf ==
  ASSUME NEW m, NEW e, NEW p, NEW x
  PROVE  x \in Pointers(m, e, p) <=>
            \/ \E va \in VA : x = <<e, "pte", va>> /\ m.pte[e][va] # NoPte /\ m.pte[e][va].page = p
            \/ \E i \in Index : x = <<e, "pde", i>> /\ m.pde[e][i] = p
            \/ x = <<e, "cr3", p>> /\ m.env_pgdir[e] = p
  BY DEF Pointers

LEMMA RefsOf ==
  ASSUME NEW m, NEW p, NEW x
  PROVE  x \in Refs(m, p) <=> \E e \in Env : x \in Pointers(m, e, p)
  BY DEF Refs

\* Where a pointer lies.
Site(e, kind, z, m, p) ==
    \/ kind = "pte" /\ z \in VA /\ m.pte[e][z] # NoPte /\ m.pte[e][z].page = p
    \/ kind = "pde" /\ z \in Index /\ m.pde[e][z] = p
    \/ kind = "cr3" /\ z = p /\ m.env_pgdir[e] = p

LEMMA Sites ==
  ASSUME NEW m, NEW p
  PROVE  /\ \A e \in Env : \A kind, z : <<e, kind, z>> \in Refs(m, p) <=> Site(e, kind, z, m, p)
         /\ \A x \in Refs(m, p) : \E e \in Env, kind \in {"pte", "pde", "cr3"}, z \in VA \cup Index \cup {p} :
                x = <<e, kind, z>> /\ Site(e, kind, z, m, p)
  <1>1. ASSUME NEW e \in Env, NEW kind, NEW z PROVE <<e, kind, z>> \in Refs(m, p) <=> Site(e, kind, z, m, p)
    BY PointersOf, RefsOf DEF Site
  <1>2. ASSUME NEW x \in Refs(m, p)
        PROVE  \E e \in Env, kind \in {"pte", "pde", "cr3"}, z \in VA \cup Index \cup {p} :
                   x = <<e, kind, z>> /\ Site(e, kind, z, m, p)
    BY PointersOf, RefsOf DEF Site
  <1> QED
    BY <1>1, <1>2

LEMMA IndexFinite == IsFiniteSet(Index)
  <1>1. PDX \in Surjection(VA, Index)
    BY PDXAssumption DEF Surjection, Index
  <1> QED
    BY <1>1, FiniteAssumption, FS_Surjection

LEMMA RefsFinite ==
  ASSUME NEW m, NEW p
  PROVE  IsFiniteSet(Refs(m, p)) /\ Cardinality(Refs(m, p)) \in Nat
  <1> DEFINE Kinds == {"pte", "pde", "cr3"}
             Places == VA \cup Index \cup {p}
             D == (Env \X Kinds) \X Places
             f == [x \in D |-> <<x[1][1], x[1][2], x[2]>>]
             T == {f[x] : x \in D}
  <1>1. IsFiniteSet(Kinds)
    <2>1. IsFiniteSet({"pte"} \cup {"pde"} \cup {"cr3"})
      BY FS_Singleton, FS_AddElement
    <2> QED
      BY <2>1
  <1>2. IsFiniteSet(Places)
    BY IndexFinite, FiniteAssumption, FS_AddElement, FS_Union
  <1> HIDE DEF Kinds, Places
  <1>3. IsFiniteSet(D)
    BY <1>1, <1>2, FiniteAssumption, FS_Product
  <1>4. f \in Surjection(D, T)
    BY DEF Surjection
  <1>5. IsFiniteSet(T)
    BY <1>3, <1>4, FS_Surjection
  <1>6. ASSUME NEW x \in Refs(m, p) PROVE x \in T
    <2>1. PICK e \in Env, kind \in Kinds, z \in Places : x = <<e, kind, z>>
      BY Sites DEF Kinds, Places
    <2>2. <<<<e, kind>>, z>> \in D /\ f[<<<<e, kind>>, z>>] = x
      BY <2>1
    <2> QED
      BY <2>2
  <1> HIDE DEF D, f, T
  <1>7. Refs(m, p) \in SUBSET T
    BY <1>6
  <1> QED
    BY <1>5, <1>7, FS_Subset, FS_CardinalityType

-----------------------------------------------------------------------------
(* What the functions of kern/pmap.c change.                               *)

Wrap(n) == n % (MaxRef + 1)

LEMMA WrapSmall ==
  /\ \A n \in Int : Wrap(n) \in 0 .. MaxRef
  /\ \A n \in 0 .. MaxRef : Wrap(n) = n
  /\ Wrap(0 - 1) = MaxRef /\ Wrap(MaxRef + 1) = 0
  <1>1. MaxRef \in Nat /\ MaxRef >= 1
    BY MaxRefAssumption
  <1> QED
    BY <1>1 DEF Wrap

\* What an operation on reference counts keeps, and what it sets.
SameTables(m, r) ==
    r.pte = m.pte /\ r.pde = m.pde /\ r.env_pgdir = m.env_pgdir /\ r.kern_pte = m.kern_pte

RefSet(m, r, p, n) == \A q \in Page : r.pp_ref[q] = IF q = p THEN n ELSE m.pp_ref[q]
PteSet(m, r, e, va, pte) ==
    \A f \in Env, y \in VA : r.pte[f][y] = IF f = e /\ y = va THEN pte ELSE m.pte[f][y]

LEMMA CountDoes ==
  ASSUME NEW m \in Memory, NEW p \in Page, NEW n \in Int, NEW r, r = Count(m, p, n)
  PROVE  /\ r \in Memory /\ SameTables(m, r) /\ RefSet(m, r, p, Wrap(n))
         /\ r.page_free_list = m.page_free_list
  <1>1. r = [m EXCEPT !.pp_ref = [m.pp_ref EXCEPT ![p] = Wrap(n)]]
    BY DEF Count, Wrap, Memory
  <1>2. PICK k \in 0 .. MaxRef : k = Wrap(n)
    BY WrapSmall
  <1> QED
    BY <1>1, <1>2, ZenonT(60) DEF Memory, SameTables, RefSet

LEMMA DecrefDoes ==
  ASSUME NEW m \in Memory, NEW p \in Page, NEW r, r = PageDecref(m, p)
  PROVE  /\ r \in Memory /\ SameTables(m, r) /\ RefSet(m, r, p, Wrap(m.pp_ref[p] - 1))
         /\ r.page_free_list = m.page_free_list \cup (IF r.pp_ref[p] = 0 THEN {p} ELSE {})
  <1>1. m.pp_ref[p] - 1 \in Int
    BY DEF Memory
  <1>2. PICK c : c = Count(m, p, m.pp_ref[p] - 1)
    OBVIOUS
  <1>3. /\ c \in Memory /\ SameTables(m, c) /\ RefSet(m, c, p, Wrap(m.pp_ref[p] - 1))
        /\ c.page_free_list = m.page_free_list
    BY <1>1, <1>2, CountDoes
  <1>4. r = IF c.pp_ref[p] = 0 THEN [c EXCEPT !.page_free_list = c.page_free_list \cup {p}] ELSE c
    BY <1>2, <1>3 DEF PageDecref, PageFree, Memory
  <1> QED
    BY <1>3, <1>4, SMTT(30) DEF Memory, SameTables, RefSet

LEMMA WalkDoes ==
  ASSUME NEW m \in Memory, NEW e \in Env, NEW va \in VA, NEW table \in NewTables(m, e, va),
         NEW r, r = PgdirWalk(m, e, va, table)
  PROVE  /\ r \in Memory /\ r.pte = m.pte /\ r.env_pgdir = m.env_pgdir /\ r.kern_pte = m.kern_pte
         /\ PDX[va] \in Index
         /\ \/ table = NoPage /\ r = m
            \/ /\ table \in m.page_free_list /\ table \in Page /\ m.pde[e][PDX[va]] = NoPage
               /\ r.page_free_list = m.page_free_list \ {table}
               /\ RefSet(m, r, table, 1)
               /\ \A f \in Env, i \in Index : r.pde[f][i] = IF f = e /\ i = PDX[va] THEN table ELSE m.pde[f][i]
  <1>1. PDX[va] \in Index
    BY DEF Index
  <1>2. CASE table = NoPage
    BY <1>1, <1>2 DEF PgdirWalk, Memory
  <1>3. CASE table # NoPage
    <2>1. table \in m.page_free_list /\ table \in Page /\ m.pde[e][PDX[va]] = NoPage
      BY <1>3 DEF NewTables, Memory
    <2> DEFINE refs == [m.pp_ref EXCEPT ![table] = 1]
               pdes == [m.pde EXCEPT ![e] = [m.pde[e] EXCEPT ![PDX[va]] = table]]
    <2>2. r = [m EXCEPT !.page_free_list = m.page_free_list \ {table}, !.pp_ref = refs, !.pde = pdes]
      BY <1>3 DEF PgdirWalk, Memory
    <2>3. refs \in [Page -> 0 .. MaxRef] /\ \A q \in Page : refs[q] = IF q = table THEN 1 ELSE m.pp_ref[q]
      BY <2>1, MaxRefAssumption DEF Memory
    <2>4. /\ pdes \in [Env -> [Index -> Page \cup {NoPage}]]
          /\ \A f \in Env, i \in Index : pdes[f][i] = IF f = e /\ i = PDX[va] THEN table ELSE m.pde[f][i]
      BY <1>1, <2>1 DEF Memory
    <2> HIDE DEF refs, pdes
    <2>5. /\ r.page_free_list = m.page_free_list \ {table} /\ r.pp_ref = refs /\ r.pde = pdes
          /\ r.pte = m.pte /\ r.env_pgdir = m.env_pgdir /\ r.kern_pte = m.kern_pte
          /\ r \in Memory
      BY <2>2, <2>3, <2>4, ZenonT(60) DEF Memory
    <2> QED
      BY <1>1, <2>1, <2>3, <2>4, <2>5 DEF RefSet
  <1> QED
    BY <1>2, <1>3

\* The entry of a page table is set.
LEMMA PteDoes ==
  ASSUME NEW m \in Memory, NEW e \in Env, NEW va \in VA, NEW pte \in Pte \cup {NoPte},
         NEW r, r = [m EXCEPT !.pte[e][va] = pte]
  PROVE  /\ r \in Memory /\ r.pde = m.pde /\ r.env_pgdir = m.env_pgdir /\ r.kern_pte = m.kern_pte
         /\ r.pp_ref = m.pp_ref /\ r.page_free_list = m.page_free_list
         /\ PteSet(m, r, e, va, pte)
  <1> DEFINE t == [m.pte EXCEPT ![e] = [m.pte[e] EXCEPT ![va] = pte]]
  <1>1. /\ t \in [Env -> [VA -> Pte \cup {NoPte}]]
        /\ \A f \in Env, y \in VA : t[f][y] = IF f = e /\ y = va THEN pte ELSE m.pte[f][y]
    BY DEF Memory
  <1>2. r = [m EXCEPT !.pte = t]
    BY DEF Memory
  <1> HIDE DEF t
  <1>3. /\ r \in Memory /\ r.pde = m.pde /\ r.env_pgdir = m.env_pgdir /\ r.kern_pte = m.kern_pte
        /\ r.pp_ref = m.pp_ref /\ r.page_free_list = m.page_free_list /\ r.pte = t
    BY <1>1, <1>2 DEF Memory
  <1> QED
    BY <1>1, <1>3 DEF PteSet

\* The page that is mapped at an address, if there is one.
LEMMA OldTyped ==
  ASSUME NEW m \in Memory, NEW e \in Env, NEW va \in VA, m.pte[e][va] # NoPte
  PROVE  m.pte[e][va] \in Pte /\ m.pte[e][va].page \in Page /\ m.pte[e][va].w \in BOOLEAN
  BY DEF Memory, Pte

LEMMA RemoveDoes ==
  ASSUME NEW m \in Memory, NEW e \in Env, NEW va \in VA, NEW r, r = PageRemove(m, e, va)
  PROVE  /\ r \in Memory /\ r.pde = m.pde /\ r.env_pgdir = m.env_pgdir /\ r.kern_pte = m.kern_pte
         /\ PteSet(m, r, e, va, NoPte)
         /\ \/ m.pte[e][va] = NoPte /\ r = m
            \/ \E p \in Page :
                  /\ m.pte[e][va] # NoPte /\ p = m.pte[e][va].page
                  /\ RefSet(m, r, p, Wrap(m.pp_ref[p] - 1))
                  /\ r.page_free_list = m.page_free_list \cup (IF r.pp_ref[p] = 0 THEN {p} ELSE {})
  <1>1. CASE m.pte[e][va] = NoPte
    BY <1>1 DEF PageRemove, PteSet
  <1>2. CASE m.pte[e][va] # NoPte
    <2>1. PICK p \in Page : p = m.pte[e][va].page
      BY <1>2, OldTyped
    <2>2. PICK d : d = PageDecref(m, p)
      OBVIOUS
    <2>3. /\ d \in Memory /\ SameTables(m, d) /\ RefSet(m, d, p, Wrap(m.pp_ref[p] - 1))
          /\ d.page_free_list = m.page_free_list \cup (IF d.pp_ref[p] = 0 THEN {p} ELSE {})
      BY <2>2, DecrefDoes
    <2>4. PICK none \in Pte \cup {NoPte} : none = NoPte
      BY SMTT(30)
    <2>5. r = [d EXCEPT !.pte[e][va] = none]
      BY <1>2, <2>1, <2>2, <2>4 DEF PageRemove
    <2>6. /\ r \in Memory /\ r.pde = d.pde /\ r.env_pgdir = d.env_pgdir /\ r.kern_pte = d.kern_pte
          /\ r.pp_ref = d.pp_ref /\ r.page_free_list = d.page_free_list
          /\ PteSet(d, r, e, va, none)
      BY <2>3, <2>5, PteDoes
    <2> QED
      BY <1>2, <2>1, <2>3, <2>4, <2>6 DEF SameTables, RefSet, PteSet
  <1> QED
    BY <1>1, <1>2

\* page_insert counts the new page up before it removes the old one.
LEMMA InsertDoes ==
  ASSUME NEW m \in Memory, NEW e \in Env, NEW p \in Page, NEW va \in VA, NEW w,
         NEW new \in Pte, new = [page |-> p, w |-> w],
         NEW table \in NewTables(m, e, va), NEW walked, walked = PgdirWalk(m, e, va, table),
         NEW r, r = PageInsert(m, e, p, va, w, table)
  PROVE  /\ r \in Memory /\ r.pde = walked.pde /\ r.env_pgdir = m.env_pgdir /\ r.kern_pte = m.kern_pte
         /\ PteSet(m, r, e, va, new)
         /\ \E up \in Memory :
               /\ RefSet(walked, up, p, Wrap(walked.pp_ref[p] + 1))
               /\ \/ /\ m.pte[e][va] = NoPte
                     /\ r.pp_ref = up.pp_ref /\ r.page_free_list = walked.page_free_list
                  \/ \E q \in Page :
                        /\ m.pte[e][va] # NoPte /\ q = m.pte[e][va].page
                        /\ RefSet(up, r, q, Wrap(up.pp_ref[q] - 1))
                        /\ r.page_free_list = walked.page_free_list \cup (IF r.pp_ref[q] = 0 THEN {q} ELSE {})
  <1>1. walked \in Memory /\ walked.pte = m.pte /\ walked.env_pgdir = m.env_pgdir /\ walked.kern_pte = m.kern_pte
    BY WalkDoes
  <1>2. PICK c : c = Count(walked, p, walked.pp_ref[p] + 1)
    OBVIOUS
  <1>3. PICK d : d = PageRemove(c, e, va)
    OBVIOUS
  <1>4. walked.pp_ref[p] + 1 \in Int
    BY <1>1 DEF Memory
  <1>5. /\ c \in Memory /\ SameTables(walked, c) /\ RefSet(walked, c, p, Wrap(walked.pp_ref[p] + 1))
        /\ c.page_free_list = walked.page_free_list
    BY <1>1, <1>2, <1>4, CountDoes
  <1>6. /\ d \in Memory /\ d.pde = c.pde /\ d.env_pgdir = c.env_pgdir /\ d.kern_pte = c.kern_pte
        /\ PteSet(c, d, e, va, NoPte)
        /\ \/ c.pte[e][va] = NoPte /\ d = c
           \/ \E q \in Page :
                 /\ c.pte[e][va] # NoPte /\ q = c.pte[e][va].page
                 /\ RefSet(c, d, q, Wrap(c.pp_ref[q] - 1))
                 /\ d.page_free_list = c.page_free_list \cup (IF d.pp_ref[q] = 0 THEN {q} ELSE {})
    BY <1>3, <1>5, RemoveDoes
  <1>7. r = [d EXCEPT !.pte[e][va] = new]
    BY <1>2, <1>3 DEF PageInsert
  <1>8. /\ r \in Memory /\ r.pde = d.pde /\ r.env_pgdir = d.env_pgdir /\ r.kern_pte = d.kern_pte
        /\ r.pp_ref = d.pp_ref /\ r.page_free_list = d.page_free_list
        /\ PteSet(d, r, e, va, new)
    BY <1>6, <1>7, PteDoes
  <1>9. PteSet(m, r, e, va, new)
    BY <1>1, <1>5, <1>6, <1>8 DEF SameTables, PteSet
  <1>10. /\ r \in Memory /\ r.pde = walked.pde /\ r.env_pgdir = m.env_pgdir /\ r.kern_pte = m.kern_pte
         /\ c.pte = m.pte
    BY <1>1, <1>5, <1>6, <1>8 DEF SameTables
  <1>11. CASE m.pte[e][va] = NoPte
    BY <1>5, <1>6, <1>8, <1>9, <1>10, <1>11, SMTT(30)
  <1>12. CASE m.pte[e][va] # NoPte
    <2>1. PICK q \in Page :
                 /\ q = m.pte[e][va].page
                 /\ RefSet(c, d, q, Wrap(c.pp_ref[q] - 1))
                 /\ d.page_free_list = c.page_free_list \cup (IF d.pp_ref[q] = 0 THEN {q} ELSE {})
      BY <1>6, <1>10, <1>12
    <2>2. /\ RefSet(c, r, q, Wrap(c.pp_ref[q] - 1))
          /\ r.page_free_list = walked.page_free_list \cup (IF r.pp_ref[q] = 0 THEN {q} ELSE {})
      BY <1>5, <1>8, <2>1 DEF RefSet
    <2> QED
      BY <1>5, <1>9, <1>10, <1>12, <2>1, <2>2
  <1> QED
    BY <1>11, <1>12

-----------------------------------------------------------------------------
(* Counting.                                                               *)

LEMMA OneSite ==
  ASSUME NEW S, NEW T, NEW x, IsFiniteSet(S), IsFiniteSet(T), \A y : y # x => (y \in S <=> y \in T)
  PROVE  Cardinality(T) = (Cardinality(S) - (IF x \in S THEN 1 ELSE 0)) + (IF x \in T THEN 1 ELSE 0)
  <1>1. S \ {x} = T \ {x}
    OBVIOUS
  <1>2. /\ Cardinality(S \ {x}) = IF x \in S THEN Cardinality(S) - 1 ELSE Cardinality(S)
        /\ Cardinality(T \ {x}) = IF x \in T THEN Cardinality(T) - 1 ELSE Cardinality(T)
    BY FS_RemoveElement
  <1>3. PICK s \in Nat, t \in Nat : s = Cardinality(S) /\ t = Cardinality(T)
    BY FS_CardinalityType
  <1>4. (IF x \in S THEN s - 1 ELSE s) = (IF x \in T THEN t - 1 ELSE t)
    BY <1>1, <1>2, <1>3
  <1>5. t = (s - (IF x \in S THEN 1 ELSE 0)) + (IF x \in T THEN 1 ELSE 0)
    BY <1>4
  <1> QED
    BY <1>3, <1>5

Number(m, p) == Cardinality(Refs(m, p))
Maps(m, e, va, p) == m.pte[e][va] # NoPte /\ m.pte[e][va].page = p

LEMMA NumberType ==
  ASSUME NEW m, NEW p
  PROVE  Number(m, p) \in Nat /\ (Number(m, p) = 0 <=> Refs(m, p) = {})
  BY RefsFinite, FS_EmptySet DEF Number

\* A page that is mapped is pointed to, a page table or directory too.
LEMMA MapsCounts ==
  ASSUME NEW m, NEW p
  PROVE  /\ (\E e \in Env, va \in VA : Maps(m, e, va, p)) => Number(m, p) > 0
         /\ (\E e \in Env, i \in Index : m.pde[e][i] = p) => Number(m, p) > 0
         /\ (\E e \in Env : m.env_pgdir[e] = p) => Number(m, p) > 0
  <1>1. ASSUME NEW e \in Env, NEW va \in VA, Maps(m, e, va, p) PROVE Number(m, p) > 0
    <2>1. <<e, "pte", va>> \in Refs(m, p)
      BY <1>1, Sites DEF Maps, Site
    <2> QED
      BY <2>1, NumberType
  <1>2. ASSUME NEW e \in Env, NEW i \in Index, m.pde[e][i] = p PROVE Number(m, p) > 0
    <2>1. <<e, "pde", i>> \in Refs(m, p)
      BY <1>2, Sites DEF Site
    <2> QED
      BY <2>1, NumberType
  <1>3. ASSUME NEW e \in Env, m.env_pgdir[e] = p PROVE Number(m, p) > 0
    <2>1. <<e, "cr3", p>> \in Refs(m, p)
      BY <1>3, Sites DEF Site
    <2> QED
      BY <2>1, NumberType
  <1> QED
    BY <1>1, <1>2, <1>3

\* How the number of pointers to a page changes with one entry.
LEMMA PteNumber ==
  ASSUME NEW m, NEW r, NEW e \in Env, NEW va \in VA, NEW pte, PteSet(m, r, e, va, pte),
         r.pde = m.pde, r.env_pgdir = m.env_pgdir, NEW p
  PROVE  Number(r, p) = (Number(m, p) - (IF Maps(m, e, va, p) THEN 1 ELSE 0))
                        + (IF pte # NoPte /\ pte.page = p THEN 1 ELSE 0)
  <1> DEFINE x == <<e, "pte", va>>
  <1>1. ASSUME NEW f \in Env, NEW kind, NEW z, <<f, kind, z>> # x
        PROVE  <<f, kind, z>> \in Refs(m, p) <=> <<f, kind, z>> \in Refs(r, p)
    <2>1. ~(f = e /\ kind = "pte" /\ z = va)
      BY <1>1
    <2>2. Site(f, kind, z, m, p) <=> Site(f, kind, z, r, p)
      BY <2>1 DEF Site, PteSet
    <2> QED
      BY <2>2, Sites
  <1>2. \A y : y # x => (y \in Refs(m, p) <=> y \in Refs(r, p))
    BY <1>1, Sites
  <1>3. /\ x \in Refs(m, p) <=> Maps(m, e, va, p)
        /\ x \in Refs(r, p) <=> Maps(r, e, va, p)
    BY Sites DEF Site, Maps
  <1>4. r.pte[e][va] = pte
    BY DEF PteSet
  <1> HIDE DEF x
  <1>5. Number(r, p) = (Number(m, p) - (IF x \in Refs(m, p) THEN 1 ELSE 0)) + (IF x \in Refs(r, p) THEN 1 ELSE 0)
    BY <1>2, OneSite, RefsFinite DEF Number
  <1> QED
    BY <1>3, <1>4, <1>5 DEF Maps

LEMMA PdeNumber ==
  ASSUME NEW m, NEW r, NEW e \in Env, NEW j \in Index, NEW table \in Page,
         \A f \in Env, i \in Index : r.pde[f][i] = IF f = e /\ i = j THEN table ELSE m.pde[f][i],
         m.pde[e][j] = NoPage, r.pte = m.pte, r.env_pgdir = m.env_pgdir, NEW p \in Page
  PROVE  Number(r, p) = Number(m, p) + (IF p = table THEN 1 ELSE 0)
  <1> DEFINE x == <<e, "pde", j>>
  <1>1. ASSUME NEW f \in Env, NEW kind, NEW z, <<f, kind, z>> # x
        PROVE  <<f, kind, z>> \in Refs(m, p) <=> <<f, kind, z>> \in Refs(r, p)
    <2>1. ~(f = e /\ kind = "pde" /\ z = j)
      BY <1>1
    <2>2. Site(f, kind, z, m, p) <=> Site(f, kind, z, r, p)
      BY <2>1 DEF Site
    <2> QED
      BY <2>2, Sites
  <1>2. \A y : y # x => (y \in Refs(m, p) <=> y \in Refs(r, p))
    BY <1>1, Sites
  <1>3. x \notin Refs(m, p) /\ (x \in Refs(r, p) <=> p = table)
    BY Sites, NoneAssumption DEF Site
  <1> HIDE DEF x
  <1>4. Number(r, p) = (Number(m, p) - (IF x \in Refs(m, p) THEN 1 ELSE 0)) + (IF x \in Refs(r, p) THEN 1 ELSE 0)
    BY <1>2, OneSite, RefsFinite DEF Number
  <1> QED
    BY <1>3, <1>4, NumberType

LEMMA DirNumber ==
  ASSUME NEW m, NEW r, NEW e \in Env, NEW dir \in Page,
         \A f \in Env : r.env_pgdir[f] = IF f = e THEN dir ELSE m.env_pgdir[f],
         m.env_pgdir[e] = NoPage, r.pte = m.pte, r.pde = m.pde, NEW p \in Page
  PROVE  Number(r, p) = Number(m, p) + (IF p = dir THEN 1 ELSE 0)
  <1> DEFINE x == <<e, "cr3", dir>>
  <1>1. ASSUME NEW f \in Env, NEW kind, NEW z, <<f, kind, z>> # x
        PROVE  <<f, kind, z>> \in Refs(m, p) <=> <<f, kind, z>> \in Refs(r, p)
    <2>1. ~(f = e /\ kind = "cr3" /\ z = dir)
      BY <1>1
    <2>2. Site(f, kind, z, m, p) <=> Site(f, kind, z, r, p)
      BY <2>1, NoneAssumption DEF Site
    <2> QED
      BY <2>2, Sites
  <1>2. \A y : y # x => (y \in Refs(m, p) <=> y \in Refs(r, p))
    BY <1>1, Sites
  <1>3. x \notin Refs(m, p) /\ (x \in Refs(r, p) <=> p = dir)
    BY Sites, NoneAssumption DEF Site
  <1> HIDE DEF x
  <1>4. Number(r, p) = (Number(m, p) - (IF x \in Refs(m, p) THEN 1 ELSE 0)) + (IF x \in Refs(r, p) THEN 1 ELSE 0)
    BY <1>2, OneSite, RefsFinite DEF Number
  <1> QED
    BY <1>3, <1>4, NumberType

-----------------------------------------------------------------------------
(* The books: counts and the free list, page tables, the kernel's page.    *)

\* taken: a page that page_alloc has returned and nothing points to yet.
CountsOK(m) == \A p \in Page : m.pp_ref[p] = Number(m, p) + (IF p = KernPage THEN 1 ELSE 0)
FreeListOK(m, taken) == \A p \in Page : p \in m.page_free_list <=> m.pp_ref[p] = 0 /\ p \notin taken
IsTable(m, p) == \E e \in Env : m.env_pgdir[e] = p \/ \E i \in Index : m.pde[e][i] = p
TablesOK(m) == \A p \in Page : IsTable(m, p) => Number(m, p) = 1

Books(m, taken) ==
    /\ m \in Memory /\ m.kern_pte = KernPage /\ Number(m, KernPage) = 0
    /\ CountsOK(m) /\ FreeListOK(m, taken) /\ TablesOK(m)

LEMMA Counted ==
  ASSUME NEW m, NEW taken, Books(m, taken), NEW p \in Page
  PROVE  /\ m.pp_ref[p] \in 0 .. MaxRef /\ Number(m, p) \in 0 .. MaxRef
         /\ p # KernPage => m.pp_ref[p] = Number(m, p)
         /\ p \in m.page_free_list => Number(m, p) = 0 /\ p # KernPage
         /\ p = KernPage => m.pp_ref[p] = 1
  <1>1. m.pp_ref[p] \in 0 .. MaxRef /\ Number(m, p) \in Nat
    BY NumberType DEF Books, Memory
  <1> QED
    BY <1>1, MaxRefAssumption DEF Books, CountsOK, FreeListOK

\* A page table is not mapped.
LEMMA TableNotMapped ==
  ASSUME NEW m, NEW p, IsTable(m, p), Number(m, p) = 1, NEW e \in Env, NEW va \in VA
  PROVE  ~Maps(m, e, va, p)
  <1>1. PICK x : Refs(m, p) = {x}
    BY RefsFinite, FS_Singleton DEF Number
  <1>2. PICK f \in Env, kind \in {"pde", "cr3"} : \E z : <<f, kind, z>> \in Refs(m, p)
    BY Sites, ZenonT(60) DEF IsTable, Site
  <1>3. Maps(m, e, va, p) => <<e, "pte", va>> \in Refs(m, p)
    BY Sites DEF Maps, Site
  <1> QED
    BY <1>1, <1>2, <1>3

LEMMA BooksRemove ==
  ASSUME NEW m, Books(m, {}), NEW e \in Env, NEW va \in VA, NEW r, r = PageRemove(m, e, va)
  PROVE  Books(r, {})
  <1>1. m \in Memory
    BY DEF Books
  <1>2. /\ r \in Memory /\ r.pde = m.pde /\ r.env_pgdir = m.env_pgdir /\ r.kern_pte = m.kern_pte
        /\ PteSet(m, r, e, va, NoPte)
    BY <1>1, RemoveDoes
  <1>3. \/ m.pte[e][va] = NoPte /\ r = m
        \/ \E p \in Page :
              /\ m.pte[e][va] # NoPte /\ p = m.pte[e][va].page
              /\ RefSet(m, r, p, Wrap(m.pp_ref[p] - 1))
              /\ r.page_free_list = m.page_free_list \cup (IF r.pp_ref[p] = 0 THEN {p} ELSE {})
    BY <1>1, RemoveDoes
  <1>4. ASSUME NEW p \in Page, Maps(m, e, va, p), RefSet(m, r, p, Wrap(m.pp_ref[p] - 1)),
               r.page_free_list = m.page_free_list \cup (IF r.pp_ref[p] = 0 THEN {p} ELSE {})
        PROVE  Books(r, {})
    <2>1. \A q \in Page : Number(r, q) = Number(m, q) - (IF q = p THEN 1 ELSE 0)
      <3>1. \A q \in Page : Number(r, q) = (Number(m, q) - (IF Maps(m, e, va, q) THEN 1 ELSE 0))
                                            + (IF NoPte # NoPte /\ NoPte.page = q THEN 1 ELSE 0)
        BY <1>2, PteNumber
      <3>2. \A q \in Page : Maps(m, e, va, q) <=> q = p
        BY <1>4 DEF Maps
      <3> QED
        BY <3>1, <3>2, NumberType
    <2>2. Number(m, p) \in 1 .. MaxRef /\ p # KernPage /\ m.pp_ref[p] = Number(m, p)
      <3>1. Number(m, p) > 0
        BY <1>4, MapsCounts
      <3> QED
        BY <3>1, Counted DEF Books
    <2>3. Wrap(m.pp_ref[p] - 1) = Number(m, p) - 1
      BY <2>2, WrapSmall, MaxRefAssumption
    <2>4. CountsOK(r)
      BY <1>4, <2>1, <2>2, <2>3, NumberType DEF CountsOK, RefSet, Books
    <2>5. FreeListOK(r, {})
      BY <1>4, <2>2, <2>3, Counted DEF FreeListOK, RefSet, Books
    <2>6. TablesOK(r)
      BY <1>2, <1>4, <2>1, TableNotMapped, NumberType DEF TablesOK, Books, IsTable
    <2>7. Number(r, KernPage) = 0
      BY <2>1, <2>2, KernPageAssumption DEF Books
    <2> QED
      BY <1>2, <2>4, <2>5, <2>6, <2>7 DEF Books
  <1> QED
    BY <1>3, <1>4 DEF Maps

LEMMA BooksWalk ==
  ASSUME NEW m, NEW taken, Books(m, taken), NEW e \in Env, NEW va \in VA, NEW table \in NewTables(m, e, va),
         NEW r, r = PgdirWalk(m, e, va, table)
  PROVE  /\ Books(r, taken)
         /\ \A p \in taken : p \in Page /\ Number(m, p) = 0 => Number(r, p) = 0
         /\ \A f \in Env, y \in VA, p \in Page : Maps(r, f, y, p) <=> Maps(m, f, y, p)
  <1>1. m \in Memory
    BY DEF Books
  <1>2. /\ r \in Memory /\ r.pte = m.pte /\ r.env_pgdir = m.env_pgdir /\ r.kern_pte = m.kern_pte
        /\ PDX[va] \in Index
        /\ \/ table = NoPage /\ r = m
           \/ /\ table \in m.page_free_list /\ table \in Page /\ m.pde[e][PDX[va]] = NoPage
              /\ r.page_free_list = m.page_free_list \ {table}
              /\ RefSet(m, r, table, 1)
              /\ \A f \in Env, i \in Index : r.pde[f][i] = IF f = e /\ i = PDX[va] THEN table ELSE m.pde[f][i]
    BY <1>1, WalkDoes
  <1>3. \A f \in Env, y \in VA, p \in Page : Maps(r, f, y, p) <=> Maps(m, f, y, p)
    BY <1>2 DEF Maps
  <1>4. CASE r = m
    BY <1>3, <1>4
  <1>5. CASE r # m
    <2>1. /\ table \in m.page_free_list /\ table \in Page /\ m.pde[e][PDX[va]] = NoPage
          /\ r.page_free_list = m.page_free_list \ {table}
          /\ RefSet(m, r, table, 1)
          /\ \A f \in Env, i \in Index : r.pde[f][i] = IF f = e /\ i = PDX[va] THEN table ELSE m.pde[f][i]
      BY <1>2, <1>5
    <2>2. \A p \in Page : Number(r, p) = Number(m, p) + (IF p = table THEN 1 ELSE 0)
      BY <1>2, <2>1, PdeNumber
    <2>3. Number(m, table) = 0 /\ table # KernPage /\ table \notin taken
      BY <2>1, Counted DEF Books, FreeListOK
    <2>4. CountsOK(r)
      BY <2>1, <2>2, <2>3, NumberType DEF CountsOK, RefSet, Books
    <2>5. FreeListOK(r, taken)
      BY <2>1, <2>2, <2>3 DEF FreeListOK, RefSet, Books
    <2>6. TablesOK(r)
      <3>1. ASSUME NEW p \in Page, IsTable(r, p), p # table PROVE IsTable(m, p)
        BY <1>2, <2>1, <3>1 DEF IsTable
      <3> QED
        BY <2>2, <2>3, <3>1, NumberType DEF TablesOK, Books
    <2>7. Number(r, KernPage) = 0
      BY <2>2, <2>3, KernPageAssumption DEF Books
    <2>8. \A p \in taken : p \in Page /\ Number(m, p) = 0 => Number(r, p) = 0
      BY <2>2, <2>3
    <2> QED
      BY <1>2, <1>3, <2>4, <2>5, <2>6, <2>7, <2>8 DEF Books
  <1> QED
    BY <1>4, <1>5

\* The number of pointers depends on the page tables and directories alone.
LEMMA SamePointers ==
  ASSUME NEW m, NEW r, r.pte = m.pte, r.pde = m.pde, r.env_pgdir = m.env_pgdir
  PROVE  \A p : Refs(r, p) = Refs(m, p) /\ Number(r, p) = Number(m, p)
  BY DEF Number, Refs, Pointers

\* page_alloc, and page_free of what it returned.
LEMMA BooksTake ==
  ASSUME NEW m, Books(m, {}), NEW p \in m.page_free_list,
         NEW r, r = [m EXCEPT !.page_free_list = @ \ {p}]
  PROVE  Books(r, {p}) /\ p \in Page /\ Number(r, p) = 0 /\ p # KernPage
  <1>1. /\ r \in Memory /\ r.pte = m.pte /\ r.pde = m.pde /\ r.env_pgdir = m.env_pgdir
        /\ r.kern_pte = m.kern_pte /\ r.pp_ref = m.pp_ref /\ p \in Page
        /\ r.page_free_list = m.page_free_list \ {p}
    BY DEF Books, Memory
  <1>2. \A q : Number(r, q) = Number(m, q)
    BY <1>1, SamePointers
  <1>3. Number(m, p) = 0 /\ p # KernPage
    BY <1>1, Counted
  <1>4. CountsOK(r) /\ FreeListOK(r, {p})
    BY <1>1, <1>2 DEF Books, CountsOK, FreeListOK
  <1>5. TablesOK(r)
    BY <1>1, <1>2 DEF Books, TablesOK, IsTable
  <1> QED
    BY <1>1, <1>2, <1>3, <1>4, <1>5 DEF Books

LEMMA BooksGive ==
  ASSUME NEW m, NEW p \in Page, Books(m, {p}), Number(m, p) = 0, p # KernPage,
         NEW r, r = PageFree(m, p)
  PROVE  Books(r, {})
  <1>1. /\ r \in Memory /\ r.pte = m.pte /\ r.pde = m.pde /\ r.env_pgdir = m.env_pgdir
        /\ r.kern_pte = m.kern_pte /\ r.pp_ref = m.pp_ref
        /\ r.page_free_list = m.page_free_list \cup {p}
    BY DEF Books, Memory, PageFree
  <1>2. \A q : Number(r, q) = Number(m, q)
    BY <1>1, SamePointers
  <1>3. m.pp_ref[p] = 0
    BY Counted
  <1>4. CountsOK(r) /\ FreeListOK(r, {})
    BY <1>1, <1>2, <1>3 DEF Books, CountsOK, FreeListOK
  <1>5. TablesOK(r)
    BY <1>1, <1>2 DEF Books, TablesOK, IsTable
  <1> QED
    BY <1>1, <1>2, <1>4, <1>5 DEF Books

\* The page to insert has just been allocated, or is mapped somewhere.
LEMMA BooksInsert ==
  ASSUME NEW m, NEW taken, Books(m, taken), NEW e \in Env, NEW p \in Page, NEW va \in VA, NEW w,
         NEW new \in Pte, new = [page |-> p, w |-> w], NEW table \in NewTables(m, e, va),
         NEW r, r = PageInsert(m, e, p, va, w, table), p # KernPage,
         \/ taken = {p} /\ Number(m, p) = 0
         \/ taken = {} /\ \E f \in Env, y \in VA : Maps(m, f, y, p),
         Number(r, p) <= MaxRef
  PROVE  Books(r, {})
  <1>1. PICK walked : walked = PgdirWalk(m, e, va, table)
    OBVIOUS
  <1>2. m \in Memory /\ Books(walked, taken) /\ walked \in Memory /\ walked.pte = m.pte
    <2>1. m \in Memory
      BY DEF Books
    <2>2. Books(walked, taken)
      BY <1>1, BooksWalk
    <2>3. walked.pte = m.pte
      BY <1>1, <2>1, WalkDoes
    <2> QED
      BY <2>1, <2>2, <2>3 DEF Books
  <1>3. \/ taken = {p} /\ Number(walked, p) = 0
        \/ taken = {} /\ \E f \in Env, y \in VA : Maps(walked, f, y, p)
    BY <1>1, BooksWalk
  <1>4. ~IsTable(walked, p)
    <2>1. IsTable(walked, p) => Number(walked, p) = 1
      BY <1>2 DEF Books, TablesOK
    <2> QED
      BY <1>3, <2>1, TableNotMapped
  <1>5. /\ r \in Memory /\ r.pde = walked.pde /\ r.env_pgdir = m.env_pgdir /\ r.kern_pte = m.kern_pte
        /\ PteSet(m, r, e, va, new)
        /\ \E up \in Memory :
              /\ RefSet(walked, up, p, Wrap(walked.pp_ref[p] + 1))
              /\ \/ /\ m.pte[e][va] = NoPte
                    /\ r.pp_ref = up.pp_ref /\ r.page_free_list = walked.page_free_list
                 \/ \E q \in Page :
                       /\ m.pte[e][va] # NoPte /\ q = m.pte[e][va].page
                       /\ RefSet(up, r, q, Wrap(up.pp_ref[q] - 1))
                       /\ r.page_free_list = walked.page_free_list \cup (IF r.pp_ref[q] = 0 THEN {q} ELSE {})
    BY <1>1, <1>2, InsertDoes
  <1>6. r.env_pgdir = walked.env_pgdir /\ r.kern_pte = KernPage
    BY <1>1, <1>2, <1>5, WalkDoes DEF Books
  <1>7. \A q \in Page : Number(r, q) = (Number(walked, q) - (IF Maps(walked, e, va, q) THEN 1 ELSE 0))
                                       + (IF q = p THEN 1 ELSE 0)
    <2>1. PteSet(walked, r, e, va, new)
      BY <1>2, <1>5 DEF PteSet
    <2>2. \A q \in Page : Number(r, q) = (Number(walked, q) - (IF Maps(walked, e, va, q) THEN 1 ELSE 0))
                                         + (IF new # NoPte /\ new.page = q THEN 1 ELSE 0)
      BY <1>5, <1>6, <2>1, PteNumber
    <2>3. new # NoPte /\ new.page = p
      BY NoneAssumption
    <2> QED
      BY <2>2, <2>3
  <1>8. /\ \A q \in Page : walked.pp_ref[q] \in 0 .. MaxRef /\ Number(walked, q) \in 0 .. MaxRef
        /\ \A q \in Page : q # KernPage => walked.pp_ref[q] = Number(walked, q)
        /\ walked.pp_ref[KernPage] = 1 /\ Number(walked, KernPage) = 0
    BY <1>2, Counted, KernPageAssumption DEF Books
  <1>9. \A q \in Page : Maps(walked, e, va, q) => Number(walked, q) >= 1 /\ q # KernPage
    <2>1. \A q \in Page : Maps(walked, e, va, q) => Number(walked, q) > 0
      BY MapsCounts
    <2> QED
      BY <1>8, <2>1
  <1>15. /\ p \notin walked.page_free_list
         /\ \A q \in Page : q # p => (q \in walked.page_free_list <=> walked.pp_ref[q] = 0)
    <2>1. \A q \in Page : q \in walked.page_free_list <=> walked.pp_ref[q] = 0 /\ q \notin taken
      BY <1>2 DEF Books, FreeListOK
    <2>2. taken = {p} \/ (taken = {} /\ walked.pp_ref[p] > 0)
      BY <1>3, <1>8, MapsCounts
    <2> QED
      BY <2>1, <2>2
  <1>10. /\ \A q \in Page : r.pp_ref[q] = Number(r, q) + (IF q = KernPage THEN 1 ELSE 0)
         /\ \A q \in Page : q \in r.page_free_list <=> r.pp_ref[q] = 0
    <2>1. PICK up \in Memory :
              /\ RefSet(walked, up, p, Wrap(walked.pp_ref[p] + 1))
              /\ \/ /\ m.pte[e][va] = NoPte
                    /\ r.pp_ref = up.pp_ref /\ r.page_free_list = walked.page_free_list
                 \/ \E q \in Page :
                       /\ m.pte[e][va] # NoPte /\ q = m.pte[e][va].page
                       /\ RefSet(up, r, q, Wrap(up.pp_ref[q] - 1))
                       /\ r.page_free_list = walked.page_free_list \cup (IF r.pp_ref[q] = 0 THEN {q} ELSE {})
      BY <1>5
    <2>2. walked.pp_ref[p] = Number(walked, p)
      BY <1>8
    <2>3. CASE m.pte[e][va] = NoPte
      <3>1. r.pp_ref = up.pp_ref /\ r.page_free_list = walked.page_free_list
        BY <2>1, <2>3
      <3>2. \A q \in Page : ~Maps(walked, e, va, q)
        BY <1>2, <2>3 DEF Maps
      <3>3. Number(r, p) = Number(walked, p) + 1 /\ Wrap(Number(walked, p) + 1) = Number(r, p)
        BY <1>7, <1>8, <3>2, WrapSmall
      <3>4. \A x \in Page : r.pp_ref[x] = IF x = p THEN Number(r, p) ELSE walked.pp_ref[x]
        BY <2>1, <2>2, <3>1, <3>3 DEF RefSet
      <3>5. \A x \in Page : x # p => Number(r, x) = Number(walked, x)
        BY <1>7, <1>8, <3>2
      <3>6. Number(r, p) # 0
        BY <1>8, <3>3
      <3>7. ASSUME NEW x \in Page
            PROVE  /\ r.pp_ref[x] = Number(r, x) + (IF x = KernPage THEN 1 ELSE 0)
                   /\ x \in r.page_free_list <=> r.pp_ref[x] = 0
        <4>1. CASE x = p
          BY <1>15, <3>1, <3>3, <3>4, <3>6, <4>1, <1>8
        <4>2. CASE x # p
          BY <1>8, <1>15, <3>1, <3>4, <3>5, <4>2
        <4> QED
          BY <4>1, <4>2
      <3> QED
        BY <3>7
    <2>4. CASE m.pte[e][va] # NoPte
      <3>1. PICK q \in Page :
                       /\ q = m.pte[e][va].page
                       /\ RefSet(up, r, q, Wrap(up.pp_ref[q] - 1))
                       /\ r.page_free_list = walked.page_free_list \cup (IF r.pp_ref[q] = 0 THEN {q} ELSE {})
        BY <2>1, <2>4, SMTT(30)
      <3>2. \A x \in Page : Maps(walked, e, va, x) <=> x = q
        BY <1>2, <2>4, <3>1 DEF Maps
      <3>3. Number(walked, q) >= 1 /\ q # KernPage /\ walked.pp_ref[q] = Number(walked, q)
        BY <1>8, <1>9, <3>2
      <3>4. CASE q = p
        <4>1. \A x \in Page : Number(r, x) = Number(walked, x)
          BY <1>7, <1>8, <3>2, <3>4
        <4>2. \A x \in Page : r.pp_ref[x] = IF x = p THEN Wrap(Wrap(Number(walked, p) + 1) - 1) ELSE walked.pp_ref[x]
          BY <2>1, <2>2, <3>1, <3>4 DEF RefSet
        <4>3. Wrap(Wrap(Number(walked, p) + 1) - 1) = Number(walked, p)
          <5>1. CASE Number(walked, p) = MaxRef
            BY <5>1, WrapSmall
          <5>2. CASE Number(walked, p) # MaxRef
            <6>1. Number(walked, p) + 1 \in 0 .. MaxRef
              BY <1>8, <5>2, MaxRefAssumption
            <6>2. Wrap(Number(walked, p) + 1) - 1 = Number(walked, p)
              BY <1>8, <6>1, WrapSmall
            <6> QED
              BY <1>8, <6>2, WrapSmall
          <5> QED
            BY <5>1, <5>2
        <4>4. r.pp_ref[p] # 0 /\ r.page_free_list = walked.page_free_list
          BY <3>1, <3>3, <3>4, <4>2, <4>3
        <4> QED
          BY <1>8, <1>15, <4>1, <4>2, <4>3, <4>4
      <3>5. CASE q # p
        <4>1. /\ Number(r, p) = Number(walked, p) + 1
              /\ Number(r, q) = Number(walked, q) - 1
              /\ \A x \in Page : x # p /\ x # q => Number(r, x) = Number(walked, x)
          BY <1>7, <1>8, <3>2, <3>5
        <4>2. Wrap(Number(walked, p) + 1) = Number(r, p) /\ Wrap(Number(walked, q) - 1) = Number(r, q)
          <5>1. Number(walked, p) + 1 \in 0 .. MaxRef /\ Number(walked, q) - 1 \in 0 .. MaxRef
            BY <1>8, <3>3, <4>1, MaxRefAssumption, SMTT(30)
          <5> QED
            BY <4>1, <5>1, WrapSmall
        <4>3. \A x \in Page : r.pp_ref[x] = IF x = q THEN Number(r, q)
                                            ELSE IF x = p THEN Number(r, p) ELSE walked.pp_ref[x]
          <5>1. up.pp_ref[q] = Number(walked, q) /\ up.pp_ref[p] = Number(r, p)
            BY <2>1, <2>2, <3>3, <3>5, <4>2 DEF RefSet
          <5>2. r.pp_ref[q] = Number(r, q)
            BY <3>1, <4>2, <5>1 DEF RefSet
          <5> QED
            BY <2>1, <3>1, <5>1, <5>2 DEF RefSet
        <4>4. Number(r, p) # 0
          BY <1>8, <4>1
        <4>5. ASSUME NEW x \in Page
              PROVE  /\ r.pp_ref[x] = Number(r, x) + (IF x = KernPage THEN 1 ELSE 0)
                     /\ x \in r.page_free_list <=> r.pp_ref[x] = 0
          <5>1. CASE x = p
            <6>1. r.pp_ref[p] = Number(r, p)
              BY <3>5, <4>3, SMTT(30)
            <6>2. p \notin r.page_free_list
              BY <1>15, <3>1, <3>5
            <6> QED
              BY <4>4, <5>1, <6>1, <6>2, NumberType
          <5>2. CASE x = q
            <6>1. r.pp_ref[q] = Number(r, q)
              BY <4>3, SMTT(30)
            <6>2. q \in r.page_free_list <=> r.pp_ref[q] = 0
              BY <1>15, <3>1, <3>3, <3>5, SMTT(30)
            <6> QED
              BY <1>8, <3>3, <4>1, <5>2, <6>1, <6>2
          <5>3. CASE x # p /\ x # q
            BY <1>8, <1>15, <3>1, <4>1, <4>3, <5>3, SMTT(30)
          <5> QED
            BY <5>1, <5>2, <5>3
        <4> QED
          BY <4>5
      <3> QED
        BY <3>4, <3>5
    <2> QED
      BY <2>3, <2>4
  <1>11. TablesOK(r)
    <2>1. ASSUME NEW q \in Page, IsTable(r, q) PROVE Number(r, q) = 1
      <3>1. IsTable(walked, q)
        BY <1>5, <1>6, <2>1 DEF IsTable
      <3>2. Number(walked, q) = 1 /\ q # p
        BY <1>2, <1>4, <3>1 DEF Books, TablesOK
      <3>3. ~Maps(walked, e, va, q)
        BY <3>1, <3>2, TableNotMapped
      <3> QED
        BY <1>7, <3>2, <3>3
    <2> QED
      BY <2>1 DEF TablesOK
  <1>12. Number(r, KernPage) = 0
    BY <1>7, <1>8, <1>9, KernPageAssumption
  <1>13. CountsOK(r)
    BY <1>10 DEF CountsOK
  <1>14. FreeListOK(r, {})
    BY <1>10 DEF FreeListOK
  <1> QED
    BY <1>5, <1>6, <1>11, <1>12, <1>13, <1>14 DEF Books

\* env_setup_vm: the page for the directory comes from the free list.
LEMMA SetupDoes ==
  ASSUME NEW m \in Memory, NEW e \in Env, NEW p \in Page, NEW r, r = EnvSetupVm(m, e, p)
  PROVE  /\ r \in Memory /\ r.pte = m.pte /\ r.pde = m.pde /\ r.kern_pte = m.kern_pte
         /\ RefSet(m, r, p, Wrap(m.pp_ref[p] + 1))
         /\ r.page_free_list = m.page_free_list \ {p}
         /\ \A f \in Env : r.env_pgdir[f] = IF f = e THEN p ELSE m.env_pgdir[f]
  <1>1. PICK c : c = Count(m, p, m.pp_ref[p] + 1)
    OBVIOUS
  <1>2. m.pp_ref[p] + 1 \in Int
    BY DEF Memory
  <1>3. /\ c \in Memory /\ SameTables(m, c) /\ RefSet(m, c, p, Wrap(m.pp_ref[p] + 1))
        /\ c.page_free_list = m.page_free_list
    BY <1>1, <1>2, CountDoes
  <1> DEFINE dirs == [c.env_pgdir EXCEPT ![e] = p]
  <1>4. /\ dirs \in [Env -> Page \cup {NoPage}]
        /\ \A f \in Env : dirs[f] = IF f = e THEN p ELSE c.env_pgdir[f]
    BY <1>3 DEF Memory
  <1>5. r = [c EXCEPT !.page_free_list = c.page_free_list \ {p}, !.env_pgdir = dirs]
    BY <1>1, <1>3 DEF EnvSetupVm, Memory
  <1> HIDE DEF dirs
  <1>6. /\ r \in Memory /\ r.pte = c.pte /\ r.pde = c.pde /\ r.kern_pte = c.kern_pte
        /\ r.pp_ref = c.pp_ref /\ r.page_free_list = c.page_free_list \ {p} /\ r.env_pgdir = dirs
    BY <1>3, <1>4, <1>5 DEF Memory
  <1> QED
    BY <1>3, <1>4, <1>6 DEF SameTables, RefSet

LEMMA BooksSetup ==
  ASSUME NEW m, Books(m, {}), NEW e \in Env, m.env_pgdir[e] = NoPage, NEW p \in m.page_free_list,
         NEW r, r = EnvSetupVm(m, e, p)
  PROVE  Books(r, {})
  <1>1. m \in Memory /\ p \in Page
    BY DEF Books, Memory
  <1>2. /\ r \in Memory /\ r.pte = m.pte /\ r.pde = m.pde /\ r.kern_pte = m.kern_pte
        /\ RefSet(m, r, p, Wrap(m.pp_ref[p] + 1))
        /\ r.page_free_list = m.page_free_list \ {p}
        /\ \A f \in Env : r.env_pgdir[f] = IF f = e THEN p ELSE m.env_pgdir[f]
    BY <1>1, SetupDoes
  <1>3. \A q \in Page : Number(r, q) = Number(m, q) + (IF q = p THEN 1 ELSE 0)
    BY <1>1, <1>2, DirNumber
  <1>4. Number(m, p) = 0 /\ p # KernPage /\ m.pp_ref[p] = 0
    BY <1>1, Counted
  <1>5. Wrap(m.pp_ref[p] + 1) = 1
    <2>1. 1 \in 0 .. MaxRef
      BY MaxRefAssumption
    <2> QED
      BY <1>4, <2>1, WrapSmall
  <1>6. CountsOK(r)
    BY <1>1, <1>2, <1>3, <1>4, <1>5, NumberType DEF CountsOK, RefSet, Books
  <1>7. FreeListOK(r, {})
    BY <1>2, <1>4, <1>5 DEF FreeListOK, RefSet, Books
  <1>8. TablesOK(r)
    <2>1. ASSUME NEW q \in Page, IsTable(r, q), q # p PROVE IsTable(m, q)
      BY <1>2, <2>1 DEF IsTable
    <2> QED
      BY <1>3, <1>4, <2>1, NumberType DEF TablesOK, Books
  <1>9. Number(r, KernPage) = 0
    BY <1>3, <1>4, KernPageAssumption DEF Books
  <1> QED
    BY <1>2, <1>6, <1>7, <1>8, <1>9 DEF Books

\* env_free drops every pointer from the address space of e.
LEMMA FreeDoes ==
  ASSUME NEW m \in Memory, NEW e \in Env, NEW r, r = EnvFree(m, e)
  PROVE  /\ r \in Memory /\ r.kern_pte = m.kern_pte
         /\ \A p \in Page : r.pp_ref[p] = Wrap(m.pp_ref[p] - Cardinality(Pointers(m, e, p)))
         /\ \A p \in Page : p \in r.page_free_list <=>
                p \in m.page_free_list \/ (Pointers(m, e, p) # {} /\ r.pp_ref[p] = 0)
         /\ \A f \in Env, y \in VA : r.pte[f][y] = IF f = e THEN NoPte ELSE m.pte[f][y]
         /\ \A f \in Env, i \in Index : r.pde[f][i] = IF f = e THEN NoPage ELSE m.pde[f][i]
         /\ \A f \in Env : r.env_pgdir[f] = IF f = e THEN NoPage ELSE m.env_pgdir[f]
  <1> DEFINE lost == [p \in Page |-> Pointers(m, e, p)]
             left == [p \in Page |-> Wrap(m.pp_ref[p] - Cardinality(lost[p]))]
             free == m.page_free_list \cup {p \in Page : lost[p] # {} /\ left[p] = 0}
             ptes == [m.pte EXCEPT ![e] = [va \in VA |-> NoPte]]
             pdes == [m.pde EXCEPT ![e] = [x \in Index |-> NoPage]]
             dirs == [m.env_pgdir EXCEPT ![e] = NoPage]
  <1>1. r = [m EXCEPT !.pp_ref = left, !.page_free_list = free, !.pte = ptes, !.pde = pdes, !.env_pgdir = dirs]
    BY DEF EnvFree, DropPointers, Wrap, Memory
  <1>2. /\ \A p \in Page : Wrap(m.pp_ref[p] - Cardinality(lost[p])) \in 0 .. MaxRef
        /\ \A p \in Page : lost[p] = Pointers(m, e, p)
    <2>1. ASSUME NEW p \in Page PROVE Cardinality(Pointers(m, e, p)) \in Nat
      <3>1. Pointers(m, e, p) \in SUBSET Refs(m, p)
        BY DEF Refs
      <3> QED
        BY <3>1, RefsFinite, FS_Subset, FS_CardinalityType
    <2>2. ASSUME NEW p \in Page PROVE m.pp_ref[p] - Cardinality(Pointers(m, e, p)) \in Int
      <3>1. m.pp_ref[p] \in Int
        BY DEF Memory
      <3> QED
        BY <2>1, <3>1
    <2> QED
      BY <2>2, WrapSmall
  <1> HIDE DEF lost
  <1>3. left \in [Page -> 0 .. MaxRef] /\ \A p \in Page : left[p] = Wrap(m.pp_ref[p] - Cardinality(Pointers(m, e, p)))
    BY <1>2
  <1> HIDE DEF left
  <1>4. /\ free \in SUBSET Page
        /\ \A p \in Page : p \in free <=> p \in m.page_free_list \/ (Pointers(m, e, p) # {} /\ left[p] = 0)
    BY <1>2 DEF Memory
  <1>5. /\ ptes \in [Env -> [VA -> Pte \cup {NoPte}]]
        /\ \A f \in Env, y \in VA : ptes[f][y] = IF f = e THEN NoPte ELSE m.pte[f][y]
    BY DEF Memory
  <1>6. /\ pdes \in [Env -> [Index -> Page \cup {NoPage}]]
        /\ \A f \in Env, i \in Index : pdes[f][i] = IF f = e THEN NoPage ELSE m.pde[f][i]
    BY DEF Memory
  <1>7. /\ dirs \in [Env -> Page \cup {NoPage}]
        /\ \A f \in Env : dirs[f] = IF f = e THEN NoPage ELSE m.env_pgdir[f]
    BY DEF Memory
  <1> HIDE DEF free, ptes, pdes, dirs
  <1>8. /\ r \in Memory /\ r.kern_pte = m.kern_pte /\ r.pp_ref = left /\ r.page_free_list = free
        /\ r.pte = ptes /\ r.pde = pdes /\ r.env_pgdir = dirs
    BY <1>1, <1>3, <1>4, <1>5, <1>6, <1>7 DEF Memory
  <1> QED
    BY <1>3, <1>4, <1>5, <1>6, <1>7, <1>8

LEMMA BooksFree ==
  ASSUME NEW m, Books(m, {}), NEW e \in Env, NEW r, r = EnvFree(m, e)
  PROVE  Books(r, {})
  <1>1. /\ r \in Memory /\ r.kern_pte = m.kern_pte
        /\ \A p \in Page : r.pp_ref[p] = Wrap(m.pp_ref[p] - Cardinality(Pointers(m, e, p)))
        /\ \A p \in Page : p \in r.page_free_list <=>
               p \in m.page_free_list \/ (Pointers(m, e, p) # {} /\ r.pp_ref[p] = 0)
        /\ \A f \in Env, y \in VA : r.pte[f][y] = IF f = e THEN NoPte ELSE m.pte[f][y]
        /\ \A f \in Env, i \in Index : r.pde[f][i] = IF f = e THEN NoPage ELSE m.pde[f][i]
        /\ \A f \in Env : r.env_pgdir[f] = IF f = e THEN NoPage ELSE m.env_pgdir[f]
    BY FreeDoes, SMTT(30) DEF Books
  <1>2. ASSUME NEW p \in Page
        PROVE  /\ Number(r, p) = Number(m, p) - Cardinality(Pointers(m, e, p))
               /\ Cardinality(Pointers(m, e, p)) \in Nat
               /\ Cardinality(Pointers(m, e, p)) = 0 <=> Pointers(m, e, p) = {}
    <2>1. Pointers(m, e, p) \in SUBSET Refs(m, p)
      BY DEF Refs
    <2>2. Refs(r, p) = Refs(m, p) \ Pointers(m, e, p)
      <3>1. ASSUME NEW f \in Env, NEW x, f # e
            PROVE  x \in Pointers(r, f, p) <=> x \in Pointers(m, f, p)
        BY <1>1, <3>1, PointersOf
      <3>2. ASSUME NEW x PROVE x \notin Pointers(r, e, p)
        BY <1>1, PointersOf, NoneAssumption
      <3>3. ASSUME NEW f \in Env, NEW x \in Pointers(m, f, p), f # e PROVE x \notin Pointers(m, e, p)
        BY <3>3, PointersOf
      <3> QED
        BY <3>1, <3>2, <3>3 DEF Refs
    <2>3. IsFiniteSet(Refs(m, p)) /\ IsFiniteSet(Pointers(m, e, p))
      BY <2>1, RefsFinite, FS_Subset
    <2>4. Refs(m, p) \cap Pointers(m, e, p) = Pointers(m, e, p)
      BY <2>1
    <2>5. Cardinality(Refs(m, p) \ Pointers(m, e, p)) = Cardinality(Refs(m, p)) - Cardinality(Pointers(m, e, p))
      BY <2>3, <2>4, FS_Difference
    <2> QED
      BY <2>2, <2>3, <2>5, FS_CardinalityType, FS_EmptySet DEF Number
  <1>3. ASSUME NEW p \in Page
        PROVE  /\ r.pp_ref[p] = Number(r, p) + (IF p = KernPage THEN 1 ELSE 0)
               /\ p \in r.page_free_list <=> r.pp_ref[p] = 0
    <2>1. /\ m.pp_ref[p] \in 0 .. MaxRef /\ Number(m, p) \in 0 .. MaxRef /\ Number(r, p) \in Nat
          /\ m.pp_ref[p] = Number(m, p) + (IF p = KernPage THEN 1 ELSE 0)
          /\ p \in m.page_free_list <=> m.pp_ref[p] = 0
      BY Counted, NumberType DEF Books, CountsOK, FreeListOK
    <2>2. m.pp_ref[p] - Cardinality(Pointers(m, e, p)) \in 0 .. MaxRef
      BY <1>2, <2>1, MaxRefAssumption
    <2>3. r.pp_ref[p] = m.pp_ref[p] - Cardinality(Pointers(m, e, p))
      BY <1>1, <2>2, WrapSmall
    <2>4. r.pp_ref[p] = Number(r, p) + (IF p = KernPage THEN 1 ELSE 0)
      BY <1>2, <2>1, <2>3
    <2> QED
      BY <1>1, <1>2, <2>1, <2>3, <2>4
  <1>4. TablesOK(r)
    <2>1. ASSUME NEW p \in Page, IsTable(r, p) PROVE Number(r, p) = 1
      <3>1. IsTable(m, p)
        BY <1>1, <2>1, NoneAssumption DEF IsTable
      <3>2. Number(m, p) = 1
        BY <3>1 DEF Books, TablesOK
      <3>3. Number(r, p) > 0
        BY <2>1, MapsCounts DEF IsTable
      <3> QED
        BY <1>2, <3>2, <3>3, NumberType
    <2> QED
      BY <2>1 DEF TablesOK
  <1>5. Number(r, KernPage) = 0
    BY <1>2, NumberType, KernPageAssumption DEF Books
  <1> QED
    BY <1>1, <1>3, <1>4, <1>5 DEF Books, CountsOK, FreeListOK

-----------------------------------------------------------------------------
(* Types, lives and TLBs.                                                  *)

\* Only the address space of e changes.
Confined(m, r, e) ==
    /\ r \in Memory
    /\ \A f \in Env \ {e} :
           /\ \A va \in VA : r.pte[f][va] = m.pte[f][va]
           /\ \A i \in Index : r.pde[f][i] = m.pde[f][i]
           /\ r.env_pgdir[f] = m.env_pgdir[f]

Clean(m, e) ==
    /\ m.env_pgdir[e] = NoPage
    /\ \A i \in Index : m.pde[e][i] = NoPage
    /\ \A va \in VA : m.pte[e][va] = NoPte

\* A free slot has no address space, and only a live environment waits.
Life ==
    /\ \A e \in Env : recv[e] # NotRecv => est[e] = "LIVE"
    /\ \A e \in Env : est[e] = "FREE" => Clean(mem, e)

Inv == TypeOK /\ Life /\ TlbCoherent

LEMMA PteMade ==
  ASSUME NEW p \in Page, NEW w \in BOOLEAN
  PROVE  [page |-> p, w |-> w] \in Pte
  BY DEF Pte

LEMMA ConfinedRemove ==
  ASSUME NEW m \in Memory, NEW e \in Env, NEW va \in VA, NEW r, r = PageRemove(m, e, va)
  PROVE  Confined(m, r, e)
  BY RemoveDoes, SMTT(30) DEF Confined, PteSet

LEMMA ConfinedInsert ==
  ASSUME NEW m \in Memory, NEW e \in Env, NEW p \in Page, NEW va \in VA, NEW w,
         NEW new \in Pte, new = [page |-> p, w |-> w],
         NEW table \in NewTables(m, e, va),
         NEW r, r = PageInsert(m, e, p, va, w, table)
  PROVE  Confined(m, r, e) /\ PteSet(m, r, e, va, new)
  <1>1. PICK walked : walked = PgdirWalk(m, e, va, table)
    OBVIOUS
  <1>2. /\ r \in Memory /\ r.pde = walked.pde /\ r.env_pgdir = m.env_pgdir
        /\ PteSet(m, r, e, va, new)
    BY <1>1, InsertDoes
  <1>3. \A f \in Env \ {e}, i \in Index : walked.pde[f][i] = m.pde[f][i]
    BY <1>1, WalkDoes
  <1> QED
    BY <1>2, <1>3 DEF Confined, PteSet

LEMMA ConfinedSetup ==
  ASSUME NEW m \in Memory, NEW e \in Env, NEW p \in Page, NEW r, r = EnvSetupVm(m, e, p)
  PROVE  Confined(m, r, e)
  BY SetupDoes DEF Confined

LEMMA ConfinedFree ==
  ASSUME NEW m \in Memory, NEW e \in Env, NEW r, r = EnvFree(m, e)
  PROVE  Confined(m, r, e) /\ Clean(r, e)
  BY FreeDoes DEF Confined, Clean

LEMMA ConfinedFrom ==
  ASSUME NEW m, NEW k, SameTables(m, k), NEW r, NEW e, Confined(k, r, e)
  PROVE  Confined(m, r, e)
  BY DEF Confined, SameTables

\* page_alloc moves p from the free list and touches nothing else.
LEMMA Taken ==
  ASSUME NEW m \in Memory, NEW p \in m.page_free_list, NEW r, r = [m EXCEPT !.page_free_list = @ \ {p}]
  PROVE  /\ r \in Memory /\ SameTables(m, r) /\ r.pp_ref = m.pp_ref /\ p \in Page
         /\ r.page_free_list = m.page_free_list \ {p}
  BY DEF Memory, SameTables

LEMMA GivenBack ==
  ASSUME NEW m \in Memory, NEW p \in Page, NEW r, r = PageFree(m, p)
  PROVE  r \in Memory /\ SameTables(m, r) /\ r.pp_ref = m.pp_ref
  BY DEF Memory, SameTables, PageFree

\* A system call of c that changes the address space of e alone, which is
\* its own or of an environment that runs nowhere.
LEMMA CallKeepsInv ==
  ASSUME Inv, NEW c \in CPUs, cur[c] # NoEnv, NEW e \in Env, Confined(mem, mem', e),
         e = cur[c] \/ ~Running(e),
         est' \in [Env -> {"FREE", "NEW", "LIVE"}],
         recv' \in [Env -> VA \cup {Zero, UTOP, NotRecv}],
         \A f \in Env : Running(f) /\ f # cur[c] => est'[f] = est[f] /\ recv'[f] = recv[f],
         \/ Leave(c)
         \/ Resume(c) /\ est'[cur[c]] = est[cur[c]] /\ recv'[cur[c]] = recv[cur[c]],
         \A f \in Env \ {e} : est'[f] = "FREE" => est[f] = "FREE",
         est'[e] = "FREE" => Clean(mem', e),
         \A f \in Env : recv'[f] # NotRecv => est'[f] = "LIVE"
  PROVE  Inv'
  <1>1. mem' \in Memory
    BY DEF Confined
  <1>2. /\ cur' \in [CPUs -> Env \cup {NoEnv}]
        /\ tlb' \in [CPUs -> [VA -> Pte \cup {NoPte}]]
        /\ tlb'[c] = NoTlb
        /\ \A d \in CPUs : d # c => cur'[d] = cur[d] /\ tlb'[d] = tlb[d]
        /\ cur'[c] = NoEnv \/ cur'[c] = cur[c]
    <2>1. NoTlb \in [VA -> Pte \cup {NoPte}]
      BY DEF NoTlb
    <2>2. CASE Leave(c)
      BY <2>1, <2>2 DEF Inv, TypeOK, Leave
    <2>3. CASE Resume(c)
      BY <2>1, <2>3 DEF Inv, TypeOK, Resume
    <2> QED
      BY <2>2, <2>3
  <1>3. ASSUME NEW d \in CPUs, cur'[d] # NoEnv
        PROVE  /\ cur'[d] = cur[d] /\ cur[d] \in Env /\ Running(cur[d])
               /\ d # c => cur[d] # cur[c]
               /\ est'[cur[d]] = "LIVE" /\ recv'[cur[d]] = NotRecv
    <2>1. cur'[d] = cur[d] /\ cur[d] \in Env /\ Running(cur[d])
      BY <1>2, <1>3 DEF Inv, TypeOK, Running
    <2>2. est[cur[d]] = "LIVE" /\ recv[cur[d]] = NotRecv /\ (d # c => cur[d] # cur[c])
      BY <1>3, <2>1 DEF Inv, TypeOK
    <2>3. CASE d = c
      BY <1>2, <1>3, <2>1, <2>2, <2>3 DEF Leave, Resume, Inv, TypeOK
    <2>4. CASE d # c
      BY <2>1, <2>2, <2>4
    <2> QED
      BY <2>1, <2>2, <2>3, <2>4
  <1>4. ASSUME NEW d \in CPUs, NEW b \in CPUs, cur'[d] # NoEnv, cur'[b] = cur'[d]
        PROVE  b = d
    BY <1>3, <1>4 DEF Inv, TypeOK
  <1>5. TypeOK'
    BY <1>1, <1>2, <1>3, <1>4 DEF TypeOK
  <1>6. Life'
    BY DEF Inv, Life, Clean, Confined
  <1>7. TlbCoherent'
    <2>1. ASSUME NEW d \in CPUs, NEW va \in VA, tlb'[d][va] # NoPte
          PROVE  cur'[d] # NoEnv /\ tlb'[d][va] = mem'.pte[cur'[d]][va]
      <3>1. d # c
        BY <1>2, <2>1 DEF NoTlb
      <3>2. cur[d] # NoEnv /\ tlb[d][va] = mem.pte[cur[d]][va] /\ cur'[d] = cur[d]
        BY <1>2, <2>1, <3>1 DEF Inv, TlbCoherent
      <3>3. cur[d] \in Env \ {e}
        BY <1>3, <3>1, <3>2
      <3>4. mem'.pte[cur[d]][va] = mem.pte[cur[d]][va]
        BY <3>3 DEF Confined
      <3> QED
        BY <1>2, <3>1, <3>2, <3>4
    <2> QED
      BY <2>1 DEF TlbCoherent
  <1> QED
    BY <1>5, <1>6, <1>7 DEF Inv

-----------------------------------------------------------------------------
(* What each step does to the memory.                                      *)

Used(m, p) == \E e \in Env, va \in VA : Maps(m, e, va, p)
Writable(m, p) == \E e \in Env, va \in VA : Maps(m, e, va, p) /\ m.pte[e][va].w
NoNewRights(m, r) == \A p \in Page : Writable(r, p) => Writable(m, p) \/ ~Used(m, p)

\* No count in m has passed the width of pp_ref.
NoWrap(m) == \A p \in Page : Number(m, p) <= MaxRef

\* The step from m to r keeps the books and grants no right.
Sound(m, r) == Books(m, {}) /\ NoWrap(r) => Books(r, {}) /\ NoNewRights(m, r)

LEMMA RightsKept ==
  ASSUME NEW m, NEW r, \A f \in Env, y \in VA : r.pte[f][y] = m.pte[f][y] \/ r.pte[f][y] = NoPte
  PROVE  NoNewRights(m, r)
  BY DEF NoNewRights, Writable, Maps

LEMMA RightsSet ==
  ASSUME NEW m, NEW r, NEW e \in Env, NEW va \in VA, NEW pte, PteSet(m, r, e, va, pte),
         pte.w => Writable(m, pte.page) \/ ~Used(m, pte.page)
  PROVE  NoNewRights(m, r)
  <1>1. ASSUME NEW p \in Page, NEW f \in Env, NEW y \in VA, Maps(r, f, y, p), r.pte[f][y].w
        PROVE  Writable(m, p) \/ ~Used(m, p)
    <2>1. CASE f = e /\ y = va
      BY <1>1, <2>1 DEF PteSet, Maps
    <2>2. CASE ~(f = e /\ y = va)
      BY <1>1, <2>2 DEF PteSet, Maps, Writable
    <2> QED
      BY <2>1, <2>2
  <1> QED
    BY <1>1 DEF NoNewRights, Writable

LEMMA SoundSame == \A m : Sound(m, m)
  <1> SUFFICES ASSUME NEW m PROVE Sound(m, m)
    OBVIOUS
  <1>1. NoNewRights(m, m)
    BY RightsKept
  <1> QED
    BY <1>1 DEF Sound

LEMMA SoundRemove ==
  ASSUME NEW m \in Memory, NEW e \in Env, NEW va \in VA, NEW r, r = PageRemove(m, e, va)
  PROVE  Sound(m, r)
  <1>1. \A f \in Env, y \in VA : r.pte[f][y] = m.pte[f][y] \/ r.pte[f][y] = NoPte
    BY RemoveDoes, SMTT(30) DEF PteSet
  <1>2. Books(m, {}) => Books(r, {})
    BY BooksRemove
  <1> QED
    BY <1>1, <1>2, RightsKept DEF Sound

\* A page that is mapped is mapped again, with no right it has not.
LEMMA SoundMap ==
  ASSUME NEW m \in Memory, NEW e \in Env, NEW va \in VA, NEW w \in BOOLEAN,
         NEW src \in Env, NEW srcva \in VA, m.pte[src][srcva] # NoPte, w => m.pte[src][srcva].w,
         NEW p, p = m.pte[src][srcva].page,
         NEW table \in NewTables(m, e, va), NEW r, r = PageInsert(m, e, p, va, w, table)
  PROVE  Sound(m, r) /\ Confined(m, r, e)
  <1>1. p \in Page
    BY OldTyped
  <1>2. PICK new \in Pte : new = [page |-> p, w |-> w]
    BY <1>1, PteMade
  <1>3. Confined(m, r, e) /\ PteSet(m, r, e, va, new)
    BY <1>1, <1>2, ConfinedInsert
  <1>4. Used(m, p) /\ (w => Writable(m, p))
    BY DEF Used, Writable, Maps
  <1>5. NoNewRights(m, r)
    <2>1. new.page = p /\ (new.w => w)
      BY <1>2
    <2>2. new.w => Writable(m, new.page) \/ ~Used(m, new.page)
      BY <1>4, <2>1
    <2> QED
      BY <1>3, <2>2, RightsSet
  <1>6. ASSUME Books(m, {}), NoWrap(r) PROVE Books(r, {})
    <2>1. p # KernPage
      <3>1. Number(m, p) > 0
        BY <1>4, MapsCounts DEF Used
      <3> QED
        BY <1>6, <3>1 DEF Books
    <2>2. Number(r, p) <= MaxRef
      BY <1>1, <1>6 DEF NoWrap
    <2> QED
      BY <1>1, <1>2, <1>4, <1>6, <2>1, <2>2, BooksInsert DEF Used
  <1> QED
    BY <1>3, <1>5, <1>6 DEF Sound

\* A new page is mapped.
LEMMA SoundAlloc ==
  ASSUME NEW m \in Memory, NEW e \in Env, NEW va \in VA, NEW w \in BOOLEAN,
         NEW p \in m.page_free_list, NEW taken, taken = [m EXCEPT !.page_free_list = @ \ {p}],
         NEW table \in NewTables(taken, e, va), NEW r, r = PageInsert(taken, e, p, va, w, table)
  PROVE  Sound(m, r) /\ Confined(m, r, e)
  <1>1. taken \in Memory /\ SameTables(m, taken) /\ p \in Page
    BY Taken
  <1>2. PICK new \in Pte : new = [page |-> p, w |-> w]
    BY <1>1, PteMade
  <1>3. Confined(taken, r, e) /\ PteSet(taken, r, e, va, new)
    BY <1>1, <1>2, ConfinedInsert
  <1>4. Confined(m, r, e) /\ PteSet(m, r, e, va, new)
    <2>1. taken.pte = m.pte /\ taken.pde = m.pde /\ taken.env_pgdir = m.env_pgdir
      BY <1>1 DEF SameTables
    <2>2. Confined(m, r, e)
      BY <1>1, <1>3, ConfinedFrom
    <2>3. PteSet(m, r, e, va, new)
      BY <1>3, <2>1, ZenonT(60) DEF PteSet
    <2> QED
      BY <2>2, <2>3
  <1>5. ASSUME Books(m, {}), NoWrap(r) PROVE Books(r, {}) /\ NoNewRights(m, r)
    <2>1. Books(taken, {p}) /\ Number(taken, p) = 0 /\ p # KernPage
      BY <1>5, BooksTake
    <2>2. Number(r, p) <= MaxRef
      BY <1>1, <1>5 DEF NoWrap
    <2>3. Books(r, {})
      BY <1>1, <1>2, <2>1, <2>2, BooksInsert
    <2>4. ~Used(m, p)
      <3>1. Number(m, p) = 0
        BY <1>1, <1>5, Counted
      <3> QED
        BY <3>1, MapsCounts DEF Used
    <2>5. NoNewRights(m, r)
      <3>1. new.page = p
        BY <1>2
      <3>2. ~Used(m, new.page)
        BY <2>4, <3>1
      <3> QED
        BY <1>4, <3>2, RightsSet
    <2> QED
      BY <2>3, <2>5
  <1> QED
    BY <1>4, <1>5 DEF Sound

\* A new page is given back: there was none for the page table.
LEMMA SoundGiveBack ==
  ASSUME NEW m \in Memory, NEW e \in Env, NEW p \in m.page_free_list,
         NEW taken, taken = [m EXCEPT !.page_free_list = @ \ {p}], NEW r, r = PageFree(taken, p)
  PROVE  Sound(m, r) /\ Confined(m, r, e)
  <1>1. taken \in Memory /\ SameTables(m, taken) /\ p \in Page
    BY Taken
  <1>2. r \in Memory /\ SameTables(taken, r)
    BY <1>1, GivenBack
  <1>3. Books(m, {}) => Books(r, {})
    BY BooksTake, BooksGive
  <1>4. NoNewRights(m, r)
    <2>1. r.pte = m.pte
      BY <1>1, <1>2 DEF SameTables
    <2> QED
      BY <2>1, RightsKept
  <1> QED
    BY <1>1, <1>2, <1>3, <1>4 DEF Sound, Confined, SameTables

LEMMA SoundSetup ==
  ASSUME NEW m \in Memory, NEW e \in Env, m.env_pgdir[e] = NoPage, NEW p \in m.page_free_list,
         NEW r, r = EnvSetupVm(m, e, p)
  PROVE  Sound(m, r) /\ Confined(m, r, e)
  <1>1. p \in Page
    BY DEF Memory
  <1>2. r.pte = m.pte /\ Confined(m, r, e)
    BY <1>1, SetupDoes, ConfinedSetup
  <1>3. NoNewRights(m, r)
    BY <1>2, RightsKept
  <1>4. Books(m, {}) => Books(r, {})
    BY BooksSetup
  <1> QED
    BY <1>2, <1>3, <1>4 DEF Sound

LEMMA SoundFree ==
  ASSUME NEW m \in Memory, NEW e \in Env, NEW r, r = EnvFree(m, e)
  PROVE  Sound(m, r) /\ Confined(m, r, e) /\ Clean(r, e)
  <1>1. \A f \in Env, y \in VA : r.pte[f][y] = m.pte[f][y] \/ r.pte[f][y] = NoPte
    BY FreeDoes
  <1>2. Books(m, {}) => Books(r, {})
    BY BooksFree
  <1> QED
    BY <1>1, <1>2, RightsKept, ConfinedFree DEF Sound

-----------------------------------------------------------------------------
(* One lemma per group of actions.                                         *)

Good == Inv' /\ Sound(mem, mem')

\* The memory and all lives stay.
LEMMA CpuStepGood ==
  ASSUME Inv, NEW c \in CPUs, CpuStep(c)
  PROVE  Good
  <1>1. mem' = mem /\ est' = est /\ recv' = recv
    BY DEF CpuStep, Dispatch, Preempt, Access
  <1>2. Sound(mem, mem')
    BY <1>1, SoundSame
  <1>3. Life'
    BY <1>1 DEF Inv, Life, Clean
  <1>4. NoTlb \in [VA -> Pte \cup {NoPte}]
    BY DEF NoTlb
  <1>5. ASSUME NEW e \in Env, Dispatch(c, e) PROVE TypeOK' /\ TlbCoherent'
    <2>1. /\ cur' \in [CPUs -> Env \cup {NoEnv}] /\ tlb' \in [CPUs -> [VA -> Pte \cup {NoPte}]]
          /\ cur'[c] = e /\ tlb'[c] = NoTlb
          /\ \A d \in CPUs : d # c => cur'[d] = cur[d] /\ tlb'[d] = tlb[d]
      BY <1>4, <1>5 DEF Dispatch, Inv, TypeOK
    <2>2. est[e] = "LIVE" /\ recv[e] = NotRecv /\ \A d \in CPUs : cur[d] # e
      BY <1>5 DEF Dispatch, Running
    <2>3. TypeOK'
      BY <1>1, <2>1, <2>2 DEF Inv, TypeOK
    <2>4. TlbCoherent'
      BY <1>1, <2>1 DEF Inv, TlbCoherent, NoTlb
    <2> QED
      BY <2>3, <2>4
  <1>6. ASSUME Preempt(c) PROVE TypeOK' /\ TlbCoherent'
    <2>1. /\ cur' \in [CPUs -> Env \cup {NoEnv}] /\ tlb' \in [CPUs -> [VA -> Pte \cup {NoPte}]]
          /\ cur'[c] = NoEnv /\ tlb'[c] = NoTlb
          /\ \A d \in CPUs : d # c => cur'[d] = cur[d] /\ tlb'[d] = tlb[d]
      BY <1>4, <1>6 DEF Preempt, Leave, Inv, TypeOK
    <2>2. TypeOK'
      BY <1>1, <2>1 DEF Inv, TypeOK
    <2>3. TlbCoherent'
      BY <1>1, <2>1 DEF Inv, TlbCoherent, NoTlb
    <2> QED
      BY <2>2, <2>3
  <1>7. ASSUME NEW va \in VA, Access(c, va) PROVE TypeOK' /\ TlbCoherent'
    <2>1. PICK pte \in Pte \cup {NoPte} : pte = mem.pte[cur[c]][va]
      BY <1>7 DEF Access, Inv, TypeOK, Memory
    <2>2. /\ tlb' \in [CPUs -> [VA -> Pte \cup {NoPte}]] /\ cur' = cur /\ cur[c] # NoEnv
          /\ \A d \in CPUs, y \in VA : tlb'[d][y] = IF d = c /\ y = va THEN pte ELSE tlb[d][y]
      <3>1. tlb' = [tlb EXCEPT ![c] = [tlb[c] EXCEPT ![va] = pte]]
        BY <1>7, <2>1 DEF Access, Inv, TypeOK
      <3> QED
        BY <1>7, <3>1 DEF Access, Inv, TypeOK
    <2>3. TypeOK'
      BY <1>1, <2>2 DEF Inv, TypeOK
    <2>4. TlbCoherent'
      BY <1>1, <2>1, <2>2 DEF Inv, TlbCoherent
    <2> QED
      BY <2>3, <2>4
  <1> QED
    BY <1>2, <1>3, <1>5, <1>6, <1>7 DEF CpuStep, Good, Inv

\* What a running environment is.
LEMMA Caller ==
  ASSUME Inv, NEW c \in CPUs, cur[c] # NoEnv
  PROVE  /\ mem \in Memory /\ cur[c] \in Env /\ est[cur[c]] = "LIVE" /\ recv[cur[c]] = NotRecv
         /\ Running(cur[c])
         /\ \A e \in Env : Running(e) => est[e] = "LIVE" /\ recv[e] = NotRecv
         /\ \A e \in Env : Running(e) => e \in Env
  BY NoneAssumption DEF Inv, TypeOK, Running

LEMMA SameConfined ==
  ASSUME NEW m \in Memory, NEW e
  PROVE  Confined(m, m, e)
  BY DEF Confined

\* A call that changes the mappings of e and no life.
LEMMA MappingCall ==
  ASSUME Inv, NEW c \in CPUs, cur[c] # NoEnv, NEW e \in Env, Confined(mem, mem', e), Sound(mem, mem'),
         e = cur[c] \/ ~Running(e), est[e] # "FREE", est' = est,
         recv' = recv \/ recv' = [recv EXCEPT ![e] = NotRecv], Resume(c)
  PROVE  Good
  <1>1. recv' \in [Env -> VA \cup {Zero, UTOP, NotRecv}] /\ \A f \in Env : recv'[f] = recv[f] \/ (f = e /\ recv'[f] = NotRecv)
    BY DEF Inv, TypeOK
  <1>2. est \in [Env -> {"FREE", "NEW", "LIVE"}]
    BY DEF Inv, TypeOK
  <1>3. \A f \in Env : Running(f) /\ f # cur[c] => est'[f] = est[f] /\ recv'[f] = recv[f]
    BY <1>1
  <1>4. est'[cur[c]] = est[cur[c]] /\ recv'[cur[c]] = recv[cur[c]]
    BY <1>1, Caller
  <1>5. \A f \in Env : recv'[f] # NotRecv => est'[f] = "LIVE"
    BY <1>1 DEF Inv, Life
  <1>6. Inv'
    BY <1>1, <1>2, <1>3, <1>4, <1>5, CallKeepsInv
  <1> QED
    BY <1>6 DEF Good

LEMMA LifeCallGood ==
  ASSUME Inv, NEW c \in CPUs, LifeCall(c)
  PROVE  Good
  <1>1. CASE Fail(c)
    <2>1. cur[c] # NoEnv /\ Resume(c) /\ mem' = mem /\ est' = est /\ recv' = recv
      BY <1>1 DEF Fail
    <2>2. Confined(mem, mem', cur[c]) /\ Sound(mem, mem')
      BY <2>1, Caller, SameConfined, SoundSame
    <2> QED
      BY <2>1, <2>2, Caller, MappingCall
  <1>2. CASE SysExofork(c)
    <2>1. PICK e \in Env, p \in mem.page_free_list :
             est[e] = "FREE" /\ mem' = EnvSetupVm(mem, e, p) /\ est' = [est EXCEPT ![e] = "NEW"]
      BY <1>2 DEF SysExofork
    <2>2. cur[c] # NoEnv /\ Resume(c) /\ recv' = recv
      BY <1>2 DEF SysExofork
    <2>3. mem.env_pgdir[e] = NoPage /\ ~Running(e)
      BY <2>1, <2>2, Caller DEF Inv, Life, Clean
    <2>4. Sound(mem, mem') /\ Confined(mem, mem', e)
      BY <2>1, <2>2, <2>3, Caller, SoundSetup
    <2>5. /\ est' \in [Env -> {"FREE", "NEW", "LIVE"}] /\ est'[e] = "NEW"
          /\ \A f \in Env : f # e => est'[f] = est[f]
      BY <2>1 DEF Inv, TypeOK
    <2>6. recv' \in [Env -> VA \cup {Zero, UTOP, NotRecv}]
      BY <2>2 DEF Inv, TypeOK
    <2>7. \A f \in Env : Running(f) => est'[f] = est[f] /\ recv'[f] = recv[f]
      BY <2>2, <2>3, <2>5
    <2>8. \A f \in Env : recv'[f] # NotRecv => est'[f] = "LIVE"
      BY <2>1, <2>2, <2>5 DEF Inv, Life
    <2>9. est'[cur[c]] = est[cur[c]] /\ recv'[cur[c]] = recv[cur[c]]
      BY <2>2, <2>7, Caller
    <2>10. Inv'
      BY <2>2, <2>3, <2>4, <2>5, <2>6, <2>7, <2>8, <2>9, CallKeepsInv
    <2> QED
      BY <2>4, <2>10 DEF Good
  <1>3. CASE Exit(c)
    <2>1. /\ cur[c] # NoEnv /\ mem' = EnvFree(mem, cur[c]) /\ est' = [est EXCEPT ![cur[c]] = "FREE"]
          /\ Leave(c) /\ recv' = recv
      BY <1>3 DEF Exit
    <2>2. PICK e \in Env : e = cur[c]
      BY <2>1, Caller
    <2>3. Sound(mem, mem') /\ Confined(mem, mem', e) /\ Clean(mem', e)
      BY <2>1, <2>2, Caller, SoundFree
    <2>4. /\ est' \in [Env -> {"FREE", "NEW", "LIVE"}] /\ est'[e] = "FREE"
          /\ \A f \in Env : f # e => est'[f] = est[f]
      BY <2>1, <2>2 DEF Inv, TypeOK
    <2>5. recv' \in [Env -> VA \cup {Zero, UTOP, NotRecv}]
      BY <2>1 DEF Inv, TypeOK
    <2>6. \A f \in Env : Running(f) /\ f # cur[c] => est'[f] = est[f] /\ recv'[f] = recv[f]
      BY <2>1, <2>2, <2>4
    <2>7. \A f \in Env : recv'[f] # NotRecv => est'[f] = "LIVE"
      <3>1. recv[e] = NotRecv
        BY <2>1, <2>2, Caller
      <3> QED
        BY <2>1, <2>4, <3>1 DEF Inv, Life
    <2>8. Inv'
      BY <2>1, <2>2, <2>3, <2>4, <2>5, <2>6, <2>7, CallKeepsInv
    <2> QED
      BY <2>3, <2>8 DEF Good
  <1>4. ASSUME NEW e \in Env, Start(c, e) PROVE Good
    <2>1. cur[c] # NoEnv /\ est[e] = "NEW" /\ est' = [est EXCEPT ![e] = "LIVE"] /\ Resume(c) /\ mem' = mem /\ recv' = recv
      BY <1>4 DEF Start
    <2>2. ~Running(e)
      BY <2>1, Caller
    <2>3. Sound(mem, mem') /\ Confined(mem, mem', e)
      BY <2>1, Caller, SoundSame, SameConfined
    <2>4. /\ est' \in [Env -> {"FREE", "NEW", "LIVE"}] /\ est'[e] = "LIVE"
          /\ \A f \in Env : f # e => est'[f] = est[f]
      BY <2>1 DEF Inv, TypeOK
    <2>5. recv' \in [Env -> VA \cup {Zero, UTOP, NotRecv}]
      BY <2>1 DEF Inv, TypeOK
    <2>6. \A f \in Env : Running(f) => est'[f] = est[f] /\ recv'[f] = recv[f]
      BY <2>1, <2>2, <2>4
    <2>7. \A f \in Env : recv'[f] # NotRecv => est'[f] = "LIVE"
      BY <2>1, <2>4 DEF Inv, Life
    <2>8. est'[cur[c]] = est[cur[c]] /\ recv'[cur[c]] = recv[cur[c]]
      BY <2>1, <2>6, Caller
    <2>9. Inv'
      BY <2>1, <2>2, <2>3, <2>4, <2>5, <2>6, <2>7, <2>8, CallKeepsInv
    <2> QED
      BY <2>3, <2>9 DEF Good
  <1>5. ASSUME NEW e \in Env, Destroy(c, e) PROVE Good
    <2>1. /\ cur[c] # NoEnv /\ ~Running(e) /\ mem' = EnvFree(mem, e) /\ est' = [est EXCEPT ![e] = "FREE"]
          /\ recv' = [recv EXCEPT ![e] = NotRecv] /\ Resume(c)
      BY <1>5 DEF Destroy
    <2>2. Sound(mem, mem') /\ Confined(mem, mem', e) /\ Clean(mem', e)
      BY <2>1, Caller, SoundFree
    <2>3. /\ est' \in [Env -> {"FREE", "NEW", "LIVE"}] /\ est'[e] = "FREE"
          /\ \A f \in Env : f # e => est'[f] = est[f]
      BY <2>1 DEF Inv, TypeOK
    <2>4. /\ recv' \in [Env -> VA \cup {Zero, UTOP, NotRecv}] /\ recv'[e] = NotRecv
          /\ \A f \in Env : f # e => recv'[f] = recv[f]
      BY <2>1 DEF Inv, TypeOK
    <2>5. \A f \in Env : Running(f) => est'[f] = est[f] /\ recv'[f] = recv[f]
      BY <2>1, <2>3, <2>4
    <2>6. \A f \in Env : recv'[f] # NotRecv => est'[f] = "LIVE"
      BY <2>3, <2>4 DEF Inv, Life
    <2>7. est'[cur[c]] = est[cur[c]] /\ recv'[cur[c]] = recv[cur[c]]
      BY <2>1, <2>5, Caller
    <2>8. Inv'
      BY <2>1, <2>2, <2>3, <2>4, <2>5, <2>6, <2>7, CallKeepsInv
    <2> QED
      BY <2>2, <2>8 DEF Good
  <1> QED
    BY <1>1, <1>2, <1>3, <1>4, <1>5 DEF LifeCall

LEMMA IpcCallGood ==
  ASSUME Inv, NEW c \in CPUs, IpcCall(c)
  PROVE  Good
  <1>1. ASSUME NEW dstva \in VA \cup {Zero, UTOP}, SysIpcRecv(c, dstva) PROVE Good
    <2>1. cur[c] # NoEnv /\ recv' = [recv EXCEPT ![cur[c]] = dstva] /\ Leave(c) /\ mem' = mem /\ est' = est
      BY <1>1 DEF SysIpcRecv
    <2>2. PICK e \in Env : e = cur[c]
      BY <2>1, Caller
    <2>3. Sound(mem, mem') /\ Confined(mem, mem', e)
      BY <2>1, Caller, SoundSame, SameConfined
    <2>4. /\ recv' \in [Env -> VA \cup {Zero, UTOP, NotRecv}]
          /\ \A f \in Env : f # e => recv'[f] = recv[f]
      BY <2>1, <2>2 DEF Inv, TypeOK
    <2>5. est' \in [Env -> {"FREE", "NEW", "LIVE"}] /\ est'[e] = "LIVE"
      BY <2>1, <2>2, Caller DEF Inv, TypeOK
    <2>6. \A f \in Env : recv'[f] # NotRecv => est'[f] = "LIVE"
      BY <2>1, <2>4, <2>5 DEF Inv, Life
    <2>7. Inv'
      BY <2>1, <2>2, <2>3, <2>4, <2>5, <2>6, CallKeepsInv
    <2> QED
      BY <2>3, <2>7 DEF Good
  <1>2. ASSUME NEW e \in Env, SysIpcTrySendValue(c, e) PROVE Good
    <2>1. cur[c] # NoEnv /\ recv[e] # NotRecv /\ recv' = [recv EXCEPT ![e] = NotRecv] /\ Resume(c) /\ mem' = mem /\ est' = est
      BY <1>2 DEF SysIpcTrySendValue
    <2>2. ~Running(e) /\ est[e] # "FREE"
      BY <2>1, Caller DEF Inv, Life
    <2>3. Sound(mem, mem') /\ Confined(mem, mem', e)
      BY <2>1, Caller, SoundSame, SameConfined
    <2> QED
      BY <2>1, <2>2, <2>3, MappingCall
  <1>3. ASSUME NEW e \in Env, NEW srcva \in VA, NEW w \in BOOLEAN, recv[e] # UTOP,
               SysIpcTrySendPage(c, e, srcva, w)
        PROVE  Good
    <2>1. /\ cur[c] # NoEnv /\ recv[e] # NotRecv /\ recv' = [recv EXCEPT ![e] = NotRecv] /\ Resume(c) /\ est' = est
          /\ mem.pte[cur[c]][srcva] # NoPte /\ (w => mem.pte[cur[c]][srcva].w)
      BY <1>3 DEF SysIpcTrySendPage
    <2>2. ~Running(e) /\ est[e] # "FREE"
      BY <2>1, Caller DEF Inv, Life
    <2>3. Sound(mem, mem') /\ Confined(mem, mem', e)
      <3>1. CASE mem' = mem
        BY <2>1, <3>1, Caller, SoundSame, SameConfined
      <3>2. CASE mem' # mem
        <4>1. PICK dstva \in VA : \E table \in NewTables(mem, e, dstva) :
                 mem' = PageInsert(mem, e, mem.pte[cur[c]][srcva].page, dstva, w, table)
          BY <1>3, <3>2 DEF SysIpcTrySendPage
        <4>2. PICK table \in NewTables(mem, e, dstva) :
                 mem' = PageInsert(mem, e, mem.pte[cur[c]][srcva].page, dstva, w, table)
          BY <4>1
        <4>3. PICK p : p = mem.pte[cur[c]][srcva].page
          OBVIOUS
        <4>4. mem' = PageInsert(mem, e, p, dstva, w, table)
          BY <4>2, <4>3
        <4>5. mem \in Memory /\ cur[c] \in Env
          BY <2>1, Caller
        <4> QED
          BY <2>1, <4>3, <4>4, <4>5, SoundMap
      <3> QED
        BY <3>1, <3>2
    <2> QED
      BY <2>1, <2>2, <2>3, MappingCall
  <1> QED
    BY <1>1, <1>2, <1>3 DEF IpcCall

LEMMA PageCallGood ==
  ASSUME Inv, NEW c \in CPUs, PageCall(c, OwnOrNew(c))
  PROVE  Good
  <1>1. PICK e \in OwnOrNew(c), va \in VA, w \in BOOLEAN :
           \/ SysPageAlloc(c, e, va, w)
           \/ SysPageUnmap(c, e, va)
           \/ \E src \in OwnOrNew(c), srcva \in VA : SysPageMap(c, src, srcva, e, va, w)
    BY DEF PageCall
  <1>2. cur[c] # NoEnv /\ Resume(c) /\ est' = est /\ recv' = recv
    BY <1>1 DEF SysPageAlloc, SysPageUnmap, SysPageMap
  <1>3. e \in Env /\ OwnOrNew(c) \subseteq Env /\ est[e] # "FREE" /\ (e = cur[c] \/ ~Running(e)) /\ mem \in Memory
    BY <1>2, Caller DEF OwnOrNew
  <1>4. CASE SysPageAlloc(c, e, va, w)
    <2>1. PICK p \in mem.page_free_list :
             LET taken == [mem EXCEPT !.page_free_list = @ \ {p}]
             IN  \/ \E table \in NewTables(taken, e, va) :
                        mem' = PageInsert(taken, e, p, va, w, table)
                 \/ NewTables(taken, e, va) = {} /\ mem' = PageFree(taken, p)
      BY <1>4 DEF SysPageAlloc
    <2>2. PICK taken : taken = [mem EXCEPT !.page_free_list = @ \ {p}]
      OBVIOUS
    <2>3. CASE \E table \in NewTables(taken, e, va) : mem' = PageInsert(taken, e, p, va, w, table)
      <3>1. PICK table \in NewTables(taken, e, va) : mem' = PageInsert(taken, e, p, va, w, table)
        BY <2>3
      <3>2. Sound(mem, mem') /\ Confined(mem, mem', e)
        BY <1>3, <2>2, <3>1, SoundAlloc
      <3> QED
        BY <1>2, <1>3, <3>2, MappingCall
    <2>4. CASE mem' = PageFree(taken, p)
      <3>1. Sound(mem, mem') /\ Confined(mem, mem', e)
        BY <1>3, <2>2, <2>4, SoundGiveBack
      <3> QED
        BY <1>2, <1>3, <3>1, MappingCall
    <2> QED
      BY <2>1, <2>2, <2>3, <2>4
  <1>5. CASE SysPageUnmap(c, e, va)
    <2>1. mem' = PageRemove(mem, e, va)
      BY <1>5 DEF SysPageUnmap
    <2>2. Sound(mem, mem') /\ Confined(mem, mem', e)
      BY <1>3, <2>1, SoundRemove, ConfinedRemove
    <2> QED
      BY <1>2, <1>3, <2>2, MappingCall
  <1>6. ASSUME NEW src \in OwnOrNew(c), NEW srcva \in VA, SysPageMap(c, src, srcva, e, va, w) PROVE Good
    <2>1. PICK p : p = mem.pte[src][srcva].page
      OBVIOUS
    <2>2. mem.pte[src][srcva] # NoPte /\ (w => mem.pte[src][srcva].w)
      BY <1>6 DEF SysPageMap
    <2>3. PICK table \in NewTables(mem, e, va) : mem' = PageInsert(mem, e, p, va, w, table)
      BY <1>6, <2>1 DEF SysPageMap
    <2>4. Sound(mem, mem') /\ Confined(mem, mem', e)
      BY <1>3, <2>1, <2>2, <2>3, SoundMap
    <2> QED
      BY <1>2, <1>3, <2>4, MappingCall
  <1> QED
    BY <1>1, <1>4, <1>5, <1>6

LEMMA NextGood ==
  ASSUME Inv, [Next]_vars
  PROVE  Good
  <1>1. CASE Next
    <2>1. PICK c \in CPUs : CpuStep(c) \/ LifeCall(c) \/ IpcCall(c) \/ PageCall(c, OwnOrNew(c))
      BY <1>1 DEF Next
    <2> QED
      BY <2>1, CpuStepGood, LifeCallGood, IpcCallGood, PageCallGood
  <1>2. CASE UNCHANGED vars
    <2>1. mem' = mem /\ est' = est /\ recv' = recv /\ cur' = cur /\ tlb' = tlb
      BY <1>2 DEF vars
    <2>2. Sound(mem, mem')
      BY <2>1, SoundSame
    <2>3. Inv'
      BY <2>1 DEF Inv, TypeOK, Life, Clean, TlbCoherent
    <2> QED
      BY <2>2, <2>3 DEF Good
  <1> QED
    BY <1>1, <1>2

\* env_init, page_init and env_create: the kernel's page is mapped at UTOP
\* and one environment has a page directory.
LEMMA InitGood ==
  ASSUME Init
  PROVE  Inv /\ Books(mem, {})
  <1> DEFINE blank == [page_free_list |-> Page \ {KernPage},
                       pp_ref |-> [q \in Page |-> IF q = KernPage THEN 1 ELSE 0],
                       env_pgdir |-> [e \in Env |-> NoPage],
                       pde |-> [e \in Env |-> [x \in Index |-> NoPage]],
                       pte |-> [e \in Env |-> [va \in VA |-> NoPte]],
                       kern_pte |-> KernPage]
  <1>1. blank \in Memory
    BY MaxRefAssumption, KernPageAssumption DEF Memory
  <1>2. /\ blank.kern_pte = KernPage /\ blank.page_free_list = Page \ {KernPage}
        /\ \A p \in Page : blank.pp_ref[p] = IF p = KernPage THEN 1 ELSE 0
        /\ \A e \in Env : Clean(blank, e)
    BY DEF Clean
  <1>3. PICK p \in Page \ {KernPage} : mem = EnvSetupVm(blank, Boot, p)
    BY DEF Init
  <1> HIDE DEF blank
  <1>4. \A q \in Page : Refs(blank, q) = {} /\ Number(blank, q) = 0
    <2>1. ASSUME NEW q \in Page, NEW e \in Env, NEW x PROVE x \notin Pointers(blank, e, q)
      BY <1>2, PointersOf, NoneAssumption DEF Clean
    <2> QED
      BY <2>1, NumberType DEF Refs
  <1>5. Books(blank, {})
    <2>1. CountsOK(blank) /\ FreeListOK(blank, {})
      BY <1>2, <1>4 DEF CountsOK, FreeListOK
    <2>2. TablesOK(blank)
      BY <1>2, NoneAssumption DEF TablesOK, IsTable, Clean
    <2> QED
      BY <1>1, <1>2, <1>4, <2>1, <2>2, KernPageAssumption DEF Books
  <1>6. blank.env_pgdir[Boot] = NoPage /\ p \in blank.page_free_list
    BY <1>2, BootAssumption DEF Clean
  <1>7. Books(mem, {})
    BY <1>3, <1>5, <1>6, BootAssumption, BooksSetup
  <1>8. mem \in Memory /\ \A e \in Env \ {Boot} : Clean(mem, e)
    BY <1>1, <1>2, <1>3, BootAssumption, ConfinedSetup DEF Confined, Clean
  <1>9. TypeOK
    <2>1. NoTlb \in [VA -> Pte \cup {NoPte}]
      BY DEF NoTlb
    <2>2. /\ est \in [Env -> {"FREE", "NEW", "LIVE"}]
          /\ recv \in [Env -> VA \cup {Zero, UTOP, NotRecv}]
      BY DEF Init
    <2>3. /\ cur \in [CPUs -> Env \cup {NoEnv}] /\ \A c \in CPUs : cur[c] = NoEnv
          /\ tlb \in [CPUs -> [VA -> Pte \cup {NoPte}]]
      BY <2>1 DEF Init
    <2> QED
      BY <1>8, <2>2, <2>3 DEF TypeOK
  <1>10. Life
    BY <1>8, BootAssumption DEF Init, Life
  <1>11. TlbCoherent
    BY DEF Init, TlbCoherent, NoTlb
  <1> QED
    BY <1>7, <1>9, <1>10, <1>11 DEF Inv

-----------------------------------------------------------------------------
(* The theorems.                                                           *)

\* The types, the lives of environments and the TLBs are an inductive
\* invariant.
THEOREM Invariance == Spec => []Inv
  <1>1. Init => Inv
    BY InitGood
  <1>2. Inv /\ [Next]_vars => Inv'
    BY NextGood DEF Good
  <1> QED
    BY <1>1, <1>2, PTL DEF Spec

\* Types hold, and an environment that runs is live, waits for no message
\* and runs on one CPU.
THEOREM TypesKept == Spec => []TypeOK
  <1>1. Inv => TypeOK
    BY DEF Inv
  <1> QED
    BY <1>1, Invariance, PTL

\* No TLB holds a mapping that its environment no longer has.
THEOREM NoStaleTlb == Spec => []TlbCoherent
  <1>1. Inv => TlbCoherent
    BY DEF Inv
  <1> QED
    BY <1>1, Invariance, PTL

\* pp_ref is 16 bits wide and page_insert does not test it.  What follows
\* holds as long as no page has more pointers to it than pp_ref can count.
InRange == NoWrap(mem)
Balanced == Books(mem, {})

\* As long as no count wraps, counts and the free list are exact.
THEOREM BooksBalance == Spec /\ []InRange => []Balanced
  <1>1. Init => Balanced
    BY InitGood DEF Balanced
  <1>2. Inv /\ Balanced /\ InRange' /\ [Next]_vars => Balanced'
    BY NextGood DEF Good, Sound, Balanced, InRange
  <1> QED
    BY <1>1, <1>2, Invariance, PTL DEF Spec

\* pp_ref is the number of mappings, page tables and directories that
\* point to the page.
THEOREM CountsAreExact == Spec /\ []InRange => []RefsExact
  <1>1. Balanced => RefsExact
    BY DEF Balanced, Books, CountsOK, RefsExact, Number, Refs
  <1> QED
    BY <1>1, BooksBalance, PTL

\* No page is leaked, and none that is in use is handed out.
THEOREM FreeListIsExact == Spec /\ []InRange => []FreeExact
  <1>1. Balanced => FreeExact
    BY DEF Balanced, Books, FreeListOK, FreeExact
  <1> QED
    BY <1>1, BooksBalance, PTL

\* No page table or directory is mapped in user space, shared or free.
THEOREM TablesStayPrivate == Spec /\ []InRange => []TablesPrivate
  <1>1. ASSUME Balanced, NEW e \in Env, NEW p \in Page, p = mem.env_pgdir[e] \/ \E x \in Index : mem.pde[e][x] = p
        PROVE  /\ mem.pp_ref[p] = 1 /\ p \notin mem.page_free_list
               /\ \A f \in Env, va \in VA : mem.pte[f][va] # NoPte => mem.pte[f][va].page # p
    <2>1. IsTable(mem, p)
      BY <1>1 DEF IsTable
    <2>2. Number(mem, p) = 1
      BY <1>1, <2>1 DEF Balanced, Books, TablesOK
    <2>3. mem.pp_ref[p] = 1
      BY <1>1, <2>2, Counted DEF Balanced, Books
    <2>4. p \notin mem.page_free_list
      BY <1>1, <2>3 DEF Balanced, Books, FreeListOK
    <2>5. \A f \in Env, va \in VA : ~Maps(mem, f, va, p)
      BY <2>1, <2>2, TableNotMapped
    <2> QED
      BY <2>3, <2>4, <2>5 DEF Maps
  <1>2. Balanced => TablesPrivate
    BY <1>1 DEF TablesPrivate
  <1> QED
    BY <1>2, BooksBalance, PTL

\* A page that is mapped, but nowhere writable, never becomes writable: the
\* system calls pass on no right the sender has not, and a mapped page is
\* not handed out again.
THEOREM ReadOnlyKept == Spec /\ []InRange => ReadOnlyStaysReadOnly
  <1>1. \A p : (Mapped(p, FALSE) <=> Used(mem, p)) /\ (Mapped(p, TRUE) <=> Writable(mem, p))
    BY DEF Mapped, Used, Writable, Maps
  <1>2. (\A p : (Mapped(p, FALSE) <=> Used(mem, p)) /\ (Mapped(p, TRUE) <=> Writable(mem, p)))'
    BY <1>1, PTL
  <1>3. \A p : Mapped(p, TRUE)' <=> Writable(mem', p)
    BY <1>2
  <1>4. ASSUME Inv, Balanced, InRange', [Next]_vars
        PROVE  [\A p \in Page : Mapped(p, FALSE) /\ ~Mapped(p, TRUE) => ~Mapped(p, TRUE)']_vars
    <2>1. NoNewRights(mem, mem')
      BY <1>4, NextGood DEF Good, Sound, Balanced, InRange
    <2> QED
      BY <1>1, <1>3, <2>1 DEF NoNewRights
  <1>5. Inv /\ Balanced /\ InRange' /\ [Next]_vars =>
            [\A p \in Page : Mapped(p, FALSE) /\ ~Mapped(p, TRUE) => ~Mapped(p, TRUE)']_vars
    BY <1>4
  <1> QED
    BY <1>5, Invariance, BooksBalance, PTL DEF Spec, ReadOnlyStaysReadOnly

=============================================================================
