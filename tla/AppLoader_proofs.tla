-------------------------- MODULE AppLoader_proofs --------------------------
(***************************************************************************)
(* Proofs about the ELF loader, for any images and any number of programs: *)
(* nothing a program had in the heap outlives its clean-up, programs kept  *)
(* in RAM are freed once, load_app's success means a closed image, no two  *)
(* sections share flash, and the flash of a loaded program is recorded and *)
(* is not programmed again while the program is loaded.                    *)
(***************************************************************************)
EXTENDS AppLoader, FiniteSetTheorems, SequenceTheorems, TLAPS

(* Max and Min of FiniteSetsExt, for finite sets of natural numbers.        *)
LEMMA Least ==
    ASSUME NEW S, S \subseteq Nat, S # {}
    PROVE  \E m \in S : \A n \in S : m <= n
<1>1. \E x \in S : \A y \in S : ~ (<<y, x>> \in OpToRel(<, Nat))
  BY NatLessThanWellFounded, WFMin
<1>2. PICK x \in S : \A y \in S : ~ (<<y, x>> \in OpToRel(<, Nat))
  BY <1>1
<1>3. \A y \in S : ~(y < x)
  BY <1>2 DEF OpToRel
<1> QED BY <1>3
LEMMA Bounded ==
    ASSUME NEW S, S \subseteq Nat, IsFiniteSet(S)
    PROVE  \E b \in Nat : \A x \in S : x <= b
<1>1. PICK n \in Nat : ExistsSurjection(1..n, S)
  BY FS_NatSurjection
<1>2. PICK f \in [1..n -> S] : \A x \in S : \E i \in 1..n : f[i] = x
  BY <1>1 DEF ExistsSurjection, Surjection
<1> DEFINE UpTo(m) == \E b \in Nat : \A i \in 1..m : f[i] <= b
           Bad == {m \in Nat : m <= n /\ ~UpTo(m)}
<1>0. \A i \in 1..n : f[i] \in Nat
  BY <1>2
<1> HIDE DEF UpTo
<1>3. Bad = {}
  <2>1. SUFFICES ASSUME Bad # {} PROVE FALSE
    OBVIOUS
  <2>2. PICK m \in Bad : \A k \in Bad : m <= k
    BY <2>1, Least
  <2>0. m \in Nat /\ m <= n /\ ~UpTo(m)
    BY <2>2
  <2>3. m # 0
    <3>1. UpTo(0)
      BY DEF UpTo
    <3> QED BY <2>0, <3>1
  <2>4. m - 1 \in Nat /\ m - 1 <= n /\ m - 1 \notin Bad
    <3> HIDE DEF Bad
    <3>1. m - 1 \in Nat /\ ~(m <= m - 1) /\ m - 1 <= n
      BY <2>0, <2>3
    <3> QED BY <2>2, <3>1
  <2>5. PICK b \in Nat : \A i \in 1..(m - 1) : f[i] <= b
    BY <2>4 DEF UpTo
  <2>6. m \in 1..n /\ f[m] \in Nat
    BY <1>0, <2>0, <2>3
  <2>7. \A i \in 1..m : f[i] \in Nat /\ (i \in 1..(m - 1) \/ i = m)
    BY <1>0, <2>0
  <2>8. \A i \in 1..m : f[i] <= b + f[m]
    BY <2>5, <2>6, <2>7
  <2>9. b + f[m] \in Nat
    BY <2>6
  <2> QED BY <2>0, <2>8, <2>9 DEF UpTo
<1>4. UpTo(n)
  BY <1>3
<1>5. PICK b \in Nat : \A i \in 1..n : f[i] <= b
  BY <1>4 DEF UpTo
<1> QED BY <1>2, <1>5
LEMMA MaxIn ==
    ASSUME NEW S, S \subseteq Nat, IsFiniteSet(S), S # {}
    PROVE  Max(S) \in S /\ \A x \in S : x <= Max(S)
<1> DEFINE U == {b \in Nat : \A x \in S : x <= b}
<1>1. U # {} /\ U \subseteq Nat
  BY Bounded
<1>2. PICK m \in U : \A k \in U : m <= k
  BY <1>1, Least
<1>3. m \in S
  <2>1. SUFFICES ASSUME m \notin S PROVE FALSE
    OBVIOUS
  <2>2. \A x \in S : x < m
    BY <1>2, <2>1
  <2>3. m \in Nat /\ \A x \in S : x \in Nat /\ x <= m - 1
    BY <2>2, <1>2
  <2>4. PICK x \in S : TRUE
    OBVIOUS
  <2>5. m - 1 \in Nat
    BY <2>2, <2>3, <2>4
  <2>6. m - 1 \in U
    BY <2>3, <2>5
  <2>7. ~(m <= m - 1)
    BY <2>3
  <2> QED BY <2>6, <2>7, <1>2
<1>4. \E x \in S : \A y \in S : x >= y
  BY <1>2, <1>3
<1> QED BY <1>4 DEF Max
LEMMA MinIn ==
    ASSUME NEW S, S \subseteq Nat, S # {}
    PROVE  Min(S) \in S /\ \A x \in S : Min(S) <= x
<1>1. \E x \in S : \A y \in S : x <= y
  BY Least
<1> QED BY <1>1 DEF Min

LEMMA MappedFinite ==
    ASSUME NEW S, IsFiniteSet(S), NEW f, DOMAIN f = S
    PROVE  IsFiniteSet({f[x] : x \in S})
<1>1. [x \in S |-> f[x]] \in Surjection(S, {f[x] : x \in S})
  BY DEF Surjection
<1> QED BY <1>1, FS_Surjection

-----------------------------------------------------------------------------
(* Sequences: the stack of load_sec2mem and the list of sections.           *)
LEMMA Pushing ==
    ASSUME NEW S, NEW q \in Seq(S), NEW x \in S
    PROVE  /\ <<x>> \o q \in Seq(S) /\ Len(<<x>> \o q) = Len(q) + 1
           /\ (<<x>> \o q)[1] = x
           /\ \A i \in 1..Len(q) : (<<x>> \o q)[i + 1] = q[i]
<1>1. <<x>> \in Seq(S) /\ Len(<<x>>) = 1 /\ <<x>>[1] = x
  OBVIOUS
<1>2. Len(q) \in Nat
  BY LenProperties
<1> QED BY <1>1, <1>2, ConcatProperties

LEMMA Popping ==
    ASSUME NEW S, NEW q \in Seq(S), q # <<>>
    PROVE  /\ Head(q) = q[1] /\ q[1] \in S /\ Len(q) \in Nat \ {0}
           /\ Tail(q) \in Seq(S) /\ Len(Tail(q)) = Len(q) - 1
           /\ \A i \in 1..(Len(q) - 1) : Tail(q)[i] = q[i + 1]
<1>1. Len(q) \in Nat \ {0}
  BY EmptySeq
<1>2. 1 \in 1..Len(q)
  BY <1>1
<1>3. q[1] \in S
  BY <1>2, ElementOfSeq
<1> QED BY <1>1, <1>3, HeadTailProperties

LEMMA Appending ==
    ASSUME NEW S, NEW q \in Seq(S), NEW x \in S
    PROVE  /\ Append(q, x) \in Seq(S) /\ Len(Append(q, x)) = Len(q) + 1 /\ Len(q) \in Nat
           /\ Append(q, x)[Len(q) + 1] = x
           /\ \A i \in 1..Len(q) : Append(q, x)[i] = q[i]
           /\ {Append(q, x)[k] : k \in DOMAIN Append(q, x)} = {q[k] : k \in DOMAIN q} \cup {x}
<1>1. Append(q, x) \in Seq(S) /\ Len(Append(q, x)) = Len(q) + 1 /\ Len(q) \in Nat
  BY AppendProperties, LenProperties
<1>2. \A i \in 1..(Len(q) + 1) : Append(q, x)[i] = IF i <= Len(q) THEN q[i] ELSE x
  BY <1>1, AppendProperties
<1>3. DOMAIN Append(q, x) = 1..(Len(q) + 1) /\ DOMAIN q = 1..Len(q)
  BY <1>1, LenProperties
<1> QED BY <1>1, <1>2, <1>3
-----------------------------------------------------------------------------
(* The invariant that needs no hypothesis on what failed: who is loading,   *)
(* what is on the stack, and that whatever is in the heap is in a list.     *)
Has(a, s) == \E e \in Entry(a) : e.sec = s
At(a, s, p) == [sec |-> s, prg |-> p] \in Entry(a)
Recursing == {"place", "link", "ret"}

(* Frame i has its section in the list; only the last call may not have yet. *)
Placed(i) == ~(i = 1 /\ pc = "place")

Distinct ==
    \A a \in Apps : \A j, k \in 1..Len(app[a].entries) :
      app[a].entries[j].sec = app[a].entries[k].sec => j = k
Stages ==
    /\ \A a \in Apps : app[a].stage = "loading" => pc # "idle" /\ a = cur
    /\ pc # "idle" => cur \in Apps /\ app[cur].stage = "loading"
    /\ pc # "idle" => \A a \in Apps : app[a].stage # "failed"
    /\ \A a, b \in Apps : app[a].stage = "failed" /\ app[b].stage = "failed" => a = b
    /\ \A a \in Apps : app[a].stage \in {"none", "gone"} => app[a].entries = <<>>
Addresses ==
    /\ flash_addr >= Base /\ \A i \in 1..Len(stack) : stack[i].prev >= Base
    /\ IsFiniteSet(lst) /\ IsFiniteSet(flash_list.recs)
    /\ flash_list.made = FALSE => flash_list.recs = {}
Calls ==
    /\ pc \in {"idle", "roots", "flash"} => stack = <<>>
    /\ pc \in {"place", "link"} => stack # <<>>
    /\ pc # "idle" => Len(app[cur].boot) <= 3
    /\ pc \in Recursing => Len(app[cur].boot) < 3
    /\ pc = "flash" => Len(app[cur].boot) = 3
    /\ \A i \in 1..Len(stack) : IF Placed(i) THEN At(cur, stack[i].sec, stack[i].prg)
                                ELSE ~Has(cur, stack[i].sec) /\ stack[i].prg = 0
    /\ \A i, j \in 1..Len(stack) : stack[i].sec = stack[j].sec => i = j
    /\ \A i \in 1..(Len(stack) - 1) : stack[i + 1].ref = stack[i].sec
    /\ pc = "ret" /\ stack # <<>> => stack[1].ref \in Sections
Owned == \A a \in Apps, s \in Sections : heap[<<a, s>>] = "live" => Has(a, s)

ListInv == LoaderTypeOK /\ Distinct /\ Stages /\ Addresses /\ Calls /\ Owned

(* No call has failed, and no section went to flash: every block is live.   *)
KeptInRam ==
    Calm /\ file = NoFile => faults = {} /\ \A a \in Apps : \A e \in Entry(a) : heap[<<a, e.sec>>] = "live"

LEMMA Constants ==
    /\ Apps \subseteq Nat \ {0} /\ Sections \subseteq Nat \ {0} /\ IsFiniteSet(Sections)
    /\ RamStart \in Nat /\ RamStart = FlashTop + 1 /\ FlashTop \in Nat
    /\ \A a \in Apps, s \in Sections : Ram(a, s) \in Nat /\ Ram(a, s) > RamStart
    /\ Cardinality(Sections) \in Nat
<1>1. Apps \subseteq Nat \ {0} /\ RamStart \in Nat /\ RamStart = FlashTop + 1 /\ FlashTop \in Nat
  BY LoaderAssumption DEF Apps, RamStart
<1>2. Cardinality(Sections) \in Nat /\ IsFiniteSet(Sections)
  BY LoaderAssumption, FS_CardinalityType
<1>3. Sections \subseteq Nat \ {0}
  BY <1>2, LoaderAssumption
<1>4. ASSUME NEW a \in Apps, NEW s \in Sections
      PROVE  Ram(a, s) \in Nat /\ Ram(a, s) > RamStart
  <2>1. PICK k \in Nat : k = a - 1
    BY <1>1
  <2>2. \A x, y \in Nat : x * y \in Nat
    OBVIOUS
  <2>3. PICK n \in Nat : n = k * Cardinality(Sections)
    BY <1>2, <2>1, <2>2
  <2>4. Ram(a, s) = RamStart + n + s
    BY <2>1, <2>3 DEF Ram
  <2> QED BY <1>1, <1>3, <2>4
<1> QED BY <1>1, <1>2, <1>3, <1>4

LEMMA ImageFacts ==
    ASSUME NEW i \in Images
    PROVE  /\ i.refs \in [Sections -> SUBSET Sections] /\ i.size \in [Sections -> Nat \ {0}]
           /\ i.align \in [Sections -> {1, 2}] /\ i.roots \in [1..3 -> Sections \cup {0}]
<1>1. i \in ImageType
  BY LoaderAssumption
<1> QED BY <1>1 DEF ImageType

LEMMA AppFacts ==
    ASSUME app \in [Apps -> {NoApp} \cup AppType], NEW a \in Apps
    PROVE  /\ app[a].entries \in Seq(EntryType) /\ Entry(a) \subseteq EntryType
           /\ Len(app[a].entries) \in Nat /\ DOMAIN app[a].entries = 1..Len(app[a].entries)
           /\ app[a].stage \in {"none", "loading", "failed", "ready", "gone"}
           /\ app[a].boot \in Seq(Nat)
           /\ app[a].stage # "none" => app[a] \in AppType /\ app[a].image \in Images
           /\ app[a].stage = "none" <=> app[a] = NoApp
           /\ app[a].entries = <<>> => Entry(a) = {}
<1>1. app[a] = NoApp \/ app[a] \in AppType
  OBVIOUS
<1>2. NoApp.entries = <<>> /\ NoApp.stage = "none" /\ NoApp.boot = <<>>
  BY DEF NoApp
<1>3. app[a].entries \in Seq(EntryType) /\ app[a].boot \in Seq(Nat)
  BY <1>1, <1>2, EmptySeq DEF AppType
<1>4. app[a] \in AppType => /\ app[a].stage \in {"loading", "failed", "ready", "gone"}
                            /\ app[a].image \in Images
  BY DEF AppType
<1>5. Len(app[a].entries) \in Nat /\ DOMAIN app[a].entries = 1..Len(app[a].entries)
  BY <1>3, LenProperties
<1>6. \A k \in DOMAIN app[a].entries : app[a].entries[k] \in EntryType
  BY <1>3, <1>5, ElementOfSeq
<1>7. app[a].entries = <<>> => Entry(a) = {}
  BY <1>5, EmptySeq DEF Entry
<1> QED BY <1>1, <1>2, <1>3, <1>4, <1>5, <1>6, <1>7 DEF Entry

(* The list of sections names each section at most once.                    *)
LEMMA EntryFacts ==
    ASSUME LoaderTypeOK, Distinct, NEW a \in Apps
    PROVE  \A e, g \in Entry(a) : e.sec = g.sec => e = g
<1> SUFFICES ASSUME NEW e \in Entry(a), NEW g \in Entry(a), e.sec = g.sec
             PROVE  e = g
  OBVIOUS
<1>1. DOMAIN app[a].entries = 1..Len(app[a].entries)
  BY AppFacts DEF LoaderTypeOK
<1>2. PICK j \in 1..Len(app[a].entries) : e = app[a].entries[j]
  BY <1>1 DEF Entry
<1>3. PICK k \in 1..Len(app[a].entries) : g = app[a].entries[k]
  BY <1>1 DEF Entry
<1>4. j = k
  BY <1>2, <1>3 DEF Distinct
<1> QED BY <1>2, <1>3, <1>4

(* sec_prg_addr finds the one entry of a section, or none.                  *)
LEMMA Looked ==
    ASSUME LoaderTypeOK, Distinct, cur \in Apps, NEW s \in Sections
    PROVE  /\ sec_prg_addr(s) \in Nat
           /\ sec_prg_addr(s) = 0 <=> ~Has(cur, s)
           /\ sec_prg_addr(s) # 0 => At(cur, s, sec_prg_addr(s))
           /\ \A e \in Entry(cur) : e.sec = s => sec_prg_addr(s) = e.prg
<1> DEFINE es == app[cur].entries
           found == {k \in DOMAIN es : es[k].sec = s}
<1>1. /\ DOMAIN es = 1..Len(es) /\ Len(es) \in Nat
      /\ \A k \in DOMAIN es : es[k] \in EntryType /\ es[k] \in Entry(cur)
  BY AppFacts, ElementOfSeq DEF LoaderTypeOK, Entry
<1>2. CASE found = {}
  <2>1. ~Has(cur, s)
    BY <1>2 DEF Has, Entry
  <2>2. sec_prg_addr(s) = 0
    BY <1>2 DEF sec_prg_addr
  <2> QED BY <2>1, <2>2 DEF Has
<1>3. CASE found # {}
  <2>1. found \subseteq Nat
    BY <1>1
  <2>2. Min(found) \in found
    BY <1>3, <2>1, MinIn
  <2>3. PICK k \in DOMAIN es : k = Min(found) /\ es[k].sec = s
    BY <2>2
  <2>4. sec_prg_addr(s) = es[k].prg
    BY <1>3, <2>3 DEF sec_prg_addr
  <2>5. es[k] \in EntryType /\ es[k] \in Entry(cur)
    BY <1>1
  <2>6. es[k] = [sec |-> s, prg |-> es[k].prg] /\ es[k].prg \in Nat \ {0}
    BY <2>3, <2>5 DEF EntryType
  <2>7. \A e \in Entry(cur) : e.sec = s => e = es[k]
    BY <2>3, <2>5, EntryFacts
  <2> QED BY <2>3, <2>4, <2>5, <2>6, <2>7 DEF Has, At
<1> QED BY <1>2, <1>3
-----------------------------------------------------------------------------
(* cleanup_bootb_ctx frees the block of every entry of a, once each, and    *)
(* removes records between the first and the last of a's sections only.     *)
CleanedUp(a) ==
    /\ flash_list' \in [made : BOOLEAN, recs : SUBSET Nat] /\ flash_list'.made = flash_list.made
    /\ flash_list'.recs = flash_list.recs \ Held(a) /\ IsFiniteSet(flash_list'.recs)
    /\ flash_addr' \in Nat /\ flash_addr' >= Base
    /\ IF flash_list.made = FALSE THEN flash_addr' = flash_addr
       ELSE /\ \A r \in flash_list'.recs : r + Sector <= flash_addr'
            /\ flash_addr' = Base \/ \E r \in flash_list'.recs : flash_addr' = r + Sector
    /\ heap' \in [Apps \X Sections -> {"none", "live", "freed"}]
    /\ \A b \in Apps, s \in Sections :
         heap'[<<b, s>>] = IF b = a /\ Has(a, s) THEN "freed" ELSE heap[<<b, s>>]
    /\ faults' \subseteq {"double free"}
    /\ (\A e \in Entry(a) : heap[<<a, e.sec>>] = "live") => faults' = faults

LEMMA FreeEntries ==
    ASSUME LoaderTypeOK, NEW a \in Apps, Free(Deletable(a))
    PROVE  /\ heap' \in [Apps \X Sections -> {"none", "live", "freed"}]
           /\ \A b \in Apps, s \in Sections :
                heap'[<<b, s>>] = IF b = a /\ Has(a, s) THEN "freed" ELSE heap[<<b, s>>]
           /\ faults' \subseteq {"double free"}
           /\ (\A e \in Entry(a) : heap[<<a, e.sec>>] = "live") => faults' = faults
<1>1. Deletable(a) = {<<a, e.sec>> : e \in Entry(a)}
  BY DEF Deletable, Entry
<1>2. DOMAIN heap = Apps \X Sections /\ \A q \in DOMAIN heap : heap[q] \in {"none", "live", "freed"}
  BY DEF LoaderTypeOK
<1>3. heap' = [q \in Apps \X Sections |-> IF q \in Deletable(a) THEN "freed" ELSE heap[q]]
  BY <1>2 DEF Free
<1>4. ASSUME NEW b \in Apps, NEW s \in Sections
      PROVE  <<b, s>> \in Deletable(a) <=> b = a /\ Has(a, s)
  BY <1>1 DEF Has
<1>5. (\A e \in Entry(a) : heap[<<a, e.sec>>] = "live") => faults' = faults
  <2>1. ASSUME \A e \in Entry(a) : heap[<<a, e.sec>>] = "live", NEW q \in Deletable(a)
        PROVE  heap[q] = "live"
    <3>1. PICK e \in Entry(a) : q = <<a, e.sec>>
      BY <1>1
    <3> QED BY <2>1, <3>1
  <2> QED BY <2>1 DEF Free
<1>6. faults' \subseteq {"double free"}
  BY DEF Free, LoaderTypeOK
<1>7. ASSUME NEW b \in Apps, NEW s \in Sections
      PROVE  heap'[<<b, s>>] = IF b = a /\ Has(a, s) THEN "freed" ELSE heap[<<b, s>>]
  BY <1>3, <1>4
<1>8. heap' \in [Apps \X Sections -> {"none", "live", "freed"}]
  BY <1>2, <1>3
<1> QED BY <1>5, <1>6, <1>7, <1>8

LEMMA EndsOfKept ==
    ASSUME NEW kept, kept \subseteq Nat, IsFiniteSet(kept)
    PROVE  /\ FlashEnd(kept) \in Nat /\ FlashEnd(kept) >= Base
           /\ \A r \in kept : r + Sector <= FlashEnd(kept)
           /\ FlashEnd(kept) = Base \/ \E r \in kept : FlashEnd(kept) = r + Sector
<1> DEFINE f == [r \in kept |-> r + Sector]
           S == {Base} \cup {r + Sector : r \in kept}
<1>1. {f[r] : r \in kept} = {r + Sector : r \in kept}
  OBVIOUS
<1>2. IsFiniteSet({r + Sector : r \in kept})
  BY <1>1, MappedFinite
<1>3. IsFiniteSet({Base})
  BY FS_Singleton
<1>4. IsFiniteSet(S) /\ S \subseteq Nat /\ S # {}
  <2>1. IsFiniteSet(S)
    BY <1>2, <1>3, FS_Union
  <2>2. S \subseteq Nat /\ S # {}
    BY DEF Base, Sector
  <2> QED BY <2>1, <2>2
<1>5. Max(S) \in S /\ \A x \in S : x <= Max(S)
  BY <1>4, MaxIn
<1>6. FlashEnd(kept) = Max(S)
  BY DEF FlashEnd
<1> QED BY <1>4, <1>5, <1>6 DEF Base, Sector

LEMMA CleanUp ==
    ASSUME LoaderTypeOK, Addresses, NEW a \in Apps, cleanup_bootb_ctx(a)
    PROVE  CleanedUp(a)
<1> DEFINE kept == flash_list.recs \ Held(a)
<1>1. kept \subseteq Nat /\ IsFiniteSet(kept)
  BY FS_Subset DEF LoaderTypeOK, Addresses
<1>2. /\ flash_list' \in [made : BOOLEAN, recs : SUBSET Nat]
      /\ flash_list'.made = flash_list.made /\ flash_list'.recs = kept
  <2>1. flash_list \in [made : BOOLEAN, recs : SUBSET Nat]
    BY DEF LoaderTypeOK
  <2>2. flash_list' = [flash_list EXCEPT !.recs = kept]
    BY DEF cleanup_bootb_ctx
  <2> HIDE DEF kept
  <2> QED BY <1>1, <2>1, <2>2
<1>3. flash_addr' = IF flash_list.made THEN FlashEnd(kept) ELSE flash_addr
  BY DEF cleanup_bootb_ctx
<1>4. flash_list.made \in BOOLEAN /\ flash_addr \in Nat /\ flash_addr >= Base
  BY DEF LoaderTypeOK, Addresses
<1>5. Free(Deletable(a))
  BY DEF cleanup_bootb_ctx
<1> HIDE DEF kept
<1>6. /\ flash_addr' \in Nat /\ flash_addr' >= Base
      /\ IF flash_list.made = FALSE THEN flash_addr' = flash_addr
         ELSE /\ \A r \in kept : r + Sector <= flash_addr'
              /\ flash_addr' = Base \/ \E r \in kept : flash_addr' = r + Sector
  BY <1>1, <1>3, <1>4, EndsOfKept
<1>7. kept = flash_list.recs \ Held(a)
  BY DEF kept
<1> QED BY <1>1, <1>2, <1>5, <1>6, <1>7, FreeEntries DEF CleanedUp
-----------------------------------------------------------------------------
(* How a step changes the program being loaded.                             *)
AppFunction == app \in [Apps -> {NoApp} \cup AppType]
OneApp(a, r) == r \in AppType /\ \A b \in Apps : app'[b] = IF b = a THEN r ELSE app[b]

LEMMA AppSet ==
    ASSUME AppFunction, NEW a \in Apps, NEW r \in AppType, app' = [app EXCEPT ![a] = r]
    PROVE  app' \in [Apps -> {NoApp} \cup AppType] /\ OneApp(a, r)
BY DEF AppFunction, OneApp

LEMMA FieldsSet ==
    ASSUME NEW r \in AppType
    PROVE  /\ \A x \in SUBSET (Sections \X Sections \X Nat) : LET q == [r EXCEPT !.links = x] IN
                q \in AppType /\ q.links = x /\ q.stage = r.stage /\ q.image = r.image
                /\ q.entries = r.entries /\ q.boot = r.boot
           /\ \A x \in Seq(Nat) : LET q == [r EXCEPT !.boot = x] IN
                q \in AppType /\ q.boot = x /\ q.stage = r.stage /\ q.image = r.image
                /\ q.entries = r.entries /\ q.links = r.links
           /\ \A x \in Seq(EntryType) : LET q == [r EXCEPT !.entries = x] IN
                q \in AppType /\ q.entries = x /\ q.stage = r.stage /\ q.image = r.image
                /\ q.links = r.links /\ q.boot = r.boot
           /\ \A x \in {"loading", "failed", "ready", "gone"} : LET q == [r EXCEPT !.stage = x] IN
                q \in AppType /\ q.stage = x /\ q.entries = r.entries /\ q.image = r.image
                /\ q.links = r.links /\ q.boot = r.boot
BY DEF AppType

LEMMA UnloadedIs ==
    ASSUME NEW r \in AppType
    PROVE  Unloaded(r) \in AppType /\ Unloaded(r).stage = "gone" /\ Unloaded(r).entries = <<>>
<1>1. <<>> \in Seq(EntryType)
  BY EmptySeq
<1>2. PICK q : q = [r EXCEPT !.stage = "gone"]
  OBVIOUS
<1>3. q \in AppType /\ q.stage = "gone"
  BY <1>2 DEF AppType
<1>4. Unloaded(r) = [q EXCEPT !.entries = <<>>]
  BY <1>2 DEF Unloaded
<1>5. PICK z : z = [q EXCEPT !.entries = <<>>]
  OBVIOUS
<1>6. z \in AppType /\ z.stage = "gone" /\ z.entries = <<>>
  BY <1>1, <1>3, <1>5 DEF AppType
<1> QED BY <1>4, <1>5, <1>6

(* Steps that leave the lists and the stages alone.                         *)
ListsKept == \A a \in Apps : app'[a].entries = app[a].entries /\ app'[a].stage = app[a].stage

LEMMA ListsAreKept ==
    ASSUME ListsKept
    PROVE  /\ \A a \in Apps : Entry(a)' = Entry(a)
           /\ \A a \in Apps : \A s : Has(a, s)' <=> Has(a, s)
           /\ \A a \in Apps : \A s, p : At(a, s, p)' <=> At(a, s, p)
           /\ Distinct => Distinct'
<1>1. \A a \in Apps : Entry(a)' = Entry(a)
  BY DEF ListsKept, Entry
<1>2. Distinct => Distinct'
  BY DEF ListsKept, Distinct
<1> QED BY <1>1, <1>2 DEF Has, At
-----------------------------------------------------------------------------
(* ListInv, action by action.                                               *)
LEMMA ListInitially == Init => ListInv /\ KeptInRam
<1> SUFFICES ASSUME Init PROVE ListInv /\ KeptInRam
  OBVIOUS
<1>1. \A a \in Apps : app[a] = NoApp
  BY DEF Init
<1>2. \A a \in Apps : app[a].entries = <<>> /\ app[a].stage = "none" /\ Entry(a) = {}
  BY <1>1, EmptySeq DEF NoApp, Entry
<1>3. LoaderTypeOK
  <2>1. Blank \in Content
    BY DEF Blank, Content
  <2>2. buffer \in [1..Sector -> Content]
    <3>1. buffer = <<Blank, Blank>> /\ 1..Sector = {1, 2}
      BY DEF Init, Sector
    <3> QED BY <2>1, <3>1
  <2>3. stack \in Seq(FrameType) /\ Len(stack) <= Cardinality(Sections)
    BY Constants, EmptySeq DEF Init
  <2>4. file \in [app : 0..MaxApps, sec : Sections \cup {0}, from : Nat, to : Nat, data : Nat]
    BY LoaderAssumption DEF Init, NoFile
  <2>5. cur \in 0..MaxApps /\ flash_list \in [made : BOOLEAN, recs : SUBSET Nat]
    BY LoaderAssumption DEF Init
  <2>6. /\ app \in [Apps -> {NoApp} \cup AppType] /\ faults \subseteq {"double free"}
        /\ heap \in [Apps \X Sections -> {"none", "live", "freed"}]
        /\ flash_addr \in Nat /\ lst = {} /\ flash \in [0..FlashTop -> Content]
        /\ pc = "idle" /\ useFlash \in BOOLEAN /\ ret \in Nat /\ addr \in Nat /\ top \in Nat
        /\ hazards = {}
    BY <2>1 DEF Init, Base, Sector
  <2> QED BY <2>2, <2>3, <2>4, <2>5, <2>6 DEF LoaderTypeOK
<1>4. Distinct
  BY <1>2, EmptySeq DEF Distinct
<1>5. Stages
  BY <1>2 DEF Stages, Init
<1>6. Addresses
  <2>1. flash_list.recs = {} /\ stack = <<>> /\ flash_addr = Base /\ lst = {}
    BY DEF Init
  <2> QED BY <2>1, EmptySeq, FS_EmptySet DEF Addresses, Base, Sector
<1>7. Calls
  BY EmptySeq DEF Calls, Init, Recursing
<1>8. \A a \in Apps, s \in Sections : heap[<<a, s>>] = "none"
  BY DEF Init
<1> QED BY <1>2, <1>3, <1>4, <1>5, <1>6, <1>7, <1>8 DEF ListInv, Owned, KeptInRam, Init

(* A program ends and its context is cleaned up.                            *)
LEMMA EndLists ==
    ASSUME ListInv, NEW a \in Apps, End(a)
    PROVE  ListInv' /\ (KeptInRam => KeptInRam')
<1>1. CleanedUp(a) /\ app[a].stage = "ready"
  BY CleanUp DEF ListInv, End
<1>2. /\ UNCHANGED <<lst, file, flash, pc, cur, useFlash, stack, ret, addr, top, buffer>>
      /\ hazards' \subseteq {"failed", "overlap", "unwritten", "unread", "unflashed"} /\ hazards \subseteq hazards'
      /\ a # cur \/ pc = "idle"
  <2>1. a # cur \/ pc = "idle"
    BY <1>1 DEF ListInv, Stages
  <2> QED BY <2>1 DEF End, LoaderVars, ListInv, LoaderTypeOK
<1>3. AppFunction /\ app[a] \in AppType
  BY <1>1, AppFacts DEF ListInv, LoaderTypeOK, AppFunction
<1>4. PICK r \in AppType : r = Unloaded(app[a]) /\ r.stage = "gone" /\ r.entries = <<>>
  BY <1>3, UnloadedIs
<1>5. app' \in [Apps -> {NoApp} \cup AppType] /\ OneApp(a, r)
  <2>1. app' = [app EXCEPT ![a] = r]
    BY <1>4 DEF End
  <2> QED BY <1>3, <2>1, AppSet
<1>6. \A b \in Apps : IF b = a THEN app'[b].entries = <<>> /\ Entry(b)' = {} ELSE app'[b] = app[b] /\ Entry(b)' = Entry(b)
  BY <1>4, <1>5, EmptySeq DEF OneApp, Entry
<1>7. LoaderTypeOK'
  BY <1>1, <1>2, <1>5 DEF ListInv, LoaderTypeOK, CleanedUp
<1>8. Distinct'
  BY <1>6, EmptySeq DEF ListInv, Distinct
<1>9. Stages'
  BY <1>1, <1>2, <1>4, <1>5 DEF ListInv, Stages, OneApp
<1>10. Addresses'
  <2>1. flash_list'.made = FALSE => flash_list'.recs = {}
    BY <1>1 DEF CleanedUp, ListInv, Addresses
  <2> QED BY <1>1, <1>2, <2>1 DEF CleanedUp, ListInv, Addresses
<1>11. Calls'
  <2>1. \A s, p : pc # "idle" => (Has(cur, s)' <=> Has(cur, s)) /\ (At(cur, s, p)' <=> At(cur, s, p))
    BY <1>2, <1>6 DEF ListInv, Stages, Has, At
  <2>2. pc # "idle" => app'[cur] = app[cur]
    BY <1>2, <1>6 DEF ListInv, Stages
  <2>3. \A i : Placed(i)' <=> Placed(i)
    BY <1>2 DEF Placed
  <2>4. pc = "idle" => stack = <<>> /\ Len(stack) = 0
    BY EmptySeq DEF ListInv, Calls
  <2> QED BY <1>2, <2>1, <2>2, <2>3, <2>4 DEF ListInv, Calls, Recursing
<1>12. Owned'
  <2>1. SUFFICES ASSUME NEW b \in Apps, NEW s \in Sections, heap'[<<b, s>>] = "live"
                 PROVE  Has(b, s)'
    BY DEF Owned
  <2>2. heap[<<b, s>>] = "live" /\ ~(b = a /\ Has(a, s))
    BY <1>1, <2>1 DEF CleanedUp
  <2>3. Has(b, s)
    BY <2>2 DEF ListInv, Owned
  <2>4. Entry(b)' = Entry(b)
    BY <1>6, <2>2, <2>3
  <2> QED BY <2>3, <2>4 DEF Has
<1>13. KeptInRam => KeptInRam'
  <2> SUFFICES ASSUME KeptInRam, Calm', file = NoFile
               PROVE  faults' = {} /\ \A b \in Apps : \A e \in Entry(b)' : heap'[<<b, e.sec>>] = "live"
    BY <1>2 DEF KeptInRam
  <2>1. Calm
    BY <1>2 DEF Calm
  <2>2. faults' = {}
    BY <1>1, <2>1 DEF KeptInRam, CleanedUp
  <2>3. \A b \in Apps : \A e \in Entry(b) : e.sec \in Sections
    BY AppFacts DEF ListInv, LoaderTypeOK, EntryType
  <2> QED BY <1>1, <1>6, <2>1, <2>2, <2>3 DEF KeptInRam, CleanedUp
<1> QED BY <1>7, <1>8, <1>9, <1>10, <1>11, <1>12, <1>13 DEF ListInv
(* load_app begins: what a failed load left is cleaned up, and the new      *)
(* program has an empty list.                                               *)
Started(i) == [stage |-> "loading", image |-> i, entries |-> <<>>, links |-> {}, boot |-> <<>>]

NewAppIs(a, i, byFlash) ==
    /\ pc = "idle" /\ pc' = "roots" /\ cur' = a /\ useFlash' = byFlash /\ app[a].stage = "none"
    /\ UNCHANGED <<lst, file, flash, stack, ret, addr, top, buffer, hazards>>
    /\ app' \in [Apps -> {NoApp} \cup AppType]
    /\ app'[a] = Started(i)
    /\ \A b \in Apps : b # a =>
         IF app[b].stage = "failed" THEN app'[b].stage = "gone" /\ app'[b].entries = <<>>
         ELSE app'[b] = app[b]
    /\ \/ /\ \A b \in Apps : app[b].stage # "failed"
          /\ UNCHANGED <<flash_list, flash_addr, heap, faults>>
       \/ \E b \in Apps : app[b].stage = "failed" /\ b # a /\ CleanedUp(b)

LEMMA NewApp ==
    ASSUME ListInv, NEW a \in Apps, NEW i \in Images, NEW byFlash \in BOOLEAN, load_app(a, i, byFlash)
    PROVE  NewAppIs(a, i, byFlash)
<1> DEFINE left == {b \in Apps : app[b].stage = "failed"}
           new == Started(i)
<1>1. /\ pc = "idle" /\ pc' = "roots" /\ cur' = a /\ useFlash' = byFlash /\ app[a].stage = "none"
      /\ UNCHANGED <<lst, file, flash, stack, ret, addr, top, buffer, hazards>>
  BY DEF load_app
<1>2. app' = [b \in Apps |-> IF b = a THEN new ELSE IF b \in left THEN Unloaded(app[b]) ELSE app[b]]
  BY DEF load_app, Started
<1>3. new \in AppType
  <2>1. <<>> \in Seq(EntryType) /\ <<>> \in Seq(Nat)
    BY EmptySeq
  <2> QED BY <2>1 DEF AppType, Started
<1>4. \A b \in left : app[b] \in AppType
  BY AppFacts DEF ListInv, LoaderTypeOK
<1>5. \A b \in left : Unloaded(app[b]) \in AppType /\ Unloaded(app[b]).stage = "gone"
                      /\ Unloaded(app[b]).entries = <<>>
  BY <1>4, UnloadedIs
<1>6. \A b \in Apps : app[b] \in {NoApp} \cup AppType
  BY DEF ListInv, LoaderTypeOK
<1>7. app' \in [Apps -> {NoApp} \cup AppType]
  <2> HIDE DEF new, left
  <2> QED BY <1>2, <1>3, <1>5, <1>6
<1>8. \A b \in Apps : b # a => IF b \in left THEN app'[b] = Unloaded(app[b]) ELSE app'[b] = app[b]
  BY <1>2
<1>9. app'[a] = new
  BY <1>2
<1>10. \/ left = {} /\ UNCHANGED <<flash_list, flash_addr, heap, faults>>
       \/ \E b \in left : CleanedUp(b)
  <2>1. \/ left = {} /\ UNCHANGED <<flash_list, flash_addr, HeapVars>>
        \/ \E b \in left : cleanup_bootb_ctx(b)
    BY DEF load_app
  <2> QED BY <2>1, CleanUp DEF ListInv, HeapVars
<1>11. a \notin left
  BY <1>1
<1>12. \A b \in Apps : b # a =>
         IF app[b].stage = "failed" THEN app'[b].stage = "gone" /\ app'[b].entries = <<>>
         ELSE app'[b] = app[b]
  BY <1>5, <1>8
<1>13. \/ /\ \A b \in Apps : app[b].stage # "failed"
          /\ UNCHANGED <<flash_list, flash_addr, heap, faults>>
       \/ \E b \in Apps : app[b].stage = "failed" /\ b # a /\ CleanedUp(b)
  BY <1>10, <1>11
<1> HIDE DEF left, new
<1>14. app'[a] = Started(i)
  BY <1>9 DEF new
<1> QED BY <1>1, <1>7, <1>12, <1>13, <1>14 DEF NewAppIs

LEMMA NewAppLists ==
    ASSUME ListInv, NEW a \in Apps, NEW i \in Images, NEW byFlash \in BOOLEAN, load_app(a, i, byFlash)
    PROVE  ListInv' /\ (KeptInRam => KeptInRam')
<1> DEFINE Failed(b) == app[b].stage = "failed"
<1>new. NewAppIs(a, i, byFlash)
  BY NewApp
<1>0. /\ pc = "idle" /\ pc' = "roots" /\ cur' = a /\ useFlash' = byFlash /\ app[a].stage = "none"
      /\ UNCHANGED <<lst, file, flash, stack, ret, addr, top, buffer, hazards>>
      /\ app' \in [Apps -> {NoApp} \cup AppType]
      /\ app'[a].stage = "loading" /\ app'[a].entries = <<>> /\ app'[a].boot = <<>>
  BY <1>new DEF Started, NewAppIs
<1>1. \A b \in Apps : b # a => IF Failed(b) THEN app'[b].stage = "gone" /\ app'[b].entries = <<>>
                                ELSE app'[b] = app[b]
  BY <1>new DEF NewAppIs
<1>2. \/ (\A b \in Apps : ~Failed(b)) /\ UNCHANGED <<flash_list, flash_addr, heap, faults>>
      \/ \E b \in Apps : Failed(b) /\ CleanedUp(b)
  BY <1>new DEF NewAppIs
<1>3. a \in 0..MaxApps /\ app[a].entries = <<>>
  BY <1>0, LoaderAssumption DEF Apps, ListInv, Stages
<1>4. \A b \in Apps : IF b # a /\ ~Failed(b) THEN app'[b] = app[b] /\ Entry(b)' = Entry(b)
                      ELSE app'[b].entries = <<>> /\ Entry(b)' = {}
  BY <1>0, <1>1, EmptySeq DEF Entry
<1>5. LoaderTypeOK'
  BY <1>0, <1>2, <1>3 DEF ListInv, LoaderTypeOK, CleanedUp
<1>6. Distinct'
  BY <1>4, EmptySeq DEF ListInv, Distinct
<1>7. Stages'
  BY <1>0, <1>1, <1>3 DEF ListInv, Stages
<1>8. Addresses'
  BY <1>0, <1>2 DEF ListInv, Addresses, CleanedUp
<1>9. Calls'
  BY <1>0, EmptySeq DEF ListInv, Calls, Recursing
<1>10. Owned'
  <2>1. SUFFICES ASSUME NEW b \in Apps, NEW s \in Sections, heap'[<<b, s>>] = "live"
                 PROVE  Has(b, s)'
    BY DEF Owned
  <2>2. heap[<<b, s>>] = "live"
    BY <1>2, <2>1 DEF CleanedUp
  <2>3. Has(b, s)
    BY <2>2 DEF ListInv, Owned
  <2>4. b # a
    BY <1>3, <2>3, EmptySeq DEF Has, Entry
  <2>5. ~Failed(b)
    <3>1. SUFFICES ASSUME Failed(b) PROVE FALSE
      OBVIOUS
    <3>2. CleanedUp(b)
      BY <1>2, <3>1 DEF ListInv, Stages
    <3> QED BY <2>1, <2>3, <3>2 DEF CleanedUp
  <2>6. Entry(b)' = Entry(b)
    BY <1>4, <2>4, <2>5
  <2> QED BY <2>3, <2>6 DEF Has
<1>11. KeptInRam => KeptInRam'
  <2> SUFFICES ASSUME KeptInRam, Calm, file = NoFile
               PROVE  faults' = {} /\ \A b \in Apps : \A e \in Entry(b)' : heap'[<<b, e.sec>>] = "live"
    BY <1>0 DEF KeptInRam, Calm
  <2>1. faults' = {}
    BY <1>2 DEF KeptInRam, CleanedUp
  <2>2. ASSUME NEW b \in Apps, NEW e \in Entry(b)'
        PROVE  heap'[<<b, e.sec>>] = "live"
    <3>1. b # a /\ ~Failed(b) /\ e \in Entry(b)
      BY <1>4, <2>2
    <3>2. heap[<<b, e.sec>>] = "live" /\ e.sec \in Sections
      BY <3>1, AppFacts DEF KeptInRam, ListInv, LoaderTypeOK, EntryType
    <3> QED BY <1>2, <3>1, <3>2 DEF CleanedUp
  <2> QED BY <2>1, <2>2
<1> QED BY <1>5, <1>6, <1>7, <1>8, <1>9, <1>10, <1>11 DEF ListInv
-----------------------------------------------------------------------------
(* What the steps of load_sec2mem do to the stack and to the list.          *)
FlashSame == UNCHANGED <<flash_list, flash, file, addr, top, buffer>>
SameFrame(f, g) == f.sec = g.sec /\ f.prev = g.prev /\ f.new = g.new /\ f.prg = g.prg /\ f.todo = g.todo

(* load_sec2mem called for s: it has an entry, or a frame is pushed.        *)
CallIs(s) ==
    /\ UNCHANGED <<app, heap, faults, flash_addr, lst, cur, useFlash, hazards>> /\ FlashSame
    /\ s \in Sections /\ stack' \in Seq(FrameType)
    /\ \/ /\ pc' = "ret" /\ ret' \in Nat \ {0} /\ At(cur, s, ret') /\ Len(stack') = Len(stack)
          /\ \A i \in 1..Len(stack) : SameFrame(stack'[i], stack[i])
                                      /\ stack'[i].ref = IF i = 1 THEN s ELSE stack[i].ref
       \/ /\ pc' = "place" /\ ret' = ret /\ ~Has(cur, s) /\ Len(stack') = Len(stack) + 1
          /\ stack'[1] = Frame(s)
          /\ \A i \in 1..Len(stack) : SameFrame(stack'[i + 1], stack[i])
                                      /\ stack'[i + 1].ref = IF i = 1 THEN s ELSE stack[i].ref

LEMMA StackFacts ==
    ASSUME LoaderTypeOK
    PROVE  /\ Len(stack) \in Nat /\ \A i \in 1..Len(stack) : stack[i] \in FrameType
           /\ stack # <<>> => /\ Head(stack) = stack[1] /\ 1 \in 1..Len(stack)
                              /\ stack[1] \in FrameType /\ stack[1].sec \in Sections
           /\ stack = <<>> <=> Len(stack) = 0
<1>1. stack \in Seq(FrameType)
  BY DEF LoaderTypeOK
<1>2. Len(stack) \in Nat /\ \A i \in 1..Len(stack) : stack[i] \in FrameType
  BY <1>1, LenProperties, ElementOfSeq
<1>3. stack # <<>> => Head(stack) = stack[1] /\ stack[1] \in FrameType /\ Len(stack) \in Nat \ {0}
  BY <1>1, Popping
<1>4. stack = <<>> <=> Len(stack) = 0
  BY <1>1, EmptySeq
<1> QED BY <1>2, <1>3, <1>4 DEF FrameType

LEMMA Loading ==
    ASSUME ListInv, pc # "idle"
    PROVE  /\ cur \in Apps /\ app[cur] \in AppType /\ image \in Images /\ AppFunction
           /\ image.refs \in [Sections -> SUBSET Sections] /\ image.size \in [Sections -> Nat \ {0}]
           /\ image.align \in [Sections -> {1, 2}] /\ image.roots \in [1..3 -> Sections \cup {0}]
           /\ app[cur].boot \in Seq(Nat) /\ Len(app[cur].boot) \in Nat
<1>1. cur \in Apps /\ app[cur].stage = "loading"
  BY DEF ListInv, Stages
<1>2. app[cur] \in AppType /\ app[cur].image \in Images /\ app[cur].boot \in Seq(Nat)
  BY <1>1, AppFacts DEF ListInv, LoaderTypeOK
<1>3. Len(app[cur].boot) \in Nat
  BY <1>2, LenProperties
<1> QED BY <1>1, <1>2, <1>3, ImageFacts DEF image, ListInv, LoaderTypeOK, AppFunction

LEMMA FrameTyped ==
    ASSUME ListInv, pc # "idle", NEW s \in Sections
    PROVE  /\ Frame(s) \in FrameType /\ Frame(s).sec = s /\ Frame(s).prg = 0
           /\ Frame(s).prev = flash_addr /\ Frame(s).todo = image.refs[s]
<1>1. flash_addr \in Nat
  BY DEF ListInv, LoaderTypeOK
<1> QED BY <1>1, Loading DEF Frame, FrameType

(* The entry point's section, or a missing entry point.                     *)
LEMMA WrapperCalls ==
    ASSUME ListInv, load_sec2mem_wrapper
    PROVE  /\ pc = "roots" /\ Len(app[cur].boot) + 1 \in 1..3 /\ stack = <<>>
           /\ \/ /\ image.roots[Len(app[cur].boot) + 1] = 0 /\ pc' = "ret" /\ ret' = 0
                 /\ UNCHANGED <<app, heap, faults, flash_addr, lst, cur, useFlash, hazards, stack>> /\ FlashSame
              \/ CallIs(image.roots[Len(app[cur].boot) + 1])
<1> DEFINE k == Len(app[cur].boot) + 1
           s == image.roots[k]
<1>1. pc = "roots" /\ k <= 3
  BY DEF load_sec2mem_wrapper
<1>2. k \in 1..3 /\ stack = <<>> /\ s \in Sections \cup {0}
  BY <1>1, Loading DEF ListInv, Calls
<1>3. /\ UNCHANGED <<app, heap, faults, flash_addr, lst, cur, useFlash, hazards>> /\ FlashSame
      /\ IF s = 0 THEN pc' = "ret" /\ ret' = 0 /\ UNCHANGED stack ELSE Enter(s)
  BY DEF load_sec2mem_wrapper, HeapVars, FlashVars, FlashSame
<1>4. CASE s = 0
  BY <1>1, <1>2, <1>3, <1>4
<1>5. CASE s # 0
  <2>1. s \in Sections /\ Enter(s)
    BY <1>2, <1>3, <1>5
  <2>2. PICK t \in Sections : t = s
    BY <2>1
  <2>3. Enter(t) /\ cur \in Apps
    BY <1>1, <2>1, <2>2, Loading
  <2>4. CASE sec_prg_addr(t) # 0
    <3>1. At(cur, t, sec_prg_addr(t)) /\ sec_prg_addr(t) \in Nat \ {0}
      BY <2>3, <2>4, Looked DEF ListInv
    <3>2. pc' = "ret" /\ ret' = sec_prg_addr(t) /\ stack' = stack
      BY <2>3, <2>4 DEF Enter
    <3>3. stack' \in Seq(FrameType) /\ Len(stack) = 0
      BY <1>2, <3>2, EmptySeq DEF ListInv, LoaderTypeOK
    <3>4. CallIs(t)
      BY <1>3, <3>1, <3>2, <3>3 DEF CallIs
    <3> QED BY <1>1, <1>2, <2>2, <3>4
  <2>5. CASE sec_prg_addr(t) = 0
    <3>1. ~Has(cur, t)
      BY <2>3, <2>5, Looked DEF ListInv
    <3>2. pc' = "place" /\ ret' = ret /\ stack' = <<Frame(t)>> \o stack
      BY <2>3, <2>5 DEF Enter
    <3>3. stack' \in Seq(FrameType) /\ Len(stack) = 0 /\ Len(stack') = Len(stack) + 1 /\ stack'[1] = Frame(t)
      BY <1>1, <1>2, <3>2, FrameTyped, Pushing, EmptySeq
    <3>4. CallIs(t)
      BY <1>3, <3>1, <3>2, <3>3 DEF CallIs
    <3> QED BY <1>1, <1>2, <2>2, <3>4
  <2> QED BY <2>4, <2>5
<1> QED BY <1>4, <1>5
(* A relocation against section s, at address p, is resolved.               *)
LinkIs(s, p) ==
    /\ UNCHANGED <<heap, faults, flash_addr, lst, cur, useFlash, hazards>> /\ FlashSame
    /\ app' \in [Apps -> {NoApp} \cup AppType]
    /\ \A b \in Apps : b # cur => app'[b] = app[b]
    /\ app'[cur].links = app[cur].links \cup {<<stack[1].sec, s, p>>}
    /\ app'[cur].stage = app[cur].stage /\ app'[cur].image = app[cur].image
    /\ app'[cur].entries = app[cur].entries /\ app'[cur].boot = app[cur].boot
    /\ pc' = "link" /\ ret' \in Nat
    /\ stack' \in Seq(FrameType) /\ Len(stack') = Len(stack)
    /\ \A i \in 2..Len(stack) : stack'[i] = stack[i]
    /\ stack'[1] = [stack[1] EXCEPT !.todo = @ \ {s}]

LEMMA Linking ==
    ASSUME ListInv, pc # "idle", stack # <<>>, NEW s \in Sections, NEW p \in Nat,
           app' = [app EXCEPT ![cur].links = @ \cup {<<stack[1].sec, s, p>>}],
           stack' = [stack EXCEPT ![1].todo = NextRecord(@, s)]
    PROVE  /\ app' \in [Apps -> {NoApp} \cup AppType]
           /\ \A b \in Apps : b # cur => app'[b] = app[b]
           /\ app'[cur].links = app[cur].links \cup {<<stack[1].sec, s, p>>}
           /\ app'[cur].stage = app[cur].stage /\ app'[cur].image = app[cur].image
           /\ app'[cur].entries = app[cur].entries /\ app'[cur].boot = app[cur].boot
           /\ stack' \in Seq(FrameType) /\ Len(stack') = Len(stack)
           /\ \A i \in 2..Len(stack) : stack'[i] = stack[i]
           /\ stack'[1] = [stack[1] EXCEPT !.todo = @ \ {s}]
<1> DEFINE f == stack[1]
           ls == app[cur].links \cup {<<f.sec, s, p>>}
           r == [app[cur] EXCEPT !.links = ls]
           g == [f EXCEPT !.todo = f.todo \ {s}]
<1>1. cur \in Apps /\ app[cur] \in AppType /\ AppFunction /\ LoaderTypeOK
  BY Loading DEF ListInv
<1>2. f \in FrameType /\ f.sec \in Sections /\ 1 \in 1..Len(stack) /\ Len(stack) \in Nat
  BY <1>1, StackFacts
<1>3. stack \in Seq(FrameType)
  BY <1>1 DEF LoaderTypeOK
<1>4. ls \in SUBSET (Sections \X Sections \X Nat)
  BY <1>1, <1>2 DEF AppType
<1>5. app' = [app EXCEPT ![cur] = r]
  OBVIOUS
<1>6. stack' = [stack EXCEPT ![1] = g]
  BY DEF NextRecord
<1>7. g \in FrameType
  BY <1>2 DEF FrameType
<1>8. r \in AppType /\ r.links = ls /\ r.stage = app[cur].stage /\ r.image = app[cur].image
      /\ r.entries = app[cur].entries /\ r.boot = app[cur].boot
  BY <1>1, <1>4, FieldsSet
<1>9. f = stack[1] /\ ls = app[cur].links \cup {<<f.sec, s, p>>} /\ g = [f EXCEPT !.todo = @ \ {s}]
  OBVIOUS
<1> HIDE DEF g, r, ls, f
<1>10. app' \in [Apps -> {NoApp} \cup AppType] /\ OneApp(cur, r)
  BY <1>1, <1>5, <1>8, AppSet
<1>11. stack' \in Seq(FrameType) /\ Len(stack') = Len(stack)
       /\ \A i \in 1..Len(stack) : stack'[i] = IF i = 1 THEN g ELSE stack[i]
  BY <1>2, <1>3, <1>6, <1>7, ExceptSeq
<1>12. app'[cur] = r /\ \A b \in Apps : b # cur => app'[b] = app[b]
  BY <1>1, <1>10 DEF OneApp
<1>13. stack'[1] = g /\ \A i \in 2..Len(stack) : stack'[i] = stack[i]
  BY <1>2, <1>11
<1>14. /\ app'[cur].links = app[cur].links \cup {<<stack[1].sec, s, p>>}
       /\ app'[cur].stage = app[cur].stage /\ app'[cur].image = app[cur].image
       /\ app'[cur].entries = app[cur].entries /\ app'[cur].boot = app[cur].boot
  BY <1>8, <1>9, <1>12
<1>15. stack'[1] = [stack[1] EXCEPT !.todo = @ \ {s}]
  BY <1>9, <1>13
<1> QED BY <1>10, <1>11, <1>12, <1>13, <1>14, <1>15

LEMMA RelocateIs ==
    ASSUME ListInv, Relocate
    PROVE  /\ pc = "link" /\ stack # <<>>
           /\ \E s \in stack[1].todo :
                \/ s = stack[1].sec /\ LinkIs(s, stack[1].prg)
                \/ s # stack[1].sec /\ CallIs(s)
<1>1. pc = "link" /\ stack # <<>> /\ cur \in Apps /\ LoaderTypeOK
  BY Loading DEF Relocate, ListInv, Calls
<1>2. /\ Head(stack) = stack[1] /\ 1 \in 1..Len(stack) /\ Len(stack) \in Nat /\ stack[1] \in FrameType
      /\ stack \in Seq(FrameType)
  BY <1>1, StackFacts DEF LoaderTypeOK
<1>3. UNCHANGED <<heap, faults, flash_addr, lst, cur, useFlash, hazards>> /\ FlashSame
  BY DEF Relocate, HeapVars, FlashVars, FlashSame
<1>4. PICK s \in stack[1].todo :
         IF s = stack[1].sec
         THEN /\ app' = [app EXCEPT ![cur].links = @ \cup {<<stack[1].sec, s, stack[1].prg>>}]
              /\ stack' = [stack EXCEPT ![1].todo = NextRecord(@, s)]
              /\ UNCHANGED <<pc, ret>>
         ELSE /\ IF sec_prg_addr(s) # 0
                 THEN /\ pc' = "ret" /\ ret' = sec_prg_addr(s)
                      /\ stack' = [stack EXCEPT ![1].ref = s]
                 ELSE /\ pc' = "place" /\ UNCHANGED ret
                      /\ stack' = <<Frame(s)>> \o [stack EXCEPT ![1].ref = s]
              /\ UNCHANGED app
  BY <1>2 DEF Relocate
<1>5. s \in Sections /\ stack[1].prg \in Nat
  BY <1>2 DEF FrameType
<1>6. CASE s = stack[1].sec
  <2>1. PICK p \in Nat : p = stack[1].prg
    BY <1>5
  <2>2. ret' \in Nat /\ pc' = "link"
    BY <1>1, <1>4, <1>6 DEF LoaderTypeOK
  <2>3. /\ app' = [app EXCEPT ![cur].links = @ \cup {<<stack[1].sec, s, p>>}]
        /\ stack' = [stack EXCEPT ![1].todo = NextRecord(@, s)]
    BY <1>4, <1>6, <2>1
  <2>4. LinkIs(s, p)
    BY <1>1, <1>3, <1>5, <2>2, <2>3, Linking DEF LinkIs
  <2> QED BY <1>1, <1>6, <2>1, <2>4
<1>7. CASE s # stack[1].sec
  <2> DEFINE g == [stack[1] EXCEPT !.ref = s]
             q == [stack EXCEPT ![1] = g]
  <2>1. g \in FrameType /\ SameFrame(g, stack[1]) /\ g.ref = s
    BY <1>2, <1>5 DEF FrameType, SameFrame
  <2>2. q = [stack EXCEPT ![1].ref = s]
    OBVIOUS
  <2> HIDE DEF g
  <2>3. /\ q \in Seq(FrameType) /\ Len(q) = Len(stack)
        /\ \A i \in 1..Len(stack) : q[i] = IF i = 1 THEN g ELSE stack[i]
    BY <1>2, <2>1, ExceptSeq
  <2> HIDE DEF q
  <2>4. \A i \in 1..Len(stack) : SameFrame(q[i], stack[i]) /\ q[i].ref = IF i = 1 THEN s ELSE stack[i].ref
    BY <2>1, <2>3 DEF SameFrame
  <2>5. UNCHANGED app
    BY <1>4, <1>7
  <2>6. CASE sec_prg_addr(s) # 0
    <3>1. At(cur, s, sec_prg_addr(s)) /\ sec_prg_addr(s) \in Nat \ {0}
      BY <1>1, <1>5, <2>6, Looked DEF ListInv
    <3>2. pc' = "ret" /\ ret' = sec_prg_addr(s) /\ stack' = q
      BY <1>4, <1>7, <2>2, <2>6
    <3>3. CallIs(s)
      BY <1>3, <1>5, <2>3, <2>4, <2>5, <3>1, <3>2 DEF CallIs
    <3> QED BY <1>1, <1>7, <3>3
  <2>7. CASE sec_prg_addr(s) = 0
    <3>1. ~Has(cur, s)
      BY <1>1, <1>5, <2>7, Looked DEF ListInv
    <3>2. pc' = "place" /\ ret' = ret /\ stack' = <<Frame(s)>> \o q
      BY <1>4, <1>7, <2>2, <2>7
    <3>3. stack' \in Seq(FrameType) /\ Len(stack') = Len(stack) + 1 /\ stack'[1] = Frame(s)
          /\ \A i \in 1..Len(stack) : stack'[i + 1] = q[i]
      BY <1>1, <1>5, <2>3, <3>2, FrameTyped, Pushing
    <3>4. CallIs(s)
      BY <1>3, <1>5, <2>4, <2>5, <3>1, <3>2, <3>3 DEF CallIs
    <3> QED BY <1>1, <1>7, <3>4
  <2> QED BY <2>6, <2>7
<1> QED BY <1>6, <1>7

(* An entry point is recorded.                                              *)
BootIs ==
    /\ UNCHANGED <<heap, faults, flash_addr, lst, cur, useFlash, hazards, stack>> /\ FlashSame
    /\ app' \in [Apps -> {NoApp} \cup AppType]
    /\ \A b \in Apps : b # cur => app'[b] = app[b]
    /\ app'[cur].boot = Append(app[cur].boot, ret)
    /\ app'[cur].stage = app[cur].stage /\ app'[cur].image = app[cur].image
    /\ app'[cur].entries = app[cur].entries /\ app'[cur].links = app[cur].links
    /\ stack = <<>> /\ pc' = "roots" /\ ret' = 0

LEMMA ReturnedIs ==
    ASSUME ListInv, Returned
    PROVE  /\ pc = "ret"
           /\ BootIs \/ (stack # <<>> /\ ret # 0 /\ LinkIs(stack[1].ref, ret))
<1>1. pc = "ret" /\ LoaderTypeOK /\ ret \in Nat
  BY DEF Returned, ListInv, LoaderTypeOK
<1>2. UNCHANGED <<heap, faults, flash_addr, lst, cur, useFlash, hazards>> /\ FlashSame /\ ret' = 0
  BY DEF Returned, HeapVars, FlashVars, FlashSame
<1>3. cur \in Apps /\ app[cur] \in AppType /\ AppFunction /\ app[cur].boot \in Seq(Nat)
  BY <1>1, Loading
<1>4. CASE stack = <<>>
  <2>1. app' = [app EXCEPT ![cur].boot = Append(@, ret)] /\ pc' = "roots" /\ UNCHANGED stack
    BY <1>4 DEF Returned
  <2>2. PICK b \in Seq(Nat) : b = Append(app[cur].boot, ret)
    BY <1>1, <1>3, AppendProperties
  <2>3. PICK r : r = [app[cur] EXCEPT !.boot = b]
    OBVIOUS
  <2>4. r \in AppType /\ r.boot = b /\ r.stage = app[cur].stage /\ r.image = app[cur].image
        /\ r.entries = app[cur].entries /\ r.links = app[cur].links
    BY <1>3, <2>2, <2>3 DEF AppType
  <2>5. app' = [app EXCEPT ![cur] = r]
    BY <2>1, <2>2, <2>3
  <2>6. app' \in [Apps -> {NoApp} \cup AppType] /\ OneApp(cur, r)
    BY <1>3, <2>4, <2>5, AppSet
  <2>7. BootIs
    BY <1>2, <1>3, <1>4, <2>1, <2>2, <2>4, <2>6 DEF BootIs, OneApp
  <2> QED BY <1>1, <2>7
<1>5. CASE stack # <<>>
  <2>1. Head(stack) = stack[1] /\ stack[1].ref \in Sections
    BY <1>1, <1>5, StackFacts DEF ListInv, Calls
  <2>2. /\ ret # 0 /\ pc' = "link"
        /\ app' = [app EXCEPT ![cur].links = @ \cup {<<stack[1].sec, stack[1].ref, ret>>}]
        /\ stack' = [stack EXCEPT ![1].todo = NextRecord(@, stack[1].ref)]
    BY <1>5, <2>1 DEF Returned
  <2>3. PICK s \in Sections : s = stack[1].ref
    BY <2>1
  <2>4. /\ app' = [app EXCEPT ![cur].links = @ \cup {<<stack[1].sec, s, ret>>}]
        /\ stack' = [stack EXCEPT ![1].todo = NextRecord(@, s)]
    BY <2>2, <2>3
  <2>5. LinkIs(s, ret)
    BY <1>1, <1>2, <1>5, <2>2, <2>4, Linking DEF LinkIs
  <2> QED BY <1>1, <1>5, <2>2, <2>3, <2>5
<1> QED BY <1>4, <1>5

(* The section on top of the stack gets its address and its entry.          *)
PlaceIs(s, p, n) ==
    /\ UNCHANGED <<faults, lst, cur, useFlash, ret, hazards>> /\ FlashSame
    /\ pc = "place" /\ pc' = "link"
    /\ s = stack[1].sec /\ s \in Sections /\ p \in Nat \ {0} /\ n \in Nat /\ n >= Base
    /\ IF InRam(s) THEN p > RamStart /\ n = flash_addr
       ELSE /\ flash_addr <= p /\ p <= flash_addr + 1 /\ (flash_addr % Sector = 0 => p = flash_addr)
            /\ n = p + image.size[s] /\ n <= FlashTop
    /\ flash_addr' = n
    /\ heap' \in [Apps \X Sections -> {"none", "live", "freed"}]
    /\ \A b \in Apps, t \in Sections : heap'[<<b, t>>] = IF b = cur /\ t = s THEN "live" ELSE heap[<<b, t>>]
    /\ app' \in [Apps -> {NoApp} \cup AppType]
    /\ \A b \in Apps : b # cur => app'[b] = app[b]
    /\ app'[cur].entries = Append(app[cur].entries, [sec |-> s, prg |-> p])
    /\ app'[cur].stage = app[cur].stage /\ app'[cur].image = app[cur].image
    /\ app'[cur].links = app[cur].links /\ app'[cur].boot = app[cur].boot
    /\ stack' \in Seq(FrameType) /\ Len(stack') = Len(stack)
    /\ \A i \in 2..Len(stack) : stack'[i] = stack[i]
    /\ stack'[1].sec = s /\ stack'[1].prev = stack[1].prev /\ stack'[1].ref = stack[1].ref
    /\ stack'[1].todo = stack[1].todo /\ stack'[1].prg = p /\ stack'[1].new = n

LEMMA Modulo ==
    ASSUME NEW n \in Nat
    PROVE  n % 1 = 0 /\ n % 2 \in {0, 1} /\ (n % 2 # 0 => (n + 1) % 2 = 0)
OBVIOUS

LEMMA Alignment ==
    ASSUME ListInv, pc # "idle", NEW s \in Sections
    PROVE  /\ Aligned(s) \in Nat /\ AfterAlign(s) \in Nat
           /\ flash_addr <= Aligned(s) /\ Aligned(s) <= flash_addr + 1
           /\ flash_addr % Sector = 0 => Aligned(s) = flash_addr
           /\ AfterAlign(s) = Aligned(s) + image.size[s]
<1>1. flash_addr \in Nat
  BY DEF ListInv, LoaderTypeOK
<1>2. image.align[s] \in {1, 2} /\ image.size[s] \in Nat \ {0}
  BY Loading
<1>3. flash_addr % 1 = 0 /\ flash_addr % 2 \in {0, 1}
  BY <1>1, Modulo
<1>4. Misaligned(s) => image.align[s] = 2 /\ flash_addr % Sector # 0
  BY <1>2, <1>3 DEF Misaligned, Sector
<1>5. Aligned(s) = IF Misaligned(s) THEN flash_addr + 1 ELSE flash_addr
  BY DEF Aligned
<1>6. AfterAlign(s) = flash_addr + image.size[s] + (IF Misaligned(s) THEN image.align[s] - 1 ELSE 0)
  BY DEF AfterAlign
<1> HIDE DEF Misaligned
<1> QED BY <1>1, <1>2, <1>4, <1>5, <1>6

LEMMA Placing ==
    ASSUME ListInv, Place
    PROVE  \E s, p, n : PlaceIs(s, p, n)
<1>1. pc = "place" /\ stack # <<>> /\ cur \in Apps /\ LoaderTypeOK /\ app[cur] \in AppType /\ AppFunction
  BY Loading DEF Place, ListInv, Calls
<1>2. /\ Head(stack) = stack[1] /\ 1 \in 1..Len(stack) /\ Len(stack) \in Nat /\ stack[1] \in FrameType
      /\ stack \in Seq(FrameType) /\ stack[1].sec \in Sections
  BY <1>1, StackFacts DEF LoaderTypeOK
<1>3. PICK s \in Sections : s = stack[1].sec
  BY <1>2
<1> DEFINE prg == IF InRam(s) THEN Ram(cur, s) ELSE Aligned(s)
           new == IF InRam(s) THEN flash_addr ELSE AfterAlign(s)
<1>4. /\ flash_addr \in Nat /\ flash_addr >= Base /\ image.size[s] \in Nat \ {0}
      /\ Ram(cur, s) \in Nat /\ Ram(cur, s) > RamStart /\ RamStart \in Nat
  BY <1>1, Constants, Loading DEF ListInv, Addresses, LoaderTypeOK
<1>5. /\ Aligned(s) \in Nat /\ AfterAlign(s) \in Nat
      /\ flash_addr <= Aligned(s) /\ Aligned(s) <= flash_addr + 1
      /\ flash_addr % Sector = 0 => Aligned(s) = flash_addr
      /\ AfterAlign(s) = Aligned(s) + image.size[s]
  BY <1>1, Alignment
<1>6. PICK p \in Nat \ {0} : p = prg
  <2>1. prg \in Nat /\ prg > 0
    BY <1>4, <1>5 DEF Base, Sector
  <2> QED BY <2>1
<1>7. PICK n \in Nat : n = new
  BY <1>4, <1>5
<1>8. n >= Base
  BY <1>4, <1>5, <1>7 DEF Base, Sector
<1>9. /\ heap' = [heap EXCEPT ![<<cur, s>>] = "live"] /\ flash_addr' = n /\ pc' = "link"
      /\ app' = [app EXCEPT ![cur].entries = Append(@, [sec |-> s, prg |-> p])]
      /\ stack' = [stack EXCEPT ![1].prg = p, ![1].new = n]
      /\ InRam(s) \/ n <= FlashTop
  BY <1>2, <1>3, <1>6, <1>7 DEF Place
<1>10. IF InRam(s) THEN p > RamStart /\ n = flash_addr
       ELSE /\ flash_addr <= p /\ p <= flash_addr + 1 /\ (flash_addr % Sector = 0 => p = flash_addr)
            /\ n = p + image.size[s] /\ n <= FlashTop
  BY <1>4, <1>5, <1>6, <1>7, <1>9
<1> HIDE DEF prg, new
<1>11. UNCHANGED <<faults, lst, cur, useFlash, ret, hazards>> /\ FlashSame
  BY DEF Place, FlashVars, FlashSame
<1>12. /\ heap' \in [Apps \X Sections -> {"none", "live", "freed"}]
       /\ \A b \in Apps, t \in Sections : heap'[<<b, t>>] = IF b = cur /\ t = s THEN "live" ELSE heap[<<b, t>>]
  BY <1>1, <1>9 DEF LoaderTypeOK
<1>13. /\ app' \in [Apps -> {NoApp} \cup AppType]
       /\ \A b \in Apps : b # cur => app'[b] = app[b]
       /\ app'[cur].entries = Append(app[cur].entries, [sec |-> s, prg |-> p])
       /\ app'[cur].stage = app[cur].stage /\ app'[cur].image = app[cur].image
       /\ app'[cur].links = app[cur].links /\ app'[cur].boot = app[cur].boot
  <2>1. [sec |-> s, prg |-> p] \in EntryType
    BY DEF EntryType
  <2>2. PICK es \in Seq(EntryType) : es = Append(app[cur].entries, [sec |-> s, prg |-> p])
    BY <1>1, <2>1, AppendProperties DEF AppType
  <2>3. PICK r : r = [app[cur] EXCEPT !.entries = es]
    OBVIOUS
  <2>4. r \in AppType /\ r.entries = es /\ r.stage = app[cur].stage /\ r.image = app[cur].image
        /\ r.links = app[cur].links /\ r.boot = app[cur].boot
    BY <1>1, <2>2, <2>3 DEF AppType
  <2>5. app' = [app EXCEPT ![cur] = r]
    BY <1>9, <2>2, <2>3
  <2>6. app' \in [Apps -> {NoApp} \cup AppType] /\ OneApp(cur, r)
    BY <1>1, <2>4, <2>5, AppSet
  <2> QED BY <1>1, <2>2, <2>4, <2>6 DEF OneApp
<1>14. /\ stack' \in Seq(FrameType) /\ Len(stack') = Len(stack)
       /\ \A i \in 2..Len(stack) : stack'[i] = stack[i]
       /\ stack'[1].sec = s /\ stack'[1].prev = stack[1].prev /\ stack'[1].ref = stack[1].ref
       /\ stack'[1].todo = stack[1].todo /\ stack'[1].prg = p /\ stack'[1].new = n
  <2>1. PICK f : f = [stack[1] EXCEPT !.prg = p]
    OBVIOUS
  <2>2. f \in FrameType /\ f.sec = s /\ f.prev = stack[1].prev /\ f.ref = stack[1].ref
        /\ f.todo = stack[1].todo /\ f.prg = p
    BY <1>2, <1>3, <2>1 DEF FrameType
  <2>3. PICK g : g = [f EXCEPT !.new = n]
    OBVIOUS
  <2>4. g \in FrameType /\ g.sec = s /\ g.prev = stack[1].prev /\ g.ref = stack[1].ref
        /\ g.todo = stack[1].todo /\ g.prg = p /\ g.new = n
    BY <2>2, <2>3 DEF FrameType
  <2>5. stack' = [stack EXCEPT ![1] = g]
    BY <1>9, <2>1, <2>3, <1>2
  <2>6. stack' \in Seq(FrameType) /\ Len(stack') = Len(stack)
        /\ \A i \in 1..Len(stack) : stack'[i] = IF i = 1 THEN g ELSE stack[i]
    BY <1>2, <2>4, <2>5, ExceptSeq
  <2> QED BY <1>2, <2>4, <2>6
<1>15. PlaceIs(s, p, n)
  BY <1>1, <1>3, <1>8, <1>9, <1>10, <1>11, <1>12, <1>13, <1>14 DEF PlaceIs
<1> QED BY <1>15
(* A call of load_sec2mem ends, with a section loaded or with a failure.    *)
PopIs == stack' \in Seq(FrameType) /\ Len(stack') = Len(stack) - 1 /\ Len(stack) \in Nat \ {0}
         /\ \A i \in 1..(Len(stack) - 1) : stack'[i] = stack[i + 1]
FreedOne(s) ==
    /\ heap' \in [Apps \X Sections -> {"none", "live", "freed"}] /\ faults' \subseteq {"double free"}
    /\ \A b \in Apps, t \in Sections : heap'[<<b, t>>] = IF b = cur /\ t = s THEN "freed" ELSE heap[<<b, t>>]
FileWritten(f, end) ==
    /\ file' = [app |-> cur, sec |-> f.sec, from |-> f.prg, to |-> end, data |-> f.prg + image.size[f.sec]]
    /\ UNCHANGED hazards
FileSpoilt(f) ==
    /\ hazards' = hazards \cup {"unwritten"}
    /\ \/ UNCHANGED file
       \/ \E e \in Nat : file' = [app |-> cur, sec |-> f.sec, from |-> f.prg, to |-> e,
                                 data |-> f.prg + image.size[f.sec]]
CompleteIs(f) ==
    /\ f = stack[1] /\ f \in FrameType /\ pc = "link" /\ stack # <<>> /\ f.todo = {} /\ f.new >= f.prev
    /\ UNCHANGED <<app, flash_list, flash, addr, top, buffer, cur, useFlash>>
    /\ pc' = "ret" /\ ret' = f.prg /\ PopIs
    /\ \/ f.new = f.prev /\ UNCHANGED <<heap, faults, flash_addr, lst, file, hazards>>
       \/ /\ f.new > f.prev
          /\ lst' = lst \cup {[offset |-> f.prg, size |-> f.new - f.prev]}
          /\ FileWritten(f, f.prg + (f.new - f.prev)) \/ FileSpoilt(f)
          /\ FreedOne(f.sec)
          /\ flash_addr' \in Nat /\ flash_addr' >= flash_addr /\ flash_addr' % Sector = 0
FailIs ==
    /\ pc \in Recursing /\ stack # <<>> /\ pc' = "ret" /\ ret' = 0 /\ PopIs
    /\ flash_addr' = stack[1].prev /\ hazards' = hazards \cup {"failed"}
    /\ (UNCHANGED <<heap, faults>> \/ FreedOne(stack[1].sec))
    /\ UNCHANGED <<app, lst, cur, useFlash>> /\ FlashSame

LEMMA FreeOne ==
    ASSUME ListInv, cur \in Apps, NEW s \in Sections, Free({<<cur, s>>})
    PROVE  FreedOne(s)
<1>1. DOMAIN heap = Apps \X Sections /\ \A q \in DOMAIN heap : heap[q] \in {"none", "live", "freed"}
  BY DEF ListInv, LoaderTypeOK
<1>2. heap' = [q \in Apps \X Sections |-> IF q \in {<<cur, s>>} THEN "freed" ELSE heap[q]]
  BY <1>1 DEF Free
<1>3. faults' \subseteq {"double free"}
  BY DEF Free, ListInv, LoaderTypeOK
<1>4. ASSUME NEW b \in Apps, NEW t \in Sections
      PROVE  heap'[<<b, t>>] = IF b = cur /\ t = s THEN "freed" ELSE heap[<<b, t>>]
  BY <1>2
<1>5. heap' \in [Apps \X Sections -> {"none", "live", "freed"}]
  BY <1>1, <1>2
<1> QED BY <1>3, <1>4, <1>5 DEF FreedOne

LEMMA Rounding ==
    ASSUME NEW n \in Nat
    PROVE  RoundUp(n) \in Nat /\ RoundUp(n) >= n /\ RoundUp(n) <= n + 1 /\ RoundUp(n) % Sector = 0
<1>1. PICK q \in Nat : q = (n + 1) \div 2
  OBVIOUS
<1>2. 2 * q = n + 1 \/ 2 * q = n
  BY <1>1
<1>3. (2 * q) % 2 = 0
  OBVIOUS
<1>4. RoundUp(n) = 2 * q
  BY <1>1 DEF RoundUp, Sector
<1> QED BY <1>2, <1>3, <1>4 DEF Sector

LEMMA Popped ==
    ASSUME ListInv, stack # <<>>, stack' = Tail(stack)
    PROVE  PopIs
<1>1. stack \in Seq(FrameType)
  BY DEF ListInv, LoaderTypeOK
<1> QED BY <1>1, Popping DEF PopIs

LEMMA FlashMeWritten ==
    ASSUME NEW f, NEW end \in Nat, WriteFlashMe(f, end)
    PROVE  FileWritten(f, end) \/ FileSpoilt(f)
<1>1. CASE file' = FlashMe(f, end) /\ UNCHANGED hazards
  BY <1>1 DEF FlashMe, FileWritten
<1>2. CASE Unwritten(f, end)
  <2>1. CASE file' = file
    BY <1>2, <2>1 DEF Unwritten, FileSpoilt
  <2>2. CASE \E e \in 0..(end - 1) : file' = FlashMe(f, e)
    <3>1. PICK e \in Nat : file' = FlashMe(f, e)
      BY <2>2
    <3> QED BY <1>2, <3>1 DEF Unwritten, FileSpoilt, FlashMe
  <2> QED BY <1>2, <2>1, <2>2 DEF Unwritten
<1> QED BY <1>1, <1>2 DEF WriteFlashMe

LEMMA Completing ==
    ASSUME ListInv, Complete
    PROVE  \E f : CompleteIs(f)
<1>1. pc = "link" /\ stack # <<>> /\ cur \in Apps /\ LoaderTypeOK
  BY Loading DEF Complete, ListInv, Calls
<1>2. Head(stack) = stack[1] /\ stack[1] \in FrameType
  BY <1>1, StackFacts
<1>3. PICK f \in FrameType : f = stack[1]
  BY <1>2
<1>4. PICK z : z = f.new - f.prev
  OBVIOUS
<1>5. f.sec \in Sections /\ f.new \in Nat /\ f.prev \in Nat
  BY DEF FrameType
<1>6. /\ f.todo = {} /\ f.new >= f.prev /\ pc' = "ret" /\ ret' = f.prg /\ stack' = Tail(stack)
      /\ UNCHANGED <<app, flash_list, flash, addr, top, buffer, cur, useFlash>>
      /\ IF z = 0 THEN UNCHANGED <<HeapVars, flash_addr, lst, file, hazards>>
         ELSE /\ lst' = lst \cup {[offset |-> f.prg, size |-> z]}
              /\ WriteFlashMe(f, f.prg + z)
              /\ Free({<<cur, f.sec>>})
              /\ flash_addr' = RoundUp(flash_addr)
  BY <1>2, <1>3, <1>4 DEF Complete
<1>7. PopIs
  BY <1>1, <1>6, Popped
<1>8. z # 0 => FreedOne(f.sec)
  BY <1>1, <1>5, <1>6, FreeOne
<1>9. flash_addr \in Nat
  BY <1>1 DEF LoaderTypeOK
<1>10. z # 0 => flash_addr' \in Nat /\ flash_addr' >= flash_addr /\ flash_addr' % Sector = 0
  BY <1>6, <1>9, Rounding
<1>11. z = 0 => f.new = f.prev /\ UNCHANGED <<heap, faults, flash_addr, lst, file, hazards>>
  BY <1>4, <1>5, <1>6 DEF HeapVars
<1>12. z # 0 => f.new > f.prev
  BY <1>4, <1>5, <1>6
<1>13. z # 0 => /\ lst' = lst \cup {[offset |-> f.prg, size |-> f.new - f.prev]}
                /\ FileWritten(f, f.prg + (f.new - f.prev)) \/ FileSpoilt(f)
  <2>1. z # 0 => f.prg \in Nat /\ f.prg + z \in Nat
    BY <1>3, <1>4, <1>5, <1>6 DEF FrameType
  <2>2. z # 0 => FileWritten(f, f.prg + z) \/ FileSpoilt(f)
    BY <1>6, <2>1, FlashMeWritten
  <2> QED BY <1>4, <1>6, <2>2
<1>14. \/ f.new = f.prev /\ UNCHANGED <<heap, faults, flash_addr, lst, file, hazards>>
       \/ /\ f.new > f.prev
          /\ lst' = lst \cup {[offset |-> f.prg, size |-> f.new - f.prev]}
          /\ FileWritten(f, f.prg + (f.new - f.prev)) \/ FileSpoilt(f)
          /\ FreedOne(f.sec)
          /\ flash_addr' \in Nat /\ flash_addr' >= flash_addr /\ flash_addr' % Sector = 0
  BY <1>8, <1>10, <1>11, <1>12, <1>13
<1>15. CompleteIs(f)
  BY <1>1, <1>3, <1>6, <1>7, <1>14 DEF CompleteIs
<1> QED BY <1>15

LEMMA Failing ==
    ASSUME ListInv, FailOwn \/ FailNested
    PROVE  FailIs
<1>1. pc \in Recursing /\ stack # <<>> /\ Fail
  BY DEF FailOwn, FailNested, ListInv, Calls, Recursing
<1>2. cur \in Apps /\ LoaderTypeOK
  BY <1>1, Loading DEF ListInv, Recursing
<1>3. Head(stack) = stack[1] /\ stack[1].sec \in Sections
  BY <1>1, <1>2, StackFacts
<1>4. /\ flash_addr' = stack[1].prev /\ pc' = "ret" /\ ret' = 0 /\ stack' = Tail(stack)
      /\ hazards' = hazards \cup {"failed"}
      /\ IF stack[1].prg = 0 THEN UNCHANGED HeapVars ELSE Free({<<cur, stack[1].sec>>})
      /\ UNCHANGED <<app, lst, FlashVars, cur, useFlash>>
  BY <1>1, <1>3 DEF Fail
<1>5. PopIs
  BY <1>1, <1>4, Popped
<1>6. UNCHANGED <<heap, faults>> \/ FreedOne(stack[1].sec)
  BY <1>2, <1>3, <1>4, FreeOne DEF HeapVars
<1> QED BY <1>1, <1>4, <1>5, <1>6 DEF FailIs, FlashVars, FlashSame
(* Steps of the loader that add no entry.                                   *)
LEMMA ListsStand ==
    ASSUME ListInv, ListsKept, pc # "idle", pc' # "idle", cur' = cur,
           app' \in [Apps -> {NoApp} \cup AppType],
           \A b \in Apps, s \in Sections : heap'[<<b, s>>] = "live" => heap[<<b, s>>] = "live"
    PROVE  /\ Distinct' /\ Stages' /\ Owned'
           /\ Entry(cur)' = Entry(cur) /\ \A b \in Apps : Entry(b)' = Entry(b)
<1>1. /\ \A b \in Apps : Entry(b)' = Entry(b)
      /\ \A b \in Apps : \A s : Has(b, s)' <=> Has(b, s)
      /\ \A b \in Apps : \A s, p : At(b, s, p)' <=> At(b, s, p)
      /\ Distinct'
  BY ListsAreKept DEF ListInv
<1>2. cur \in Apps
  BY Loading
<1>3. Stages'
  BY DEF ListsKept, ListInv, Stages
<1>4. Owned'
  BY <1>1 DEF ListInv, Owned
<1>5. Entry(cur)' = Entry(cur)
  BY <1>1, <1>2
<1> QED BY <1>1, <1>3, <1>4, <1>5

LEMMA KeptStands ==
    ASSUME KeptInRam, \A b \in Apps : Entry(b)' = Entry(b),
           hazards \subseteq hazards', UNCHANGED <<heap, faults, file>>
    PROVE  KeptInRam'
BY DEF KeptInRam, Calm

(* No section is on the stack twice, so the calls nest no deeper than there *)
(* are sections.                                                            *)
LEMMA StackDepth ==
    ASSUME NEW q \in Seq(FrameType), \A i, j \in 1..Len(q) : q[i].sec = q[j].sec => i = j
    PROVE  Len(q) <= Cardinality(Sections)
<1>0. Len(q) \in Nat /\ \A i \in 1..Len(q) : q[i] \in FrameType
  BY LenProperties, ElementOfSeq
<1>1. Len(q) \in Nat /\ \A i \in 1..Len(q) : q[i].sec \in Sections
  BY <1>0 DEF FrameType
<1> DEFINE f == [i \in 1..Len(q) |-> q[i].sec]
<1>2. f \in Injection(1..Len(q), Sections)
  BY <1>1 DEF Injection, IsInjective
<1>3. IsFiniteSet(Sections)
  BY Constants
<1>4. Cardinality(1..Len(q)) <= Cardinality(Sections)
  BY <1>2, <1>3, FS_Injection
<1>5. Cardinality(1..Len(q)) = Len(q)
  <2>1. Cardinality(1..Len(q)) = IF 1 > Len(q) THEN 0 ELSE Len(q) - 1 + 1
    BY <1>1, FS_Interval
  <2> QED BY <1>1, <2>1
<1> QED BY <1>4, <1>5

LEMMA CallLists ==
    ASSUME ListInv, pc \in {"roots", "link"}, Len(app[cur].boot) < 3, NEW s, CallIs(s)
    PROVE  ListInv' /\ (KeptInRam => KeptInRam')
<1>1. /\ UNCHANGED <<app, heap, faults, flash_addr, lst, cur, useFlash, hazards>> /\ FlashSame
      /\ stack' \in Seq(FrameType) /\ s \in Sections
  BY DEF CallIs
<1>2. Len(stack) \in Nat /\ stack' \in Seq(FrameType) /\ Len(stack') \in Nat /\ pc' \in {"ret", "place"}
  BY <1>1, StackFacts, LenProperties DEF ListInv, CallIs
<1>3. ListsKept /\ cur \in Apps
  BY <1>1, Loading DEF ListsKept
<1>4. Distinct' /\ Stages' /\ Owned' /\ Entry(cur)' = Entry(cur) /\ \A b \in Apps : Entry(b)' = Entry(b)
  BY <1>1, <1>2, <1>3, ListsStand DEF ListInv, LoaderTypeOK
<1>5. \A i \in 1..Len(stack) : Placed(i) /\ At(cur, stack[i].sec, stack[i].prg)
  BY DEF ListInv, Calls, Placed
<1>6. flash_addr \in Nat /\ flash_addr >= Base
  BY DEF ListInv, LoaderTypeOK, Addresses
<1>7. CASE pc' = "ret"
  <2>1. /\ ret' \in Nat \ {0} /\ Len(stack') = Len(stack)
        /\ \A i \in 1..Len(stack) : SameFrame(stack'[i], stack[i])
                                    /\ stack'[i].ref = IF i = 1 THEN s ELSE stack[i].ref
    BY <1>7 DEF CallIs
  <2>2. Calls'
    <3>1. \A i \in 1..Len(stack) : [sec |-> stack'[i].sec, prg |-> stack'[i].prg] \in Entry(cur)'
      BY <1>4, <1>5, <2>1 DEF SameFrame, At
    <3>2. \A i, j \in 1..Len(stack) : stack'[i].sec = stack'[j].sec => i = j
      BY <2>1 DEF SameFrame, ListInv, Calls
    <3>3. \A i \in 1..(Len(stack) - 1) : stack'[i + 1].ref = stack'[i].sec
      <4> SUFFICES ASSUME NEW i \in 1..(Len(stack) - 1) PROVE stack'[i + 1].ref = stack'[i].sec
        OBVIOUS
      <4>1. i \in 1..Len(stack) /\ i + 1 \in 1..Len(stack) /\ i + 1 # 1
        BY <1>2
      <4>2. stack[i + 1].ref = stack[i].sec
        BY DEF ListInv, Calls
      <4> QED BY <2>1, <4>1, <4>2 DEF SameFrame
    <3>4. stack' # <<>> => stack'[1].ref \in Sections
      <4>1. stack' # <<>> => 1 \in 1..Len(stack)
        BY <1>1, <1>2, <2>1, EmptySeq
      <4> QED BY <1>1, <2>1, <4>1
    <3> QED BY <1>1, <1>7, <2>1, <3>1, <3>2, <3>3, <3>4 DEF Calls, Placed, Recursing, At
  <2>3. Addresses'
    BY <1>1, <2>1 DEF ListInv, Addresses, SameFrame, FlashSame
  <2>4. LoaderTypeOK'
    BY <1>1, <1>7, <2>1 DEF ListInv, LoaderTypeOK, FlashSame
  <2> QED BY <1>1, <1>4, <2>2, <2>3, <2>4, KeptStands DEF ListInv, FlashSame
<1>8. CASE pc' # "ret"
  <2>1. /\ ret' = ret /\ Len(stack') = Len(stack) + 1 /\ stack'[1] = Frame(s) /\ pc' = "place" /\ ~Has(cur, s)
        /\ \A i \in 1..Len(stack) : SameFrame(stack'[i + 1], stack[i])
                                    /\ stack'[i + 1].ref = IF i = 1 THEN s ELSE stack[i].ref
    BY <1>8 DEF CallIs
  <2>2. Frame(s).sec = s /\ Frame(s).prg = 0 /\ Frame(s).prev = flash_addr
    BY <1>1, FrameTyped
  <2>3. \A i \in 2..Len(stack') : i - 1 \in 1..Len(stack) /\ (i - 1) + 1 = i
    BY <1>2, <2>1
  <2>4. \A i \in 2..Len(stack') : SameFrame(stack'[i], stack[i - 1])
                                  /\ stack'[i].ref = IF i = 2 THEN s ELSE stack[i - 1].ref
    BY <1>2, <2>1, <2>3
  <2>5. \A i \in 1..Len(stack') : i = 1 \/ i \in 2..Len(stack')
    BY <1>2
  <2>6. \A i \in 2..Len(stack') : [sec |-> stack'[i].sec, prg |-> stack'[i].prg] \in Entry(cur)
                                  /\ Has(cur, stack'[i].sec)
    BY <1>5, <2>3, <2>4 DEF SameFrame, At, Has
  <2>7. \A i, j \in 1..Len(stack') : stack'[i].sec = stack'[j].sec => i = j
    <3> SUFFICES ASSUME NEW i \in 1..Len(stack'), NEW j \in 1..Len(stack'), stack'[i].sec = stack'[j].sec
                 PROVE  i = j
      OBVIOUS
    <3>1. CASE i = 1 \/ j = 1
      <4>1. stack'[i].sec = s
        BY <2>1, <2>2, <3>1
      <4>2. \A k \in 2..Len(stack') : stack'[k].sec # s
        BY <2>1, <2>6 DEF Has
      <4> QED BY <2>5, <4>1, <4>2
    <3>2. CASE i \in 2..Len(stack') /\ j \in 2..Len(stack')
      <4>1. i - 1 \in 1..Len(stack) /\ j - 1 \in 1..Len(stack) /\ stack[i - 1].sec = stack[j - 1].sec
        BY <2>3, <2>4, <3>2 DEF SameFrame
      <4>2. i - 1 = j - 1
        BY <4>1 DEF ListInv, Calls
      <4> QED BY <4>2
    <3> QED BY <2>5, <3>1, <3>2
  <2>8. \A i \in 1..(Len(stack') - 1) : stack'[i + 1].ref = stack'[i].sec
    <3> SUFFICES ASSUME NEW i \in 1..(Len(stack') - 1) PROVE stack'[i + 1].ref = stack'[i].sec
      OBVIOUS
    <3>1. i \in 1..Len(stack) /\ i + 1 \in 2..Len(stack') /\ (i + 1) - 1 = i
      BY <1>2, <2>1
    <3>2. CASE i = 1
      BY <2>1, <2>2, <3>1, <3>2
    <3>3. CASE i # 1
      <4>1. i - 1 \in 1..(Len(stack) - 1) /\ (i - 1) + 1 = i /\ i \in 2..Len(stack')
        BY <3>1, <3>3, <1>2, <2>1
      <4>2. stack[i].ref = stack[i - 1].sec
        BY <4>1 DEF ListInv, Calls
      <4>3. stack'[i + 1].ref = stack[i].ref /\ stack'[i].sec = stack[i - 1].sec
        BY <2>1, <2>4, <3>1, <3>3, <4>1 DEF SameFrame
      <4> QED BY <4>2, <4>3
    <3> QED BY <3>2, <3>3
  <2>9. stack' # <<>>
    BY <1>1, <1>2, <2>1, EmptySeq
  <2>10. Calls'
    <3>1. (\A e \in Entry(cur)' : e.sec # stack'[1].sec) /\ stack'[1].prg = 0
      BY <1>4, <2>1, <2>2 DEF Has
    <3>2. \A i \in 1..Len(stack') : IF Placed(i)' THEN At(cur, stack[i].sec, stack[i].prg)'
                                    ELSE ~Has(cur, stack[i].sec)' /\ stack'[i].prg = 0
      BY <1>4, <2>1, <2>5, <2>6, <3>1 DEF Placed, At, Has
    <3> QED BY <1>1, <2>1, <2>7, <2>8, <2>9, <3>2 DEF Calls, Recursing
  <2>11. Addresses'
    <3>1. \A i \in 2..Len(stack') : stack'[i].prev >= Base
      BY <2>3, <2>4 DEF SameFrame, ListInv, Addresses
    <3>2. \A i \in 1..Len(stack') : stack'[i].prev >= Base
      BY <1>6, <2>1, <2>2, <2>5, <3>1
    <3> QED BY <1>1, <3>2 DEF ListInv, Addresses, FlashSame
  <2>12. Len(stack') <= Cardinality(Sections)
    BY <1>1, <2>7, StackDepth
  <2>13. LoaderTypeOK'
    BY <1>1, <2>1, <2>12 DEF ListInv, LoaderTypeOK, FlashSame
  <2> QED BY <1>1, <1>4, <2>10, <2>11, <2>13, KeptStands DEF ListInv, FlashSame
<1> QED BY <1>7, <1>8
LEMMA LinkLists ==
    ASSUME ListInv, pc \in {"link", "ret"}, stack # <<>>, NEW s, NEW p, LinkIs(s, p)
    PROVE  ListInv' /\ (KeptInRam => KeptInRam')
<1>1. /\ UNCHANGED <<heap, faults, flash_addr, lst, cur, useFlash, hazards>> /\ FlashSame
      /\ app' \in [Apps -> {NoApp} \cup AppType] /\ pc' = "link" /\ ret' \in Nat
      /\ stack' \in Seq(FrameType) /\ Len(stack') = Len(stack)
      /\ app'[cur].boot = app[cur].boot
  BY DEF LinkIs
<1>2. ListsKept /\ cur \in Apps /\ stack # <<>>
  BY Loading DEF ListsKept, LinkIs
<1>3. Len(stack) \in Nat /\ stack[1] \in FrameType /\ 1 \in 1..Len(stack)
  BY <1>2, StackFacts DEF ListInv
<1>4. stack' # <<>>
  BY <1>1, <1>3, EmptySeq
<1>5. \A i \in 1..Len(stack) : /\ stack'[i].sec = stack[i].sec /\ stack'[i].prg = stack[i].prg
                               /\ stack'[i].ref = stack[i].ref /\ stack'[i].prev = stack[i].prev
  <2>1. /\ stack'[1].sec = stack[1].sec /\ stack'[1].prg = stack[1].prg
        /\ stack'[1].ref = stack[1].ref /\ stack'[1].prev = stack[1].prev
    BY <1>3 DEF LinkIs, FrameType
  <2>2. \A i \in 2..Len(stack) : stack'[i] = stack[i]
    BY DEF LinkIs
  <2>3. \A i \in 1..Len(stack) : i = 1 \/ i \in 2..Len(stack)
    BY <1>3
  <2> QED BY <2>1, <2>2, <2>3
<1>6. Distinct' /\ Stages' /\ Owned' /\ Entry(cur)' = Entry(cur) /\ \A b \in Apps : Entry(b)' = Entry(b)
  BY <1>1, <1>2, ListsStand DEF ListInv, LoaderTypeOK
<1>7. Calls'
  <2>1. \A i \in 1..Len(stack) : At(cur, stack[i].sec, stack[i].prg)'
    BY <1>1, <1>5, <1>6 DEF ListInv, Calls, Placed, At
  <2>2. Len(app'[cur].boot) < 3 /\ Len(app'[cur].boot) \in Nat
    <3>1. Len(app[cur].boot) < 3 /\ Len(app[cur].boot) \in Nat
      BY Loading DEF ListInv, Calls, Recursing
    <3> QED BY <1>1, <3>1
  <2>5. \A i \in 1..Len(stack') : Placed(i)' /\ At(cur, stack[i].sec, stack[i].prg)'
    BY <1>1, <2>1 DEF Placed
  <2>3. \A i \in 1..(Len(stack) - 1) : stack'[i + 1].ref = stack'[i].sec
    <3> SUFFICES ASSUME NEW i \in 1..(Len(stack) - 1) PROVE stack'[i + 1].ref = stack'[i].sec
      OBVIOUS
    <3>1. i \in 1..Len(stack) /\ i + 1 \in 1..Len(stack)
      BY <1>3
    <3> QED BY <1>5, <3>1 DEF ListInv, Calls
  <2>4. \A i, j \in 1..Len(stack) : stack'[i].sec = stack'[j].sec => i = j
    BY <1>5 DEF ListInv, Calls
  <2> QED BY <1>1, <1>4, <2>2, <2>3, <2>4, <2>5 DEF Calls, Recursing
<1>8. Addresses'
  BY <1>1, <1>5 DEF ListInv, Addresses, FlashSame
<1>9. LoaderTypeOK'
  BY <1>1 DEF ListInv, LoaderTypeOK, FlashSame
<1> QED BY <1>1, <1>6, <1>7, <1>8, <1>9, KeptStands DEF ListInv, FlashSame

LEMMA BootLists ==
    ASSUME ListInv, pc = "ret", BootIs
    PROVE  ListInv' /\ (KeptInRam => KeptInRam')
<1>1. /\ UNCHANGED <<heap, faults, flash_addr, lst, cur, useFlash, hazards, stack>> /\ FlashSame
      /\ app' \in [Apps -> {NoApp} \cup AppType] /\ pc' = "roots" /\ ret' = 0 /\ stack = <<>>
      /\ app'[cur].boot = Append(app[cur].boot, ret)
  BY DEF BootIs
<1>2. ListsKept /\ cur \in Apps /\ app[cur].boot \in Seq(Nat) /\ Len(app[cur].boot) \in Nat
  BY Loading DEF ListsKept, BootIs
<1>3. Distinct' /\ Stages' /\ Owned' /\ Entry(cur)' = Entry(cur) /\ \A b \in Apps : Entry(b)' = Entry(b)
  BY <1>1, <1>2, ListsStand DEF ListInv, LoaderTypeOK
<1>4. Len(app'[cur].boot) = Len(app[cur].boot) + 1
  <2>1. ret \in Nat
    BY DEF ListInv, LoaderTypeOK
  <2>2. Len(Append(app[cur].boot, ret)) = Len(app[cur].boot) + 1
    BY <1>2, <2>1, AppendProperties
  <2> QED BY <1>1, <2>2
<1>5. Calls'
  BY <1>1, <1>2, <1>4, EmptySeq DEF ListInv, Calls, Recursing
<1>6. Addresses'
  BY <1>1 DEF ListInv, Addresses, FlashSame
<1>7. LoaderTypeOK'
  BY <1>1 DEF ListInv, LoaderTypeOK, FlashSame
<1> QED BY <1>1, <1>3, <1>5, <1>6, <1>7, KeptStands DEF ListInv, FlashSame

LEMMA PlaceAdds ==
    ASSUME ListInv, NEW s, NEW p, NEW n, PlaceIs(s, p, n)
    PROVE  /\ Entry(cur)' = Entry(cur) \cup {[sec |-> s, prg |-> p]}
           /\ \A b \in Apps : b # cur => Entry(b)' = Entry(b)
           /\ Len(app'[cur].entries) = Len(app[cur].entries) + 1 /\ Len(app[cur].entries) \in Nat
           /\ app'[cur].entries[Len(app[cur].entries) + 1] = [sec |-> s, prg |-> p]
           /\ \A k \in 1..Len(app[cur].entries) : app'[cur].entries[k] = app[cur].entries[k]
<1> DEFINE e == [sec |-> s, prg |-> p]
<1>1. /\ pc = "place" /\ s \in Sections /\ p \in Nat \ {0} /\ UNCHANGED cur
      /\ app'[cur].entries = Append(app[cur].entries, e)
      /\ \A b \in Apps : b # cur => app'[b] = app[b]
  BY DEF PlaceIs
<1>2. cur \in Apps /\ app[cur].entries \in Seq(EntryType) /\ e \in EntryType
  BY <1>1, Loading DEF AppType, EntryType
<1>e. e = [sec |-> s, prg |-> p]
  OBVIOUS
<1>3. PICK q \in Seq(EntryType) : q = app[cur].entries
  BY <1>2
<1>4. PICK x \in EntryType : x = e
  BY <1>2
<1> HIDE DEF e
<1>5. /\ Len(Append(q, x)) = Len(q) + 1 /\ Len(q) \in Nat
      /\ Append(q, x)[Len(q) + 1] = x
      /\ \A i \in 1..Len(q) : Append(q, x)[i] = q[i]
      /\ {Append(q, x)[k] : k \in DOMAIN Append(q, x)} = {q[k] : k \in DOMAIN q} \cup {x}
  BY Appending
<1>6. app'[cur].entries = Append(q, x) /\ cur' = cur
  BY <1>1, <1>3, <1>4
<1>7. Entry(cur)' = {Append(q, x)[k] : k \in DOMAIN Append(q, x)}
  BY <1>6 DEF Entry
<1>8. Entry(cur) = {q[k] : k \in DOMAIN q}
  BY <1>3 DEF Entry
<1>9. \A b \in Apps : b # cur => Entry(b)' = Entry(b)
  BY <1>1 DEF Entry
<1>10. Entry(cur)' = Entry(cur) \cup {x}
  BY <1>5, <1>7, <1>8, Zenon
<1> QED BY <1>e, <1>3, <1>4, <1>5, <1>6, <1>9, <1>10

LEMMA PlaceLists ==
    ASSUME ListInv, NEW s, NEW p, NEW n, PlaceIs(s, p, n)
    PROVE  ListInv' /\ (KeptInRam => KeptInRam')
<1> DEFINE e == [sec |-> s, prg |-> p]
<1>1. /\ UNCHANGED <<faults, lst, cur, useFlash, ret, hazards>> /\ FlashSame
      /\ pc = "place" /\ pc' = "link" /\ s \in Sections /\ n \in Nat /\ n >= Base /\ p \in Nat \ {0}
      /\ app' \in [Apps -> {NoApp} \cup AppType] /\ flash_addr' = n
      /\ heap' \in [Apps \X Sections -> {"none", "live", "freed"}]
      /\ \A b \in Apps, t \in Sections : heap'[<<b, t>>] = IF b = cur /\ t = s THEN "live" ELSE heap[<<b, t>>]
      /\ stack' \in Seq(FrameType) /\ Len(stack') = Len(stack)
      /\ app'[cur].entries = Append(app[cur].entries, e)
      /\ \A b \in Apps : b # cur => app'[b] = app[b]
      /\ app'[cur].stage = app[cur].stage /\ app'[cur].boot = app[cur].boot
  BY DEF PlaceIs
<1>2. cur \in Apps /\ stack # <<>> /\ app[cur].entries \in Seq(EntryType) /\ e \in EntryType
  BY <1>1, Loading DEF ListInv, Calls, AppType, EntryType
<1>3. Len(stack) \in Nat /\ stack[1] \in FrameType /\ 1 \in 1..Len(stack)
  BY <1>2, StackFacts DEF ListInv
<1>4. stack' # <<>>
  BY <1>1, <1>3, EmptySeq
<1>5. /\ Entry(cur)' = Entry(cur) \cup {e} /\ \A b \in Apps : b # cur => Entry(b)' = Entry(b)
      /\ Len(app'[cur].entries) = Len(app[cur].entries) + 1 /\ Len(app[cur].entries) \in Nat
      /\ app'[cur].entries[Len(app[cur].entries) + 1] = e
      /\ \A k \in 1..Len(app[cur].entries) : app'[cur].entries[k] = app[cur].entries[k]
  BY PlaceAdds
<1>6. s = stack[1].sec /\ ~Has(cur, s)
  BY <1>1, <1>3 DEF PlaceIs, ListInv, Calls, Placed
<1>7. \A i \in 1..Len(stack) : /\ stack'[i].sec = stack[i].sec /\ stack'[i].ref = stack[i].ref
                               /\ stack'[i].prev = stack[i].prev
                               /\ stack'[i].prg = IF i = 1 THEN p ELSE stack[i].prg
  <2>1. \A i \in 1..Len(stack) : i = 1 \/ i \in 2..Len(stack)
    BY <1>3
  <2>2. \A i \in 2..Len(stack) : stack'[i] = stack[i] /\ i # 1
    BY DEF PlaceIs
  <2>3. /\ stack'[1].sec = s /\ stack'[1].prev = stack[1].prev /\ stack'[1].ref = stack[1].ref
        /\ stack'[1].prg = p
    BY DEF PlaceIs
  <2> QED BY <1>6, <2>1, <2>2, <2>3
<1>8. Distinct'
  <2> SUFFICES ASSUME NEW b \in Apps, NEW j \in 1..Len(app'[b].entries), NEW k \in 1..Len(app'[b].entries),
                      app'[b].entries[j].sec = app'[b].entries[k].sec
               PROVE  j = k
    BY DEF Distinct
  <2>1. CASE b # cur
    BY <1>1, <2>1 DEF ListInv, Distinct
  <2>2. CASE b = cur
    <3>1. \A l \in 1..Len(app[cur].entries) : app[cur].entries[l].sec # s
      BY <1>2, <1>6, LenProperties DEF Has, Entry
    <3>2. PICK m \in Nat : m = Len(app[cur].entries)
      BY <1>5
    <3>3. \A l \in 1..(m + 1) : l \in 1..m \/ l = m + 1
      BY <3>2
    <3>4. app'[cur].entries[m + 1].sec = s
      BY <1>5, <3>2
    <3>5. \A l \in 1..m : app'[cur].entries[l] = app[cur].entries[l] /\ app[cur].entries[l].sec # s
      BY <1>5, <3>1, <3>2
    <3>6. j \in 1..(m + 1) /\ k \in 1..(m + 1)
      BY <1>5, <2>2, <3>2
    <3>7. CASE j = m + 1 \/ k = m + 1
      BY <2>2, <3>3, <3>4, <3>5, <3>6, <3>7
    <3>8. CASE j \in 1..m /\ k \in 1..m
      BY <1>2, <2>2, <3>2, <3>5, <3>8 DEF ListInv, Distinct
    <3> QED BY <3>3, <3>6, <3>7, <3>8
  <2> QED BY <2>1, <2>2
<1>9. Stages'
  <2>1. \A b \in Apps : app'[b].stage = app[b].stage
    BY <1>1
  <2>2. app[cur].stage = "loading"
    BY <1>1 DEF ListInv, Stages
  <2>3. \A b \in Apps : app'[b].stage \in {"none", "gone"} => app'[b].entries = <<>>
    BY <1>1, <2>1, <2>2 DEF ListInv, Stages
  <2> QED BY <1>1, <2>1, <2>3 DEF ListInv, Stages
<1>10. Addresses'
  BY <1>1, <1>7 DEF ListInv, Addresses, FlashSame
<1>11. Calls'
  <2>1. \A i \in 1..Len(stack) : At(cur, stack[i].sec, stack[i].prg)'
    <3>1. \A i \in 1..Len(stack) : i # 1 => [sec |-> stack[i].sec, prg |-> stack[i].prg] \in Entry(cur)
      BY DEF ListInv, Calls, Placed, At
    <3> QED BY <1>1, <1>5, <1>6, <1>7, <3>1 DEF At
  <2>2. Len(app'[cur].boot) < 3
    BY <1>1 DEF ListInv, Calls, Recursing
  <2>3. \A i \in 1..(Len(stack) - 1) : stack'[i + 1].ref = stack'[i].sec
    <3> SUFFICES ASSUME NEW i \in 1..(Len(stack) - 1) PROVE stack'[i + 1].ref = stack'[i].sec
      OBVIOUS
    <3>1. i \in 1..Len(stack) /\ i + 1 \in 1..Len(stack)
      BY <1>3
    <3> QED BY <1>7, <3>1 DEF ListInv, Calls
  <2>4. \A i, j \in 1..Len(stack) : stack'[i].sec = stack'[j].sec => i = j
    BY <1>7 DEF ListInv, Calls
  <2> QED BY <1>1, <1>4, <2>1, <2>2, <2>3, <2>4 DEF Calls, Placed, Recursing
<1>12. Owned'
  <2> SUFFICES ASSUME NEW b \in Apps, NEW t \in Sections, heap'[<<b, t>>] = "live"
               PROVE  Has(b, t)'
    BY DEF Owned
  <2>1. CASE b = cur /\ t = s
    BY <1>1, <1>5, <2>1 DEF Has
  <2>2. CASE ~(b = cur /\ t = s)
    <3>1. Has(b, t)
      BY <1>1, <2>2 DEF ListInv, Owned
    <3>2. Entry(b) \subseteq Entry(b)'
      BY <1>1, <1>5
    <3> QED BY <3>1, <3>2 DEF Has
  <2> QED BY <2>1, <2>2
<1>13. LoaderTypeOK'
  BY <1>1 DEF ListInv, LoaderTypeOK, FlashSame
<1>14. KeptInRam => KeptInRam'
  <2> SUFFICES ASSUME KeptInRam, Calm, file = NoFile
               PROVE  faults' = {} /\ \A b \in Apps : \A g \in Entry(b)' : heap'[<<b, g.sec>>] = "live"
    BY <1>1 DEF KeptInRam, Calm, FlashSame
  <2>1. ASSUME NEW b \in Apps, NEW g \in Entry(b)'
        PROVE  heap'[<<b, g.sec>>] = "live"
    <3>1. CASE g \in Entry(b)
      <4>1. g.sec \in Sections /\ heap[<<b, g.sec>>] = "live"
        BY <3>1, AppFacts DEF KeptInRam, ListInv, LoaderTypeOK, EntryType
      <4> QED BY <1>1, <4>1
    <3>2. CASE g \notin Entry(b)
      <4>1. b = cur /\ g = e
        BY <1>1, <1>5, <2>1, <3>2
      <4> QED BY <1>1, <4>1
    <3> QED BY <3>1, <3>2
  <2> QED BY <1>1, <2>1 DEF KeptInRam
<1> QED BY <1>8, <1>9, <1>10, <1>11, <1>12, <1>13, <1>14 DEF ListInv
LEMMA PopCalls ==
    ASSUME ListInv, pc \in Recursing, stack # <<>>, PopIs, pc' = "ret", cur' = cur, app' = app
    PROVE  /\ Calls' /\ \A i \in 1..Len(stack') : stack'[i].prev >= Base
           /\ stack' \in Seq(FrameType) /\ Len(stack') <= Cardinality(Sections)
<1> DEFINE m == Len(stack) - 1
<1>1. /\ stack' \in Seq(FrameType) /\ Len(stack') = m /\ Len(stack) \in Nat \ {0} /\ m \in Nat
      /\ \A i \in 1..m : stack'[i] = stack[i + 1]
  BY DEF PopIs
<1>2. \A i \in 1..m : i + 1 \in 1..Len(stack) /\ i + 1 # 1
  BY <1>1
<1>3. cur \in Apps /\ Len(app[cur].boot) \in Nat /\ Entry(cur)' = Entry(cur)
  BY Loading DEF Recursing, Entry
<1>4. \A i \in 1..m : /\ Placed(i)' /\ stack'[i].prev >= Base
                      /\ [sec |-> stack'[i].sec, prg |-> stack'[i].prg] \in Entry(cur)
  BY <1>1, <1>2 DEF ListInv, Calls, Addresses, Placed, At
<1>5. \A i, j \in 1..m : stack'[i].sec = stack'[j].sec => i = j
  <2> SUFFICES ASSUME NEW i \in 1..m, NEW j \in 1..m, stack'[i].sec = stack'[j].sec
               PROVE  i = j
    OBVIOUS
  <2>1. stack[i + 1].sec = stack[j + 1].sec /\ i + 1 \in 1..Len(stack) /\ j + 1 \in 1..Len(stack)
    BY <1>1, <1>2
  <2>2. i + 1 = j + 1
    BY <2>1 DEF ListInv, Calls
  <2> QED BY <2>2
<1>6. \A i \in 1..(m - 1) : stack'[i + 1].ref = stack'[i].sec
  <2> SUFFICES ASSUME NEW i \in 1..(m - 1) PROVE stack'[i + 1].ref = stack'[i].sec
    OBVIOUS
  <2>1. i \in 1..m /\ i + 1 \in 1..m
    BY <1>1
  <2>2. i + 1 \in 1..(Len(stack) - 1)
    BY <1>1, <2>1
  <2>3. stack[(i + 1) + 1].ref = stack[i + 1].sec
    BY <2>2 DEF ListInv, Calls
  <2> QED BY <1>1, <2>1, <2>3
<1>7. stack' # <<>> => stack'[1].ref \in Sections
  <2>1. SUFFICES ASSUME stack' # <<>> PROVE stack'[1].ref \in Sections
    OBVIOUS
  <2>2. 1 \in 1..m /\ 1 \in 1..(Len(stack) - 1)
    BY <1>1, <2>1, EmptySeq
  <2>3. stack[1 + 1].ref = stack[1].sec
    BY <2>2 DEF ListInv, Calls
  <2>4. stack'[1] = stack[1 + 1] /\ stack[1].sec \in Sections
    BY <1>1, <2>2, StackFacts DEF ListInv
  <2> QED BY <2>3, <2>4
<1>8. Len(app'[cur].boot) < 3 /\ Len(app'[cur].boot) \in Nat
  BY <1>3 DEF ListInv, Calls
<1>9. \A i \in 1..Len(stack') : Placed(i)' /\ At(cur, stack[i].sec, stack[i].prg)'
  BY <1>1, <1>3, <1>4 DEF At
<1>10. Calls'
  BY <1>1, <1>5, <1>6, <1>7, <1>8, <1>9 DEF Calls, Recursing
<1>11. Len(stack') <= Cardinality(Sections)
  BY <1>1, <1>5, StackDepth
<1> QED BY <1>1, <1>4, <1>10, <1>11

LEMMA CompleteLists ==
    ASSUME ListInv, NEW f, CompleteIs(f)
    PROVE  ListInv' /\ (KeptInRam => KeptInRam')
<1>1. /\ f \in FrameType /\ pc = "link" /\ stack # <<>>
      /\ UNCHANGED <<app, flash_list, flash, addr, top, buffer, cur, useFlash>>
      /\ pc' = "ret" /\ ret' = f.prg /\ PopIs
  BY DEF CompleteIs
<1>2. ListsKept /\ cur \in Apps /\ image.size \in [Sections -> Nat \ {0}]
  BY <1>1, Loading DEF ListsKept
<1>3. f.sec \in Sections /\ f.prg \in Nat /\ f.new \in Nat /\ f.prev \in Nat
  BY <1>1 DEF FrameType
<1>0. hazards' \subseteq {"failed", "overlap", "unwritten", "unread", "unflashed"}
  BY DEF CompleteIs, FileWritten, FileSpoilt, ListInv, LoaderTypeOK
<1>4. \/ UNCHANGED <<heap, faults, flash_addr, lst, file, hazards>>
      \/ /\ file' # NoFile \/ hazards' # {}
         /\ file' \in [app : 0..MaxApps, sec : Sections \cup {0}, from : Nat, to : Nat, data : Nat]
         /\ lst' \subseteq [offset : Nat, size : Nat \ {0}] /\ IsFiniteSet(lst')
         /\ FreedOne(f.sec) /\ flash_addr' \in Nat /\ flash_addr' >= flash_addr
  <2>1. CASE f.new = f.prev
    BY <2>1, <1>3 DEF CompleteIs
  <2>2. CASE f.new # f.prev
    <3>1. PICK z \in Nat \ {0} : z = f.new - f.prev
      BY <1>3, <2>2 DEF CompleteIs
    <3>2. /\ lst' = lst \cup {[offset |-> f.prg, size |-> z]}
          /\ FileWritten(f, f.prg + z) \/ FileSpoilt(f)
          /\ FreedOne(f.sec)
          /\ flash_addr' \in Nat /\ flash_addr' >= flash_addr
      BY <2>2, <3>1 DEF CompleteIs
    <3>3. cur \in 0..MaxApps /\ cur # 0
      BY <1>2, Constants DEF ListInv, LoaderTypeOK
    <3>4. f.prg + z \in Nat /\ f.prg + image.size[f.sec] \in Nat
      BY <1>2, <1>3
    <3>5. file \in [app : 0..MaxApps, sec : Sections \cup {0}, from : Nat, to : Nat, data : Nat]
      BY DEF ListInv, LoaderTypeOK
    <3>6. /\ file' \in [app : 0..MaxApps, sec : Sections \cup {0}, from : Nat, to : Nat, data : Nat]
          /\ file' # NoFile \/ hazards' # {}
      <4>1. CASE FileWritten(f, f.prg + z)
        BY <1>3, <3>3, <3>4, <4>1 DEF FileWritten, NoFile
      <4>2. CASE FileSpoilt(f)
        BY <1>3, <3>3, <3>4, <3>5, <4>2 DEF FileSpoilt
      <4> QED BY <3>2, <4>1, <4>2
    <3>7. [offset |-> f.prg, size |-> z] \in [offset : Nat, size : Nat \ {0}]
      BY <1>3, <3>1
    <3>8. lst \subseteq [offset : Nat, size : Nat \ {0}] /\ IsFiniteSet(lst)
      BY DEF ListInv, LoaderTypeOK, Addresses
    <3>9. lst' \subseteq [offset : Nat, size : Nat \ {0}] /\ IsFiniteSet(lst')
      BY <3>2, <3>7, <3>8, FS_AddElement
    <3> QED BY <3>2, <3>6, <3>9
  <2> QED BY <2>1, <2>2
<1>5. \A b \in Apps, t \in Sections : heap'[<<b, t>>] = "live" => heap[<<b, t>>] = "live"
  BY <1>4 DEF FreedOne
<1>6. Distinct' /\ Stages' /\ Owned' /\ \A b \in Apps : Entry(b)' = Entry(b)
  BY <1>1, <1>2, <1>5, ListsStand DEF ListInv, LoaderTypeOK
<1>7. /\ Calls' /\ \A i \in 1..Len(stack') : stack'[i].prev >= Base
      /\ stack' \in Seq(FrameType) /\ Len(stack') <= Cardinality(Sections)
  BY <1>1, PopCalls DEF Recursing
<1>8. flash_addr \in Nat /\ flash_addr' \in Nat /\ flash_addr' >= Base
  <2>1. flash_addr \in Nat /\ flash_addr >= Base
    BY DEF ListInv, LoaderTypeOK, Addresses
  <2> QED BY <1>4, <2>1 DEF Base, Sector
<1>9. Addresses'
  BY <1>1, <1>4, <1>7, <1>8 DEF ListInv, Addresses
<1>10. LoaderTypeOK'
  BY <1>0, <1>1, <1>3, <1>4, <1>7, <1>8 DEF ListInv, LoaderTypeOK, FreedOne
<1>11. KeptInRam => KeptInRam'
  <2>1. CASE UNCHANGED <<heap, faults, flash_addr, lst, file, hazards>>
    BY <1>1, <1>6, <2>1, KeptStands
  <2>2. CASE file' # NoFile \/ hazards' # {}
    BY <2>2 DEF KeptInRam, Calm
  <2> QED BY <1>4, <2>1, <2>2
<1> QED BY <1>6, <1>7, <1>9, <1>10, <1>11 DEF ListInv

LEMMA FailLists ==
    ASSUME ListInv, FailIs
    PROVE  ListInv' /\ (KeptInRam => KeptInRam')
<1>1. /\ pc \in Recursing /\ stack # <<>> /\ pc' = "ret" /\ ret' = 0 /\ PopIs
      /\ flash_addr' = stack[1].prev /\ hazards' = hazards \cup {"failed"}
      /\ (UNCHANGED <<heap, faults>> \/ FreedOne(stack[1].sec))
      /\ UNCHANGED <<app, lst, cur, useFlash>> /\ FlashSame
  BY DEF FailIs
<1>2. ListsKept /\ cur \in Apps /\ pc # "idle"
  BY <1>1, Loading DEF ListsKept, Recursing
<1>3. stack[1] \in FrameType /\ stack[1].sec \in Sections /\ 1 \in 1..Len(stack)
  BY <1>1, StackFacts DEF ListInv
<1>4. \A b \in Apps, t \in Sections : heap'[<<b, t>>] = "live" => heap[<<b, t>>] = "live"
  BY <1>1 DEF FreedOne
<1>5. Distinct' /\ Stages' /\ Owned'
  BY <1>1, <1>2, <1>4, ListsStand DEF ListInv, LoaderTypeOK
<1>6. /\ Calls' /\ \A i \in 1..Len(stack') : stack'[i].prev >= Base
      /\ stack' \in Seq(FrameType) /\ Len(stack') <= Cardinality(Sections)
  BY <1>1, PopCalls
<1>7. flash_addr' \in Nat /\ flash_addr' >= Base
  BY <1>1, <1>3 DEF ListInv, Addresses, FrameType
<1>8. Addresses'
  BY <1>1, <1>6, <1>7 DEF ListInv, Addresses, FlashSame
<1>9. LoaderTypeOK'
  BY <1>1, <1>6, <1>7 DEF ListInv, LoaderTypeOK, FreedOne, FlashSame
<1>10. KeptInRam'
  BY <1>1 DEF KeptInRam, Calm
<1> QED BY <1>5, <1>6, <1>8, <1>9, <1>10 DEF ListInv
-----------------------------------------------------------------------------
(* The steps that program the flash, and those that change no list.         *)
LEMMA WrappedLists ==
    ASSUME ListInv, Wrapped
    PROVE  ListInv' /\ (KeptInRam => KeptInRam')
<1>1. /\ pc = "link" /\ pc' = "undefined"
      /\ UNCHANGED <<app, heap, faults, flash_addr, lst, cur, useFlash, stack, ret, hazards>> /\ FlashSame
  BY DEF Wrapped, HeapVars, FlashVars, FlashSame
<1>2. ListsKept
  BY <1>1 DEF ListsKept
<1>3. Distinct' /\ Stages' /\ Owned' /\ Entry(cur)' = Entry(cur) /\ \A b \in Apps : Entry(b)' = Entry(b)
  BY <1>1, <1>2, ListsStand DEF ListInv, LoaderTypeOK
<1>4. \A i \in 1..Len(stack) : [sec |-> stack[i].sec, prg |-> stack[i].prg] \in Entry(cur)
  BY <1>1 DEF ListInv, Calls, Placed, At
<1>5. \A i \in 1..Len(stack') : Placed(i)' /\ At(cur, stack[i].sec, stack[i].prg)'
  BY <1>1, <1>3, <1>4 DEF Placed, At
<1>6. Calls'
  BY <1>1, <1>5 DEF ListInv, Calls, Recursing
<1>7. LoaderTypeOK'
  BY <1>1 DEF ListInv, LoaderTypeOK, FlashSame
<1>8. Addresses'
  BY <1>1 DEF ListInv, Addresses, FlashSame
<1> QED BY <1>1, <1>3, <1>6, <1>7, <1>8, KeptStands DEF ListInv, FlashSame

LEMMA NotedRange ==
    ASSUME ListInv, lst # {}
    PROVE  /\ Min(Starts) \in Starts /\ \A o \in lst : o \in [offset : Nat, size : Nat \ {0}] /\ Min(Starts) <= o.offset
           /\ Max(Ends) \in Ends /\ \A o \in lst : o.offset + o.size <= Max(Ends)
           /\ Min(Starts) \in Nat /\ Max(Ends) \in Nat
<1>0. \A o \in lst : o \in [offset : Nat, size : Nat \ {0}]
  BY DEF ListInv, LoaderTypeOK
<1>1. \A o \in lst : o \in [offset : Nat, size : Nat \ {0}] /\ o.offset \in Nat /\ o.offset + o.size \in Nat
  <2> SUFFICES ASSUME NEW o \in lst PROVE o.offset \in Nat /\ o.offset + o.size \in Nat
    BY <1>0
  <2>1. o.offset \in Nat /\ o.size \in Nat
    BY <1>0
  <2> QED BY <2>1
<1>2. Starts \subseteq Nat /\ Starts # {} /\ Ends \subseteq Nat /\ Ends # {}
  BY <1>1 DEF Starts, Ends
<1>3. IsFiniteSet(Ends)
  <2> DEFINE f == [o \in lst |-> o.offset + o.size]
  <2>1. {f[o] : o \in lst} = Ends
    BY DEF Ends
  <2> QED BY <2>1, MappedFinite DEF ListInv, Addresses
<1>4. Min(Starts) \in Starts /\ \A n \in Starts : Min(Starts) <= n
  BY <1>2, MinIn
<1>5. Max(Ends) \in Ends /\ \A n \in Ends : n <= Max(Ends)
  BY <1>2, <1>3, MaxIn
<1> QED BY <1>1, <1>2, <1>4, <1>5 DEF Starts, Ends

LEMMA ReadTyped ==
    ASSUME LoaderTypeOK
    PROVE  Read \in [1..Sector -> Content]
<1>1. /\ file.app \in 0..MaxApps /\ file.sec \in Sections \cup {0} /\ file.from \in Nat /\ file.data \in Nat
      /\ buffer \in [1..Sector -> Content]
  BY DEF LoaderTypeOK
<1>2. file.app \in Nat /\ file.sec \in Nat
  BY <1>1, Constants, LoaderAssumption
<1>3. <<file.app, file.sec>> \in Content /\ Junk \in Content
  BY <1>2 DEF Junk, Content
<1>4. \A u : FileUnit(u) \in Content
  BY <1>3 DEF FileUnit
<1> QED BY <1>1, <1>4 DEF Read

LEMMA PartReadTyped ==
    ASSUME LoaderTypeOK, NEW n, NEW torn \in BOOLEAN
    PROVE  PartRead(n, torn) \in [1..Sector -> Content]
<1>1. Read \in [1..Sector -> Content]
  BY ReadTyped
<1>2. buffer \in [1..Sector -> Content] /\ Junk \in Content
  BY DEF LoaderTypeOK, Junk, Content
<1> QED BY <1>1, <1>2 DEF PartRead

LEMMA Programming ==
    ASSUME ListInv, pc = "flash", addr < top, NEW data \in [1..Sector -> Content], flash_block(data)
    PROVE  /\ flash' \in [0..FlashTop -> Content] /\ flash_addr' \in Nat /\ flash_addr' >= Base
           /\ flash_list' \in [made : BOOLEAN, recs : SUBSET Nat] /\ IsFiniteSet(flash_list'.recs)
           /\ flash_list'.made = FALSE => flash_list'.recs = {}
<1>1. /\ flash \in [0..FlashTop -> Content] /\ addr \in Nat /\ flash_addr \in Nat /\ flash_addr >= Base
      /\ flash_list \in [made : BOOLEAN, recs : SUBSET Nat] /\ IsFiniteSet(flash_list.recs)
      /\ (flash_list.made = FALSE => flash_list.recs = {})
  BY DEF ListInv, LoaderTypeOK, Addresses
<1>2. CASE UNCHANGED <<flash_list, flash_addr, flash>>
  BY <1>1, <1>2
<1>3. CASE /\ flash_list' = [made |-> TRUE, recs |-> flash_list.recs \cup {addr}]
           /\ flash_addr' = addr + Sector
           /\ flash' = [u \in 0..FlashTop |-> Programmed(u, data)]
  <2>1. Blank \in Content /\ Junk \in Content
    BY DEF Blank, Junk, Content
  <2>4. \A u \in 0..FlashTop : Programmed(u, data) \in Content
    <3> SUFFICES ASSUME NEW u \in 0..FlashTop PROVE Programmed(u, data) \in Content
      OBVIOUS
    <3>1. u \in addr..(addr + Sector - 1) => u - addr + 1 \in 1..Sector
      BY <1>1, Constants DEF Sector
    <3>2. flash[u] \in Content
      BY <1>1
    <3> QED BY <2>1, <3>1, <3>2 DEF Programmed
  <2>5. flash' \in [0..FlashTop -> Content]
    BY <1>3, <2>4
  <2>6. IsFiniteSet(flash_list'.recs) /\ flash_list'.made = TRUE
    BY <1>1, <1>3, FS_AddElement
  <2>7. flash_list' \in [made : BOOLEAN, recs : SUBSET Nat]
    BY <1>1, <1>3
  <2>8. flash_addr' \in Nat /\ flash_addr' >= Base
    BY <1>1, <1>3 DEF Base, Sector
  <2> QED BY <2>5, <2>6, <2>7, <2>8
<1> QED BY <1>2, <1>3 DEF flash_block

(* StartFlash, Program, ProgramPart and GiveUp change no list and no block. *)
LEMMA FlashLists ==
    ASSUME ListInv, StartFlash \/ Program \/ ProgramPart \/ GiveUp
    PROVE  ListInv' /\ (KeptInRam => KeptInRam')
<1>1. /\ pc \in {"roots", "flash"} /\ pc' = "flash" /\ Len(app[cur].boot) = 3
      /\ UNCHANGED <<app, heap, faults, file, cur, useFlash, stack, ret>>
      /\ hazards' \subseteq {"failed", "overlap", "unwritten", "unread", "unflashed"} /\ hazards \subseteq hazards'
  <2>1. hazards \subseteq {"failed", "overlap", "unwritten", "unread", "unflashed"}
    BY DEF ListInv, LoaderTypeOK
  <2>2. CASE StartFlash
    BY <2>1, <2>2 DEF StartFlash, HeapVars
  <2>3. CASE Program
    BY <2>1, <2>3 DEF Program, HeapVars, LoaderVars, ListInv, Calls
  <2>4. CASE GiveUp
    BY <2>1, <2>4 DEF GiveUp, HeapVars, LoaderVars, ListInv, Calls
  <2>5. CASE ProgramPart
    BY <2>1, <2>5 DEF ProgramPart, HeapVars, LoaderVars, ListInv, Calls
  <2> QED BY <2>2, <2>3, <2>4, <2>5
<1>2. ListsKept /\ stack = <<>>
  BY <1>1 DEF ListsKept, ListInv, Calls
<1>3. Distinct' /\ Stages' /\ Owned' /\ \A b \in Apps : Entry(b)' = Entry(b)
  BY <1>1, <1>2, ListsStand DEF ListInv, LoaderTypeOK
<1>4. Calls'
  <2>1. stack' = <<>> /\ Len(stack') = 0 /\ pc' = "flash"
    BY <1>1, <1>2, EmptySeq
  <2>2. Len(app'[cur'].boot) = 3
    <3>1. app' = app /\ cur' = cur
      BY <1>1
    <3> QED BY <1>1, <3>1
  <2>3. Len(app'[cur'].boot) <= 3
    BY <2>2
  <2> QED BY <2>1, <2>2, <2>3 DEF Calls, Recursing
<1>5. /\ addr' \in Nat /\ top' \in Nat /\ buffer' \in [1..Sector -> Content]
      /\ lst' \subseteq [offset : Nat, size : Nat \ {0}] /\ IsFiniteSet(lst')
      /\ flash' \in [0..FlashTop -> Content] /\ flash_addr' \in Nat /\ flash_addr' >= Base
      /\ flash_list' \in [made : BOOLEAN, recs : SUBSET Nat] /\ IsFiniteSet(flash_list'.recs)
      /\ flash_list'.made = FALSE => flash_list'.recs = {}
  <2>1. /\ addr \in Nat /\ top \in Nat /\ buffer \in [1..Sector -> Content]
        /\ lst \subseteq [offset : Nat, size : Nat \ {0}] /\ IsFiniteSet(lst)
        /\ flash \in [0..FlashTop -> Content] /\ flash_addr \in Nat /\ flash_addr >= Base
        /\ flash_list \in [made : BOOLEAN, recs : SUBSET Nat] /\ IsFiniteSet(flash_list.recs)
        /\ (flash_list.made = FALSE => flash_list.recs = {})
    BY DEF ListInv, LoaderTypeOK, Addresses
  <2>2. CASE StartFlash
    <3>1. addr' \in Nat /\ top' \in Nat
      BY <2>2, NotedRange DEF StartFlash
    <3>2. buffer' \in [1..Sector -> Content]
      <4>1. Blank \in Content
        BY DEF Blank, Content
      <4>2. buffer' = <<Blank, Blank>> /\ 1..Sector = {1, 2}
        BY <2>2 DEF StartFlash, Sector
      <4> QED BY <4>1, <4>2
    <3>3. lst' = {} /\ UNCHANGED <<flash_addr, flash_list, flash>>
      BY <2>2 DEF StartFlash
    <3> QED BY <2>1, <3>1, <3>2, <3>3, FS_EmptySet
  <2>3. CASE Program
    <3>1. /\ pc = "flash" /\ addr < top /\ flash_block(Read) /\ buffer' = Read /\ addr' = addr + Sector
          /\ UNCHANGED <<lst, top>>
      BY <2>3 DEF Program
    <3>2. addr' \in Nat
      BY <2>1, <3>1 DEF Sector
    <3>3. buffer' \in [1..Sector -> Content] /\ Read \in [1..Sector -> Content]
      BY <3>1, ReadTyped DEF ListInv
    <3> QED BY <2>1, <3>1, <3>2, <3>3, Programming
  <2>5. CASE ProgramPart
    <3>1. PICK n \in 0..(Sector - 1), torn \in BOOLEAN : flash_block(PartRead(n, torn)) /\ buffer' = PartRead(n, torn)
      BY <2>5 DEF ProgramPart
    <3>2. PICK data \in [1..Sector -> Content] : data = PartRead(n, torn)
      BY PartReadTyped DEF ListInv
    <3>3. /\ pc = "flash" /\ addr < top /\ flash_block(data) /\ buffer' = data
          /\ addr' = addr + Sector /\ top' = addr /\ UNCHANGED lst
      BY <2>5, <3>1, <3>2 DEF ProgramPart
    <3>4. addr' \in Nat /\ top' \in Nat
      BY <2>1, <3>3 DEF Sector
    <3> QED BY <2>1, <3>3, <3>4, Programming
  <2>4. CASE GiveUp
    BY <2>1, <2>4 DEF GiveUp
  <2> QED BY <2>2, <2>3, <2>4, <2>5
<1>6. Addresses'
  BY <1>1, <1>2, <1>5, EmptySeq DEF Addresses
<1>7. LoaderTypeOK'
  BY <1>1, <1>5 DEF ListInv, LoaderTypeOK
<1> QED BY <1>1, <1>3, <1>4, <1>6, <1>7, KeptStands DEF ListInv

(* load_app returns.                                                        *)
EndIs ==
    /\ pc \in {"roots", "flash"} /\ pc' = "idle" /\ Len(app[cur].boot) = 3 /\ cur \in Apps
    /\ (useFlash => pc = "flash" /\ addr >= top)
    /\ UNCHANGED <<heap, faults, flash_addr, lst, cur, useFlash, stack, ret, hazards>> /\ FlashSame
    /\ app' \in [Apps -> {NoApp} \cup AppType]
    /\ \A b \in Apps : b # cur => app'[b] = app[b]
    /\ app'[cur].stage \in {"failed", "ready"}
    /\ app'[cur].entries = app[cur].entries /\ app'[cur].image = app[cur].image
    /\ app'[cur].links = app[cur].links /\ app'[cur].boot = app[cur].boot

LEMMA Ending ==
    ASSUME ListInv, LoadEnds
    PROVE  EndIs
<1>1. /\ pc \in {"roots", "flash"} /\ pc' = "idle" /\ Len(app[cur].boot) = 3
      /\ UNCHANGED <<heap, faults, flash_addr, lst, cur, useFlash, stack, ret, hazards>> /\ FlashSame
      /\ (useFlash => pc = "flash" /\ addr >= top)
  BY DEF LoadEnds, HeapVars, FlashVars, FlashSame, ListInv, Calls
<1>2. cur \in Apps /\ app[cur] \in AppType /\ AppFunction
  BY <1>1, Loading
<1>3. PICK x \in {"failed", "ready"} : app' = [app EXCEPT ![cur].stage = x]
  BY DEF LoadEnds
<1>4. PICK r : r = [app[cur] EXCEPT !.stage = x]
  OBVIOUS
<1>5. r \in AppType /\ r.stage = x /\ r.entries = app[cur].entries /\ r.image = app[cur].image
      /\ r.links = app[cur].links /\ r.boot = app[cur].boot
  BY <1>2, <1>4 DEF AppType
<1>6. app' = [app EXCEPT ![cur] = r]
  BY <1>3, <1>4
<1>7. app' \in [Apps -> {NoApp} \cup AppType] /\ OneApp(cur, r)
  BY <1>2, <1>5, <1>6, AppSet
<1> QED BY <1>1, <1>2, <1>5, <1>7 DEF OneApp, EndIs

LEMMA LoadEndsLists ==
    ASSUME ListInv, LoadEnds
    PROVE  ListInv' /\ (KeptInRam => KeptInRam')
<1>0. EndIs
  BY Ending
<1>1. /\ pc \in {"roots", "flash"} /\ pc' = "idle" /\ cur \in Apps
      /\ UNCHANGED <<heap, faults, flash_addr, lst, cur, useFlash, stack, ret, hazards>> /\ FlashSame
      /\ app' \in [Apps -> {NoApp} \cup AppType] /\ stack = <<>>
  BY <1>0 DEF EndIs, ListInv, Calls
<1>2. \A b \in Apps : IF b = cur THEN app'[b].stage \in {"failed", "ready"} ELSE app'[b].stage = app[b].stage
  BY <1>0 DEF EndIs
<1>3. \A b \in Apps : app'[b].entries = app[b].entries
  BY <1>0 DEF EndIs
<1>4. \A b \in Apps : Entry(b)' = Entry(b)
  BY <1>3 DEF Entry
<1>5. Distinct'
  BY <1>3 DEF ListInv, Distinct
<1>6. Stages'
  <2>1. /\ \A b \in Apps : app[b].stage = "loading" => b = cur
        /\ \A b \in Apps : app[b].stage # "failed"
        /\ \A b \in Apps : app[b].stage \in {"none", "gone"} => app[b].entries = <<>>
    BY <1>1 DEF ListInv, Stages
  <2> QED BY <1>1, <1>2, <1>3, <2>1 DEF Stages
<1>7. Owned'
  BY <1>1, <1>4 DEF ListInv, Owned, Has
<1>8. Calls'
  BY <1>1, EmptySeq DEF Calls, Recursing
<1>9. Addresses'
  BY <1>1 DEF ListInv, Addresses, FlashSame
<1>10. LoaderTypeOK'
  BY <1>1 DEF ListInv, LoaderTypeOK, FlashSame
<1> QED BY <1>1, <1>4, <1>5, <1>6, <1>7, <1>8, <1>9, <1>10, KeptStands DEF ListInv, FlashSame
-----------------------------------------------------------------------------
LEMMA SameLists ==
    ASSUME ListInv, UNCHANGED vars
    PROVE  ListInv' /\ (KeptInRam => KeptInRam')
<1>1. UNCHANGED <<app, heap, faults, flash_addr, lst, flash_list, flash, file, addr, top, buffer,
                  pc, cur, useFlash, stack, ret, hazards>>
  BY DEF vars, HeapVars, FlashVars, LoaderVars
<1>2. Entry(cur)' = Entry(cur) /\ \A b \in Apps : Entry(b)' = Entry(b)
  BY <1>1 DEF Entry
<1>3. Distinct' /\ Stages' /\ Addresses' /\ LoaderTypeOK' /\ KeptInRam' = KeptInRam
  <2>1. Distinct' /\ Stages'
    BY <1>1 DEF ListInv, Distinct, Stages
  <2>2. Addresses'
    BY <1>1 DEF ListInv, Addresses
  <2>3. LoaderTypeOK'
    BY <1>1 DEF ListInv, LoaderTypeOK
  <2>4. KeptInRam' = KeptInRam
    BY <1>1, <1>2 DEF KeptInRam, Calm
  <2> QED BY <2>1, <2>2, <2>3, <2>4
<1>4. Owned'
  BY <1>1, <1>2 DEF ListInv, Owned, Has
<1>5. Calls'
  BY <1>1, <1>2 DEF ListInv, Calls, Placed, At, Has, Recursing
<1> QED BY <1>3, <1>4, <1>5 DEF ListInv

LEMMA NextLists ==
    ASSUME ListInv, [Next]_vars
    PROVE  ListInv' /\ (KeptInRam => KeptInRam')
<1>1. ASSUME NEW a \in Apps, NEW i \in Images, NEW byFlash \in BOOLEAN, load_app(a, i, byFlash)
      PROVE  ListInv' /\ (KeptInRam => KeptInRam')
  BY <1>1, NewAppLists
<1>2. ASSUME NEW a \in Apps, End(a)
      PROVE  ListInv' /\ (KeptInRam => KeptInRam')
  BY <1>2, EndLists
<1>3. CASE load_sec2mem_wrapper
  <2>1. /\ pc = "roots" /\ Len(app[cur].boot) + 1 \in 1..3 /\ stack = <<>>
        /\ \/ /\ image.roots[Len(app[cur].boot) + 1] = 0 /\ pc' = "ret" /\ ret' = 0
              /\ UNCHANGED <<app, heap, faults, flash_addr, lst, cur, useFlash, hazards, stack>> /\ FlashSame
           \/ CallIs(image.roots[Len(app[cur].boot) + 1])
    BY <1>3, WrapperCalls
  <2>2. cur \in Apps /\ Len(app[cur].boot) < 3
    <3>1. cur \in Apps /\ Len(app[cur].boot) \in Nat
      BY <2>1, Loading
    <3> QED BY <2>1, <3>1
  <2>3. CASE CallIs(image.roots[Len(app[cur].boot) + 1])
    BY <2>1, <2>2, <2>3, CallLists
  <2>4. CASE /\ pc' = "ret" /\ ret' = 0
             /\ UNCHANGED <<app, heap, faults, flash_addr, lst, cur, useFlash, hazards, stack>> /\ FlashSame
    <3>1. ListsKept
      BY <2>4 DEF ListsKept
    <3>2. Distinct' /\ Stages' /\ Owned' /\ \A b \in Apps : Entry(b)' = Entry(b)
      BY <2>1, <2>4, <3>1, ListsStand DEF ListInv, LoaderTypeOK
    <3>3. Calls'
      <4>1. stack' = <<>> /\ Len(stack') = 0 /\ app' = app /\ cur' = cur
        BY <2>1, <2>4, EmptySeq
      <4>2. Len(app'[cur'].boot) < 3 /\ Len(app'[cur'].boot) <= 3
        BY <2>1, <2>2, <4>1 DEF ListInv, Calls
      <4> QED BY <2>4, <4>1, <4>2 DEF Calls, Recursing
    <3>4. Addresses' /\ LoaderTypeOK'
      BY <2>4 DEF ListInv, Addresses, LoaderTypeOK, FlashSame
    <3> QED BY <2>4, <3>2, <3>3, <3>4, KeptStands DEF ListInv, FlashSame
  <2> QED BY <2>1, <2>3, <2>4
<1>4. CASE Place
  BY <1>4, Placing, PlaceLists
<1>5. CASE Relocate
  <2>1. PICK s : /\ pc = "link" /\ stack # <<>>
                 /\ LinkIs(s, stack[1].prg) \/ CallIs(s)
    BY <1>5, RelocateIs
  <2>2. Len(app[cur].boot) < 3
    BY <2>1 DEF ListInv, Calls, Recursing
  <2> QED BY <2>1, <2>2, CallLists, LinkLists
<1>6. CASE Returned
  BY <1>6, ReturnedIs, BootLists, LinkLists
<1>7. CASE Complete
  BY <1>7, Completing, CompleteLists
<1>8. CASE Wrapped
  BY <1>8, WrappedLists
<1>9. CASE FailOwn \/ FailNested
  BY <1>9, Failing, FailLists
<1>10. CASE StartFlash \/ Program \/ ProgramPart \/ GiveUp
  BY <1>10, FlashLists
<1>11. CASE LoadEnds
  BY <1>11, LoadEndsLists
<1>12. CASE UNCHANGED vars
  BY <1>12, SameLists
<1> QED BY <1>1, <1>2, <1>3, <1>4, <1>5, <1>6, <1>7, <1>8, <1>9, <1>10, <1>11, <1>12 DEF Next, Loader

(* Whatever fails, whoever ends meanwhile: the loader's lists name every    *)
(* section once and every block that is allocated, each call in progress    *)
(* has its section in the list, and only the context of one failed program  *)
(* is left to clean up.                                                     *)
THEOREM ListInvariant == Spec => []ListInv
<1>1. Init => ListInv
  BY ListInitially
<1>2. ListInv /\ [Next]_vars => ListInv'
  BY NextLists
<1> QED BY <1>1, <1>2, PTL DEF Spec

(* The variables of app.c keep their shape, and load_sec2mem never calls     *)
(* itself more deeply than there are sections, whatever images refer to.    *)
THEOREM TypesOK == Spec => []LoaderTypeOK
<1>1. ListInv => LoaderTypeOK
  BY DEF ListInv
<1> QED BY <1>1, ListInvariant, PTL

(* A program that has been cleaned up leaves no block in the heap, whatever *)
(* failed while it was loaded.                                              *)
THEOREM NoLeak == Spec => []NothingLeaks
<1>1. ListInv => NothingLeaks
  <2> SUFFICES ASSUME ListInv, NEW a \in Apps, NEW s \in Sections, app[a].stage = "gone",
                      heap[<<a, s>>] = "live"
               PROVE  FALSE
    BY DEF NothingLeaks
  <2>1. Has(a, s) /\ app[a].entries = <<>>
    BY DEF ListInv, Owned, Stages
  <2>2. Entry(a) = {}
    BY <2>1, AppFacts DEF ListInv, LoaderTypeOK
  <2> QED BY <2>1, <2>2 DEF Has
<1> QED BY <1>1, ListInvariant, PTL

(* A program kept in RAM is freed once: cleanup_bootb_ctx gives vPortFree    *)
(* only blocks that are allocated.                                          *)
THEOREM FreedOnce == Spec => []RamFreedOnce
<1>1. Init => ListInv /\ KeptInRam
  BY ListInitially
<1>2. ListInv /\ KeptInRam /\ [Next]_vars => ListInv' /\ KeptInRam'
  BY NextLists
<1>3. KeptInRam => RamFreedOnce
  BY DEF KeptInRam, RamFreedOnce
<1> QED BY <1>1, <1>2, <1>3, PTL DEF Spec
-----------------------------------------------------------------------------
(* Loads that met no failure and no clean-up: each frame knows what it      *)
(* takes and where, an entry point is the section it names, and what is not *)
(* resolved yet is still to do in some call.                                *)
Root(a, k, p) == IF app[a].image.roots[k] = 0 THEN p = 0 ELSE At(a, app[a].image.roots[k], p)
Resolved(a, e, s) == \E g \in Entry(a) : g.sec = s /\ <<e.sec, s, g.prg>> \in app[a].links
Pending(a, e, s) == a = cur /\ \E i \in 1..Len(stack) : stack[i].sec = e.sec /\ s \in stack[i].todo

Tidy ==
    /\ pc = "place" => stack[1].prev = flash_addr /\ stack[1].todo = image.refs[stack[1].sec]
    /\ \A i \in 1..Len(stack) : Placed(i) /\ stack[i].prg > RamStart => stack[i].new = stack[i].prev
    /\ stack # <<>> => image.roots[Len(app[cur].boot) + 1] = stack[Len(stack)].sec
    /\ pc = "ret" => IF stack # <<>> THEN At(cur, stack[1].ref, ret)
                     ELSE Root(cur, Len(app[cur].boot) + 1, ret)
Rooted == \A a \in Apps : app[a].stage \in {"loading", "ready"} =>
            \A k \in 1..Len(app[a].boot) : Root(a, k, app[a].boot[k])
Booted == \A a \in Apps : app[a].stage = "ready" => Len(app[a].boot) = 3
Linked == \A a \in Apps : \A e \in Entry(a) : \A s \in app[a].image.refs[e.sec] :
            Resolved(a, e, s) \/ Pending(a, e, s)
Live == \A a \in Apps : \A e \in Entry(a) : e.prg > RamStart => heap[<<a, e.sec>>] = "live"
Closed == Rooted /\ Booted /\ Linked /\ Live

ClosedInv == Calm => Tidy /\ Closed

(* Steps that change no program, no block and no frame's relocations.       *)
LEMMA ClosedStands ==
    ASSUME Closed, UNCHANGED <<app, heap, cur>>,
           \A i \in 1..Len(stack) : \E j \in 1..Len(stack') :
             stack'[j].sec = stack[i].sec /\ stack'[j].todo = stack[i].todo
    PROVE  Closed' /\ \A a \in Apps : Entry(a)' = Entry(a)
<1>1. \A a \in Apps : Entry(a)' = Entry(a)
  BY DEF Entry
<1>2. Rooted' /\ Booted'
  BY <1>1 DEF Closed, Rooted, Booted, Root, At
<1>3. Live'
  BY <1>1 DEF Closed, Live
<1>4. Linked'
  <2> SUFFICES ASSUME NEW a \in Apps, NEW e \in Entry(a), NEW s \in app[a].image.refs[e.sec]
               PROVE  Resolved(a, e, s)' \/ Pending(a, e, s)'
    BY <1>1 DEF Linked
  <2>1. CASE Resolved(a, e, s)
    BY <1>1, <2>1 DEF Resolved
  <2>2. CASE Pending(a, e, s)
    BY <2>2 DEF Pending
  <2> QED BY <2>1, <2>2 DEF Closed, Linked
<1> QED BY <1>1, <1>2, <1>3, <1>4 DEF Closed

LEMMA CallCloses ==
    ASSUME ListInv, pc \in {"roots", "link"}, Tidy, Closed, NEW s, CallIs(s),
           stack = <<>> => s = image.roots[Len(app[cur].boot) + 1]
    PROVE  Tidy' /\ Closed'
<1>1. /\ UNCHANGED <<app, heap, faults, flash_addr, lst, cur, useFlash, hazards>>
      /\ stack' \in Seq(FrameType) /\ s \in Sections /\ image' = image
  BY DEF CallIs, image
<1>2. Len(stack) \in Nat /\ cur \in Apps /\ s # 0 /\ Entry(cur)' = Entry(cur)
  BY <1>1, StackFacts, Loading, Constants DEF ListInv, Entry
<1>3. \A i \in 1..Len(stack) : Placed(i)
  BY DEF Placed
<1>4. CASE pc' = "ret"
  <2>1. /\ At(cur, s, ret') /\ Len(stack') = Len(stack)
        /\ \A i \in 1..Len(stack) : SameFrame(stack'[i], stack[i])
                                    /\ stack'[i].ref = IF i = 1 THEN s ELSE stack[i].ref
    BY <1>4 DEF CallIs
  <2>2. Closed'
    BY <1>1, <2>1, ClosedStands DEF SameFrame
  <2>3. \A i \in 1..Len(stack') : stack'[i].prg > RamStart => stack'[i].new = stack'[i].prev
    BY <1>3, <2>1 DEF Tidy, SameFrame
  <2>4. stack' # <<>> => /\ stack # <<>> /\ stack'[1].ref = s
                         /\ stack'[Len(stack')].sec = stack[Len(stack)].sec
    <3>1. SUFFICES ASSUME stack' # <<>>
                   PROVE  stack # <<>> /\ stack'[1].ref = s /\ stack'[Len(stack)].sec = stack[Len(stack)].sec
      BY <2>1
    <3>2. Len(stack) # 0 /\ stack # <<>>
      BY <1>1, <2>1, <3>1, EmptySeq, StackFacts DEF ListInv
    <3>3. 1 \in 1..Len(stack) /\ Len(stack) \in 1..Len(stack)
      BY <1>2, <3>2
    <3> QED BY <2>1, <3>2, <3>3 DEF SameFrame
  <2>5. stack' = <<>> => stack = <<>>
    BY <1>2, <2>1, EmptySeq, StackFacts DEF ListInv
  <2>6. [sec |-> s, prg |-> ret'] \in Entry(cur)
    BY <2>1 DEF At
  <2>7. IF stack' # <<>> THEN At(cur, stack[1].ref, ret)' ELSE Root(cur, Len(app[cur].boot) + 1, ret)'
    <3>1. CASE stack' # <<>>
      BY <1>1, <1>2, <2>4, <2>6, <3>1 DEF At
    <3>2. CASE stack' = <<>>
      BY <1>1, <1>2, <2>5, <2>6, <3>2 DEF At, Root, image
    <3> QED BY <3>1, <3>2
  <2>8. stack' # <<>> => image'.roots[Len(app'[cur'].boot) + 1] = stack'[Len(stack')].sec
    BY <1>1, <2>4 DEF Tidy
  <2>9. Tidy'
    BY <1>4, <2>3, <2>7, <2>8 DEF Tidy
  <2> QED BY <2>2, <2>9
<1>5. CASE pc' # "ret"
  <2>1. /\ pc' = "place" /\ Len(stack') = Len(stack) + 1 /\ stack'[1] = Frame(s)
        /\ \A i \in 1..Len(stack) : SameFrame(stack'[i + 1], stack[i])
    BY <1>5 DEF CallIs
  <2>2. Frame(s).sec = s /\ Frame(s).prev = flash_addr /\ Frame(s).todo = image.refs[s]
    BY <1>1, FrameTyped
  <2>3. Closed'
    <3>1. ASSUME NEW i \in 1..Len(stack)
          PROVE  \E j \in 1..Len(stack') : stack'[j].sec = stack[i].sec /\ stack'[j].todo = stack[i].todo
      <4>1. i + 1 \in 1..Len(stack')
        BY <1>2, <2>1
      <4> QED BY <2>1, <4>1 DEF SameFrame
    <3> QED BY <1>1, <3>1, ClosedStands
  <2>4. \A i \in 1..Len(stack') : i = 1 \/ (i - 1 \in 1..Len(stack) /\ SameFrame(stack'[i], stack[i - 1]))
    <3>1. ASSUME NEW i \in 1..Len(stack'), i # 1
          PROVE  i - 1 \in 1..Len(stack) /\ SameFrame(stack'[i], stack[i - 1])
      <4>1. i - 1 \in 1..Len(stack) /\ (i - 1) + 1 = i
        BY <1>2, <2>1, <3>1
      <4> QED BY <2>1, <4>1
    <3> QED BY <3>1
  <2>5. \A i \in 1..Len(stack') : Placed(i)' /\ stack'[i].prg > RamStart => stack'[i].new = stack'[i].prev
    <3>1. \A i : Placed(i)' <=> i # 1
      BY <2>1 DEF Placed
    <3> QED BY <1>3, <2>4, <3>1 DEF Tidy, SameFrame
  <2>6. image.roots[Len(app[cur].boot) + 1] = stack'[Len(stack')].sec
    <3>1. CASE stack = <<>>
      <4>1. Len(stack') = 1
        BY <2>1, <3>1, EmptySeq
      <4> QED BY <2>1, <2>2, <3>1, <4>1
    <3>2. CASE stack # <<>>
      <4>1. Len(stack') \in 1..Len(stack') /\ Len(stack') # 1 /\ Len(stack') - 1 = Len(stack)
        BY <1>2, <2>1, <3>2, StackFacts DEF ListInv
      <4>2. SameFrame(stack'[Len(stack')], stack[Len(stack)])
        BY <2>4, <4>1
      <4> QED BY <3>2, <4>2 DEF Tidy, SameFrame
    <3> QED BY <3>1, <3>2
  <2>7. stack'[1].prev = flash_addr' /\ stack'[1].todo = image'.refs[stack'[1].sec]
    BY <1>1, <2>1, <2>2
  <2>8. Tidy'
    BY <1>1, <2>1, <2>5, <2>6, <2>7 DEF Tidy
  <2> QED BY <2>3, <2>8
<1> QED BY <1>4, <1>5

LEMMA LinkCloses ==
    ASSUME ListInv, pc \in {"link", "ret"}, stack # <<>>, Tidy, Closed, NEW s, NEW p, LinkIs(s, p), At(cur, s, p)
    PROVE  Tidy' /\ Closed'
<1>1. /\ UNCHANGED <<heap, flash_addr, cur, hazards>> /\ pc' = "link" /\ Len(stack') = Len(stack)
      /\ \A b \in Apps : b # cur => app'[b] = app[b]
      /\ app'[cur].links = app[cur].links \cup {<<stack[1].sec, s, p>>}
      /\ app'[cur].stage = app[cur].stage /\ app'[cur].image = app[cur].image
      /\ app'[cur].entries = app[cur].entries /\ app'[cur].boot = app[cur].boot
  BY DEF LinkIs
<1>2. Len(stack) \in Nat /\ 1 \in 1..Len(stack) /\ cur \in Apps /\ stack[1] \in FrameType
  BY StackFacts, Loading DEF ListInv
<1>3. /\ \A b \in Apps : Entry(b)' = Entry(b) /\ app'[b].stage = app[b].stage /\ app'[b].image = app[b].image
                         /\ app'[b].boot = app[b].boot /\ app[b].links \subseteq app'[b].links
      /\ image' = image
  BY <1>1, <1>2 DEF Entry, image
<1>4. \A i \in 1..Len(stack) : /\ stack'[i].sec = stack[i].sec /\ stack'[i].prg = stack[i].prg
                               /\ stack'[i].new = stack[i].new /\ stack'[i].prev = stack[i].prev
                               /\ stack'[i].todo = IF i = 1 THEN stack[1].todo \ {s} ELSE stack[i].todo
  <2>1. /\ stack'[1].sec = stack[1].sec /\ stack'[1].prg = stack[1].prg
        /\ stack'[1].new = stack[1].new /\ stack'[1].prev = stack[1].prev
        /\ stack'[1].todo = stack[1].todo \ {s}
    BY <1>2 DEF LinkIs, FrameType
  <2>2. \A i \in 2..Len(stack) : stack'[i] = stack[i] /\ i # 1
    BY DEF LinkIs
  <2>3. \A i \in 1..Len(stack) : i = 1 \/ i \in 2..Len(stack)
    BY <1>2
  <2> QED BY <2>1, <2>2, <2>3
<1>5. Rooted' /\ Booted'
  BY <1>3 DEF Closed, Rooted, Booted, Root, At
<1>6. Live'
  BY <1>1, <1>3 DEF Closed, Live
<1>7. Linked'
  <2> SUFFICES ASSUME NEW a \in Apps, NEW e \in Entry(a), NEW t \in app[a].image.refs[e.sec]
               PROVE  Resolved(a, e, t)' \/ Pending(a, e, t)'
    BY <1>3 DEF Linked
  <2>1. CASE Resolved(a, e, t)
    BY <1>3, <2>1 DEF Resolved
  <2>2. CASE Pending(a, e, t)
    <3>1. PICK i \in 1..Len(stack) : stack[i].sec = e.sec /\ t \in stack[i].todo
      BY <2>2 DEF Pending
    <3>2. a = cur
      BY <2>2 DEF Pending
    <3>3. CASE i = 1 /\ t = s
      <4>1. <<e.sec, t, p>> \in app'[a].links
        BY <1>1, <3>1, <3>2, <3>3
      <4>2. [sec |-> t, prg |-> p] \in Entry(a)'
        BY <1>3, <3>2, <3>3 DEF At
      <4> QED BY <4>1, <4>2 DEF Resolved
    <3>4. CASE ~(i = 1 /\ t = s)
      <4>1. stack'[i].sec = e.sec /\ t \in stack'[i].todo
        BY <1>4, <3>1, <3>4
      <4> QED BY <1>1, <3>2, <4>1 DEF Pending
    <3> QED BY <3>3, <3>4
  <2> QED BY <2>1, <2>2 DEF Closed, Linked
<1>8. Tidy'
  <2>1. \A i \in 1..Len(stack) : Placed(i)
    BY DEF Placed
  <2>2. \A i \in 1..Len(stack') : stack'[i].prg > RamStart => stack'[i].new = stack'[i].prev
    BY <1>1, <1>4, <2>1 DEF Tidy
  <2>3. stack'[Len(stack')].sec = stack[Len(stack)].sec
    BY <1>1, <1>2, <1>4
  <2>4. image'.roots[Len(app'[cur'].boot) + 1] = stack'[Len(stack')].sec
    BY <1>1, <1>2, <1>3, <2>3 DEF Tidy
  <2> QED BY <1>1, <2>2, <2>4 DEF Tidy
<1> QED BY <1>5, <1>6, <1>7, <1>8 DEF Closed
LEMMA BootCloses ==
    ASSUME ListInv, pc = "ret", Tidy, Closed, BootIs
    PROVE  Tidy' /\ Closed'
<1>1. /\ UNCHANGED <<heap, cur, stack>> /\ pc' = "roots" /\ stack = <<>>
      /\ \A b \in Apps : b # cur => app'[b] = app[b]
      /\ app'[cur].boot = Append(app[cur].boot, ret)
      /\ app'[cur].stage = app[cur].stage /\ app'[cur].image = app[cur].image
      /\ app'[cur].entries = app[cur].entries /\ app'[cur].links = app[cur].links
  BY DEF BootIs
<1>2. cur \in Apps /\ app[cur].stage = "loading" /\ app[cur].boot \in Seq(Nat) /\ ret \in Nat
  BY Loading DEF ListInv, Stages, LoaderTypeOK
<1>3. \A b \in Apps : /\ Entry(b)' = Entry(b) /\ app'[b].stage = app[b].stage
                      /\ app'[b].image = app[b].image /\ app'[b].links = app[b].links
  BY <1>1, <1>2 DEF Entry
<1>4. PICK m \in Nat : /\ m = Len(app[cur].boot) /\ Len(app'[cur].boot) = m + 1 /\ app'[cur].boot[m + 1] = ret
                       /\ \A k \in 1..m : app'[cur].boot[k] = app[cur].boot[k]
  BY <1>1, <1>2, Appending
<1>5. Root(cur, m + 1, ret)
  BY <1>1, <1>4 DEF Tidy
<1>6. Rooted'
  <2> SUFFICES ASSUME NEW a \in Apps, app[a].stage \in {"loading", "ready"}, NEW k \in 1..Len(app'[a].boot)
               PROVE  Root(a, k, app[a].boot[k])'
    BY <1>3 DEF Rooted
  <2>1. PICK q : q = app'[a].boot[k]
    OBVIOUS
  <2>2. Root(a, k, q)
    <3>1. CASE a = cur
      <4>1. CASE k = m + 1
        BY <1>4, <1>5, <2>1, <3>1, <4>1
      <4>2. CASE k # m + 1
        <5>1. k \in 1..m
          BY <1>4, <3>1, <4>2
        <5>2. q = app[a].boot[k]
          BY <1>4, <2>1, <3>1, <5>1
        <5> QED BY <1>4, <3>1, <5>1, <5>2 DEF Closed, Rooted
      <4> QED BY <4>1, <4>2
    <3>2. CASE a # cur
      BY <1>1, <2>1, <3>2 DEF Closed, Rooted
    <3> QED BY <3>1, <3>2
  <2> QED BY <1>3, <2>1, <2>2 DEF Root, At
<1>7. Booted'
  BY <1>1, <1>2, <1>3 DEF Closed, Booted
<1>8. Live'
  BY <1>1, <1>3 DEF Closed, Live
<1>9. Linked'
  <2> SUFFICES ASSUME NEW a \in Apps, NEW e \in Entry(a), NEW t \in app[a].image.refs[e.sec]
               PROVE  Resolved(a, e, t)' \/ Pending(a, e, t)'
    BY <1>3 DEF Linked
  <2>1. CASE Resolved(a, e, t)
    BY <1>3, <2>1 DEF Resolved
  <2>2. CASE Pending(a, e, t)
    BY <1>1, <2>2 DEF Pending
  <2> QED BY <2>1, <2>2 DEF Closed, Linked
<1>10. Tidy'
  BY <1>1, EmptySeq DEF Tidy
<1> QED BY <1>6, <1>7, <1>8, <1>9, <1>10 DEF Closed

LEMMA PlaceCloses ==
    ASSUME ListInv, Tidy, Closed, NEW s, NEW p, NEW n, PlaceIs(s, p, n)
    PROVE  Tidy' /\ Closed'
<1> DEFINE x == [sec |-> s, prg |-> p]
<1>1. /\ UNCHANGED <<cur, useFlash>> /\ pc = "place" /\ pc' = "link" /\ s \in Sections
      /\ p \in Nat \ {0} /\ n \in Nat
      /\ \A b \in Apps, t \in Sections : heap'[<<b, t>>] = IF b = cur /\ t = s THEN "live" ELSE heap[<<b, t>>]
      /\ \A b \in Apps : b # cur => app'[b] = app[b]
      /\ app'[cur].stage = app[cur].stage /\ app'[cur].image = app[cur].image
      /\ app'[cur].links = app[cur].links /\ app'[cur].boot = app[cur].boot
      /\ Len(stack') = Len(stack) /\ s = stack[1].sec
  BY DEF PlaceIs
<1>2. Len(stack) \in Nat /\ 1 \in 1..Len(stack) /\ cur \in Apps /\ stack # <<>>
      /\ image.size \in [Sections -> Nat \ {0}] /\ flash_addr \in Nat
  BY <1>1, StackFacts, Loading DEF ListInv, Calls, LoaderTypeOK
<1>3. Entry(cur)' = Entry(cur) \cup {x} /\ x.sec = s /\ x.prg = p /\ \A b \in Apps : b # cur => Entry(b)' = Entry(b)
  BY PlaceAdds
<1> HIDE DEF x
<1>4. /\ \A b \in Apps : /\ Entry(b) \subseteq Entry(b)' /\ app'[b].stage = app[b].stage
                         /\ app'[b].image = app[b].image /\ app'[b].links = app[b].links
                         /\ app'[b].boot = app[b].boot
      /\ image' = image
  BY <1>1, <1>2, <1>3 DEF image
<1>5. \A i \in 1..Len(stack) : /\ stack'[i].sec = stack[i].sec /\ stack'[i].todo = stack[i].todo
                               /\ stack'[i].prev = stack[i].prev
                               /\ i # 1 => stack'[i].prg = stack[i].prg /\ stack'[i].new = stack[i].new
  <2>1. \A i \in 1..Len(stack) : i = 1 \/ i \in 2..Len(stack)
    BY <1>2
  <2> QED BY <1>1, <2>1 DEF PlaceIs
<1>6. Rooted' /\ Booted'
  BY <1>4 DEF Closed, Rooted, Booted, Root, At
<1>7. Live'
  <2> SUFFICES ASSUME NEW b \in Apps, NEW e \in Entry(b)', e.prg > RamStart
               PROVE  heap'[<<b, e.sec>>] = "live"
    BY DEF Live
  <2>1. CASE e \in Entry(b)
    <3>1. e.sec \in Sections /\ heap[<<b, e.sec>>] = "live"
      BY <2>1, AppFacts DEF Closed, Live, ListInv, LoaderTypeOK, EntryType
    <3> QED BY <1>1, <3>1
  <2>2. CASE e \notin Entry(b)
    <3>1. b = cur /\ e = x
      <4>1. b = cur
        BY <1>3, <2>2, Zenon
      <4>2. e \in Entry(cur)'
        BY <1>1, <4>1
      <4> QED BY <1>3, <2>2, <4>1, <4>2
    <3> QED BY <1>1, <1>2, <1>3, <3>1
  <2> QED BY <2>1, <2>2
<1>8. Linked'
  <2> SUFFICES ASSUME NEW a \in Apps, NEW e \in Entry(a)', NEW t \in app[a].image.refs[e.sec]
               PROVE  Resolved(a, e, t)' \/ Pending(a, e, t)'
    BY <1>4 DEF Linked
  <2>1. CASE e \in Entry(a) /\ Resolved(a, e, t)
    BY <1>4, <2>1 DEF Resolved
  <2>2. CASE e \in Entry(a) /\ Pending(a, e, t)
    BY <1>1, <1>5, <2>2 DEF Pending
  <2>3. CASE e \notin Entry(a)
    <3>1. a = cur /\ e = x
      <4>1. a = cur
        BY <1>3, <2>3, Zenon
      <4>2. e \in Entry(cur)'
        BY <1>1, <4>1
      <4> QED BY <1>3, <2>3, <4>1, <4>2
    <3>2. t \in stack[1].todo /\ stack[1].sec = e.sec
      BY <1>1, <1>3, <3>1 DEF Tidy, image
    <3>3. t \in stack'[1].todo /\ stack'[1].sec = e.sec
      BY <1>2, <1>5, <3>2
    <3> QED BY <1>1, <1>2, <3>1, <3>3 DEF Pending
  <2> QED BY <2>1, <2>2, <2>3 DEF Closed, Linked
<1>9. Tidy'
  <2>1. stack'[1].prg = p /\ stack'[1].new = n /\ stack'[1].prev = stack[1].prev /\ stack[1].prev = flash_addr
    BY <1>1 DEF PlaceIs, Tidy
  <2>2. p > RamStart => n = flash_addr
    <3>1. CASE InRam(s)
      BY <3>1 DEF PlaceIs
    <3>2. CASE ~InRam(s)
      <4>1. n = p + image.size[s] /\ n <= FlashTop
        BY <3>2 DEF PlaceIs
      <4>2. image.size[s] \in Nat /\ RamStart = FlashTop + 1 /\ FlashTop \in Nat
        BY <1>1, <1>2, Constants
      <4> QED BY <1>1, <4>1, <4>2
    <3> QED BY <3>1, <3>2
  <2>3. \A i \in 1..Len(stack') : stack'[i].prg > RamStart => stack'[i].new = stack'[i].prev
    <3>1. \A i \in 1..Len(stack) : i # 1 => (stack[i].prg > RamStart => stack[i].new = stack[i].prev)
      BY DEF Tidy, Placed
    <3> QED BY <1>1, <1>5, <2>1, <2>2, <3>1
  <2>4. stack'[Len(stack')].sec = stack[Len(stack)].sec
    BY <1>1, <1>2, <1>5
  <2>5. image'.roots[Len(app'[cur'].boot) + 1] = stack'[Len(stack')].sec
    BY <1>1, <1>2, <1>4, <2>4 DEF Tidy
  <2> QED BY <1>1, <2>3, <2>5 DEF Tidy
<1> QED BY <1>6, <1>7, <1>8, <1>9 DEF Closed

LEMMA CompleteCloses ==
    ASSUME ListInv, Tidy, Closed, NEW f, CompleteIs(f)
    PROVE  Tidy' /\ Closed'
<1> DEFINE m == Len(stack) - 1
<1>1. /\ UNCHANGED <<app, cur>> /\ pc = "link" /\ pc' = "ret" /\ ret' = f.prg /\ f = stack[1]
      /\ f.todo = {} /\ stack # <<>> /\ PopIs
      /\ (f.new = f.prev /\ UNCHANGED heap) \/ (f.new > f.prev /\ FreedOne(f.sec))
  BY DEF CompleteIs
<1>2. /\ Len(stack) \in Nat \ {0} /\ 1 \in 1..Len(stack) /\ Len(stack') = m /\ m \in Nat
      /\ \A i \in 1..m : stack'[i] = stack[i + 1] /\ i + 1 \in 1..Len(stack)
      /\ stack' \in Seq(FrameType)
      /\ cur \in Apps /\ f.sec \in Sections /\ f \in FrameType /\ f.sec # 0
  BY <1>1, StackFacts, Loading, Constants DEF ListInv, PopIs
<1>3. \A i \in 1..Len(stack) : Placed(i)
  BY <1>1 DEF Placed
<1>4. At(cur, f.sec, f.prg)
  BY <1>1, <1>2, <1>3 DEF ListInv, Calls
<1>5. Entry(cur)' = Entry(cur) /\ image' = image /\ \A a \in Apps : Entry(a)' = Entry(a)
  BY <1>1 DEF Entry, image
<1>6. Rooted' /\ Booted'
  BY <1>1, <1>5 DEF Closed, Rooted, Booted, Root, At
<1>7. Live'
  <2> SUFFICES ASSUME NEW b \in Apps, NEW e \in Entry(b), e.prg > RamStart
               PROVE  heap'[<<b, e.sec>>] = "live"
    BY <1>5 DEF Live
  <2>1. e.sec \in Sections /\ heap[<<b, e.sec>>] = "live"
    BY AppFacts DEF Closed, Live, ListInv, LoaderTypeOK, EntryType
  <2>2. CASE UNCHANGED heap
    BY <2>1, <2>2
  <2>3. CASE f.new > f.prev /\ FreedOne(f.sec)
    <3>1. ~(f.prg > RamStart)
      <4>1. f.new \in Nat /\ f.prev \in Nat
        BY <1>2 DEF FrameType
      <4> QED BY <1>1, <1>2, <1>3, <2>3, <4>1 DEF Tidy
    <3>2. ~(b = cur /\ e.sec = f.sec)
      <4>1. SUFFICES ASSUME b = cur, e.sec = f.sec PROVE FALSE
        OBVIOUS
      <4>2. [sec |-> f.sec, prg |-> f.prg] \in Entry(cur)
        BY <1>4 DEF At
      <4>3. e = [sec |-> f.sec, prg |-> f.prg]
        BY <1>2, <4>1, <4>2, EntryFacts DEF ListInv
      <4> QED BY <3>1, <4>3
    <3> QED BY <2>1, <2>3, <3>2 DEF FreedOne
  <2> QED BY <1>1, <2>2, <2>3
<1>8. Linked'
  <2> SUFFICES ASSUME NEW a \in Apps, NEW e \in Entry(a), NEW t \in app[a].image.refs[e.sec]
               PROVE  Resolved(a, e, t)' \/ Pending(a, e, t)'
    BY <1>1, <1>5 DEF Linked
  <2>1. CASE Resolved(a, e, t)
    BY <1>1, <1>5, <2>1 DEF Resolved
  <2>2. CASE Pending(a, e, t)
    <3>1. PICK i \in 1..Len(stack) : stack[i].sec = e.sec /\ t \in stack[i].todo
      BY <2>2 DEF Pending
    <3>2. i # 1
      BY <1>1, <3>1
    <3>3. i - 1 \in 1..m /\ (i - 1) + 1 = i
      BY <1>2, <3>1, <3>2
    <3>4. i - 1 \in 1..Len(stack') /\ stack'[i - 1] = stack[i]
      BY <1>2, <3>3
    <3> QED BY <1>1, <2>2, <3>1, <3>4 DEF Pending
  <2> QED BY <2>1, <2>2 DEF Closed, Linked
<1>9. Tidy'
  <2>1. \A i \in 1..Len(stack') : stack'[i].prg > RamStart => stack'[i].new = stack'[i].prev
    BY <1>2, <1>3 DEF Tidy
  <2>2. stack' = <<>> <=> Len(stack) = 1
    BY <1>2, EmptySeq
  <2>3. stack' # <<>> => stack'[Len(stack')].sec = stack[Len(stack)].sec
    <3>1. SUFFICES ASSUME Len(stack) # 1 PROVE stack'[m].sec = stack[Len(stack)].sec
      BY <1>2, <2>2
    <3>2. m \in 1..m /\ m + 1 = Len(stack)
      BY <1>2, <3>1
    <3> QED BY <1>2, <3>2
  <2>4. stack' # <<>> => image'.roots[Len(app'[cur'].boot) + 1] = stack'[Len(stack')].sec
    BY <1>1, <1>5, <2>3 DEF Tidy
  <2>5. IF stack' # <<>> THEN At(cur, stack[1].ref, ret)' ELSE Root(cur, Len(app[cur].boot) + 1, ret)'
    <3>1. [sec |-> f.sec, prg |-> ret'] \in Entry(cur)
      BY <1>1, <1>4 DEF At
    <3>2. CASE stack' # <<>>
      <4>1. 1 \in 1..m /\ 1 \in 1..(Len(stack) - 1)
        BY <1>2, <2>2, <3>2
      <4>2. stack[1 + 1].ref = stack[1].sec
        BY <4>1 DEF ListInv, Calls
      <4>3. stack'[1].ref = f.sec
        BY <1>1, <1>2, <4>1, <4>2
      <4> QED BY <1>5, <3>1, <3>2, <4>3 DEF At
    <3>3. CASE stack' = <<>>
      <4>1. image.roots[Len(app[cur].boot) + 1] = f.sec
        BY <1>1, <2>2, <3>3 DEF Tidy
      <4> QED BY <1>1, <1>2, <1>5, <3>1, <3>3, <4>1 DEF Root, At, image
    <3> QED BY <3>2, <3>3
  <2> QED BY <1>1, <2>1, <2>4, <2>5 DEF Tidy
<1> QED BY <1>6, <1>7, <1>8, <1>9 DEF Closed
LEMMA EndCloses ==
    ASSUME ListInv, Closed, EndIs
    PROVE  Tidy' /\ Closed'
<1>1. /\ UNCHANGED <<heap, cur, stack>> /\ pc' = "idle" /\ Len(app[cur].boot) = 3 /\ cur \in Apps
      /\ \A b \in Apps : b # cur => app'[b] = app[b]
      /\ app'[cur].entries = app[cur].entries /\ app'[cur].image = app[cur].image
      /\ app'[cur].links = app[cur].links /\ app'[cur].boot = app[cur].boot
      /\ stack = <<>> /\ app[cur].stage = "loading"
  BY DEF EndIs, ListInv, Stages, Calls
<1>2. \A b \in Apps : /\ Entry(b)' = Entry(b) /\ app'[b].image = app[b].image /\ app'[b].links = app[b].links
                      /\ app'[b].boot = app[b].boot /\ (b # cur => app'[b].stage = app[b].stage)
  BY <1>1 DEF Entry
<1>3. Rooted'
  <2> SUFFICES ASSUME NEW a \in Apps, app'[a].stage \in {"loading", "ready"}, NEW k \in 1..Len(app[a].boot)
               PROVE  Root(a, k, app[a].boot[k])'
    BY <1>2 DEF Rooted
  <2>1. app[a].stage \in {"loading", "ready"}
    BY <1>1, <1>2
  <2>2. Root(a, k, app[a].boot[k])
    BY <2>1 DEF Closed, Rooted
  <2> QED BY <1>2, <2>2 DEF Root, At
<1>4. Booted'
  BY <1>1, <1>2 DEF Closed, Booted
<1>5. Live'
  BY <1>1, <1>2 DEF Closed, Live
<1>6. Linked'
  <2> SUFFICES ASSUME NEW a \in Apps, NEW e \in Entry(a), NEW t \in app[a].image.refs[e.sec]
               PROVE  Resolved(a, e, t)' \/ Pending(a, e, t)'
    BY <1>2 DEF Linked
  <2>1. CASE Resolved(a, e, t)
    BY <1>2, <2>1 DEF Resolved
  <2>2. CASE Pending(a, e, t)
    BY <1>1, <2>2 DEF Pending
  <2> QED BY <2>1, <2>2 DEF Closed, Linked
<1>7. Tidy'
  BY <1>1, EmptySeq DEF Tidy
<1> QED BY <1>3, <1>4, <1>5, <1>6, <1>7 DEF Closed

(* Programs whose lists are emptied by a clean-up, the others untouched.    *)
LEMMA CleanCloses ==
    ASSUME ListInv, Closed, pc = "idle", UNCHANGED stack, pc' # "place", pc' # "ret",
           app' \in [Apps -> {NoApp} \cup AppType],
           \A b \in Apps : app'[b] = app[b] \/ (app'[b].entries = <<>>
                             /\ (app'[b].stage = "gone" \/ (app'[b].boot = <<>> /\ app'[b].stage # "ready"))),
           \A b \in Apps, s \in Sections :
             app'[b].entries # <<>> => heap'[<<b, s>>] = heap[<<b, s>>]
    PROVE  Tidy' /\ Closed'
<1>1. stack = <<>> /\ stack' = <<>> /\ Len(stack) = 0 /\ Len(stack') = 0
  BY EmptySeq DEF ListInv, Calls
<1>2. \A b \in Apps : (app'[b].entries = <<>> /\ Entry(b)' = {}) \/ (app'[b] = app[b] /\ Entry(b)' = Entry(b))
  BY EmptySeq DEF Entry
<1>3. Rooted'
  <2> SUFFICES ASSUME NEW a \in Apps, app'[a].stage \in {"loading", "ready"}, NEW k \in 1..Len(app'[a].boot)
               PROVE  Root(a, k, app[a].boot[k])'
    BY DEF Rooted
  <2>1. app'[a].boot # <<>>
    BY EmptySeq
  <2>2. app'[a] = app[a]
    BY <2>1
  <2>3. Root(a, k, app[a].boot[k])
    BY <2>2 DEF Closed, Rooted
  <2>4. Entry(a)' = Entry(a)
    BY <2>2 DEF Entry
  <2> QED BY <2>2, <2>3, <2>4 DEF Root, At
<1>4. Booted'
  BY DEF Closed, Booted
<1>5. Live'
  <2> SUFFICES ASSUME NEW b \in Apps, NEW e \in Entry(b)', e.prg > RamStart
               PROVE  heap'[<<b, e.sec>>] = "live"
    BY DEF Live
  <2>1. app'[b] = app[b] /\ e \in Entry(b) /\ app'[b].entries # <<>>
    <3>1. Entry(b)' # {}
      OBVIOUS
    <3>2. app'[b].entries # <<>>
      BY <3>1, EmptySeq DEF Entry
    <3> QED BY <1>2, <3>2
  <2>2. e.sec \in Sections
    <3>1. app \in [Apps -> {NoApp} \cup AppType]
      BY DEF ListInv, LoaderTypeOK
    <3>2. Entry(b) \subseteq EntryType
      BY <3>1, AppFacts
    <3> QED BY <2>1, <3>2 DEF EntryType
  <2>3. heap[<<b, e.sec>>] = "live"
    BY <2>1 DEF Closed, Live
  <2> QED BY <2>1, <2>2, <2>3
<1>6. Linked'
  <2> SUFFICES ASSUME NEW a \in Apps, NEW e \in Entry(a)', NEW t \in app'[a].image.refs[e.sec]
               PROVE  Resolved(a, e, t)' \/ Pending(a, e, t)'
    BY DEF Linked
  <2>1. app'[a] = app[a] /\ Entry(a)' = Entry(a)
    BY <1>2
  <2>2. Resolved(a, e, t)
    BY <1>1, <2>1 DEF Closed, Linked, Pending
  <2> QED BY <2>1, <2>2 DEF Resolved
<1>7. Tidy'
  BY <1>1 DEF Tidy
<1> QED BY <1>3, <1>4, <1>5, <1>6, <1>7 DEF Closed

(* A program's end, as the others see it.                                   *)
EndsIs(a) ==
    /\ CleanedUp(a) /\ app[a].stage = "ready" /\ hazards \subseteq hazards' /\ (pc # "idle" => hazards' # {})
    /\ UNCHANGED <<lst, file, flash, pc, cur, useFlash, stack, ret, addr, top, buffer>>
    /\ app' \in [Apps -> {NoApp} \cup AppType]
    /\ app'[a].stage = "gone" /\ app'[a].entries = <<>>
    /\ \A b \in Apps : b # a => app'[b] = app[b]
LEMMA Gone ==
    ASSUME ListInv, NEW a \in Apps, End(a)
    PROVE  EndsIs(a)
<1>1. CleanedUp(a) /\ app[a].stage = "ready"
  BY CleanUp DEF ListInv, End
<1>2. /\ UNCHANGED <<lst, file, flash, pc, cur, useFlash, stack, ret, addr, top, buffer>>
      /\ hazards \subseteq hazards' /\ (pc # "idle" => hazards' # {})
  BY DEF End, LoaderVars
<1>3. AppFunction /\ app[a] \in AppType
  BY <1>1, AppFacts DEF ListInv, LoaderTypeOK, AppFunction
<1>4. PICK r \in AppType : r = Unloaded(app[a]) /\ r.stage = "gone" /\ r.entries = <<>>
  BY <1>3, UnloadedIs
<1>5. app' \in [Apps -> {NoApp} \cup AppType] /\ OneApp(a, r)
  <2>1. app' = [app EXCEPT ![a] = r]
    BY <1>4 DEF End
  <2> QED BY <1>3, <2>1, AppSet
<1> QED BY <1>1, <1>2, <1>4, <1>5 DEF OneApp, EndsIs

LEMMA GoneCloses ==
    ASSUME ListInv, Closed, Calm', NEW a \in Apps, EndsIs(a)
    PROVE  Tidy' /\ Closed'
<1>1. pc = "idle" /\ pc' = "idle" /\ UNCHANGED stack /\ CleanedUp(a)
  BY DEF EndsIs, Calm
<1>2. /\ app' \in [Apps -> {NoApp} \cup AppType]
      /\ app'[a].stage = "gone" /\ app'[a].entries = <<>>
      /\ \A b \in Apps : b # a => app'[b] = app[b]
  BY DEF EndsIs
<1>3. \A b \in Apps, s \in Sections : app'[b].entries # <<>> => heap'[<<b, s>>] = heap[<<b, s>>]
  BY <1>1, <1>2 DEF CleanedUp
<1> QED BY <1>1, <1>2, <1>3, CleanCloses

LEMMA NewAppCloses ==
    ASSUME ListInv, Closed, NEW a \in Apps, NEW i \in Images, NEW byFlash, NewAppIs(a, i, byFlash)
    PROVE  Tidy' /\ Closed'
<1>1. /\ pc = "idle" /\ pc' = "roots" /\ UNCHANGED stack /\ app[a].stage = "none"
      /\ app' \in [Apps -> {NoApp} \cup AppType]
      /\ app'[a].stage = "loading" /\ app'[a].entries = <<>> /\ app'[a].boot = <<>>
      /\ \A b \in Apps : b # a =>
         IF app[b].stage = "failed" THEN app'[b].stage = "gone" /\ app'[b].entries = <<>>
         ELSE app'[b] = app[b]
  BY DEF NewAppIs, Started
<1>2. \A b \in Apps, s \in Sections : app'[b].entries # <<>> => heap'[<<b, s>>] = heap[<<b, s>>]
  <2> SUFFICES ASSUME NEW b \in Apps, NEW s \in Sections, app'[b].entries # <<>>
               PROVE  heap'[<<b, s>>] = heap[<<b, s>>]
    OBVIOUS
  <2>1. b # a /\ app[b].stage # "failed"
    BY <1>1
  <2>2. UNCHANGED heap \/ \E c \in Apps : app[c].stage = "failed" /\ CleanedUp(c)
    BY DEF NewAppIs
  <2>3. ASSUME NEW c \in Apps, app[c].stage = "failed", CleanedUp(c)
        PROVE  heap'[<<b, s>>] = heap[<<b, s>>]
    BY <2>1, <2>3 DEF CleanedUp
  <2> QED BY <2>2, <2>3
<1>3. \A b \in Apps : app'[b] = app[b] \/ (app'[b].entries = <<>>
                             /\ (app'[b].stage = "gone" \/ (app'[b].boot = <<>> /\ app'[b].stage # "ready")))
  BY <1>1
<1> QED BY <1>1, <1>2, <1>3, CleanCloses
LEMMA ClosedInitially == Init => ClosedInv
<1> SUFFICES ASSUME Init PROVE Tidy /\ Closed
  BY DEF ClosedInv
<1>1. \A a \in Apps : app[a] = NoApp
  BY DEF Init
<1>2. \A a \in Apps : app[a].stage = "none" /\ Entry(a) = {}
  BY <1>1, EmptySeq DEF NoApp, Entry
<1>3. stack = <<>> /\ Len(stack) = 0 /\ pc = "idle"
  BY EmptySeq DEF Init
<1> QED BY <1>2, <1>3 DEF Tidy, Closed, Rooted, Booted, Linked, Live

LEMMA NextCloses ==
    ASSUME ListInv, ClosedInv, [Next]_vars
    PROVE  ClosedInv'
<1>0. hazards \subseteq hazards'
  BY DEF Next, Loader, vars, load_app, End, load_sec2mem_wrapper, Place, Relocate, Returned, Complete,
         WriteFlashMe, Unwritten, Wrapped, FailOwn, FailNested, Fail, StartFlash, Program, ProgramPart,
         GiveUp, LoadEnds
<1> SUFFICES ASSUME Calm' PROVE Tidy' /\ Closed'
  BY DEF ClosedInv
<1>t. Calm /\ Tidy /\ Closed
  BY <1>0 DEF Calm, ClosedInv
<1>1. ASSUME NEW a \in Apps, NEW i \in Images, NEW byFlash \in BOOLEAN, load_app(a, i, byFlash)
      PROVE  Tidy' /\ Closed'
  BY <1>1, <1>t, NewApp, NewAppCloses
<1>2. ASSUME NEW a \in Apps, End(a)
      PROVE  Tidy' /\ Closed'
  BY <1>2, <1>t, Gone, GoneCloses
<1>q. ASSUME UNCHANGED <<app, heap, stack, cur>>, pc' # "place", pc' # "ret",
             pc \in {"place", "link", "ret"} => \A i : Placed(i)
      PROVE  Tidy' /\ Closed'
  <2>1. Closed'
    BY <1>t, <1>q, ClosedStands
  <2>2. image' = image
    BY <1>q DEF image
  <2>3. \A i \in 1..Len(stack) : Placed(i)
    BY <1>q DEF Placed
  <2>4. \A i \in 1..Len(stack') : stack'[i].prg > RamStart => stack'[i].new = stack'[i].prev
    BY <1>q, <1>t, <2>3 DEF Tidy
  <2>5. stack' # <<>> => image'.roots[Len(app'[cur'].boot) + 1] = stack'[Len(stack')].sec
    BY <1>q, <1>t, <2>2 DEF Tidy
  <2>6. Tidy'
    BY <1>q, <2>4, <2>5 DEF Tidy
  <2> QED BY <2>1, <2>6
<1>3. CASE load_sec2mem_wrapper
  <2>1. /\ pc = "roots" /\ stack = <<>>
        /\ \/ /\ image.roots[Len(app[cur].boot) + 1] = 0 /\ pc' = "ret" /\ ret' = 0
              /\ UNCHANGED <<app, heap, faults, flash_addr, lst, cur, useFlash, hazards, stack>> /\ FlashSame
           \/ CallIs(image.roots[Len(app[cur].boot) + 1])
    BY <1>3, WrapperCalls
  <2>2. CASE CallIs(image.roots[Len(app[cur].boot) + 1])
    BY <1>t, <2>1, <2>2, CallCloses
  <2>3. CASE /\ image.roots[Len(app[cur].boot) + 1] = 0 /\ pc' = "ret" /\ ret' = 0
             /\ UNCHANGED <<app, heap, flash_addr, cur, stack>>
    <3>1. Closed'
      BY <1>t, <2>3, ClosedStands
    <3>2. Root(cur, Len(app[cur].boot) + 1, ret)'
      BY <2>3 DEF Root, image
    <3>3. stack' = <<>> /\ Len(stack') = 0
      BY <2>1, <2>3, EmptySeq
    <3>4. Tidy'
      BY <2>3, <3>2, <3>3 DEF Tidy
    <3> QED BY <3>1, <3>4
  <2> QED BY <2>1, <2>2, <2>3
<1>4. CASE Place
  BY <1>4, <1>t, Placing, PlaceCloses
<1>5. CASE Relocate
  <2>1. pc = "link" /\ stack # <<>>
    BY <1>5, RelocateIs
  <2>2. PICK s : \/ s = stack[1].sec /\ LinkIs(s, stack[1].prg)
                 \/ CallIs(s)
    BY <1>5, RelocateIs
  <2>3. At(cur, stack[1].sec, stack[1].prg)
    <3>1. 1 \in 1..Len(stack)
      BY <2>1, StackFacts DEF ListInv
    <3> QED BY <2>1, <3>1 DEF ListInv, Calls, Placed
  <2>4. CASE CallIs(s)
    BY <1>t, <2>1, <2>4, CallCloses
  <2>5. CASE s = stack[1].sec /\ LinkIs(s, stack[1].prg)
    <3>1. PICK p : p = stack[1].prg
      OBVIOUS
    <3>2. LinkIs(s, p) /\ At(cur, s, p)
      BY <2>3, <2>5, <3>1
    <3> QED BY <1>t, <2>1, <3>2, LinkCloses
  <2> QED BY <2>2, <2>4, <2>5
<1>6. CASE Returned
  <2>1. pc = "ret" /\ (BootIs \/ (stack # <<>> /\ ret # 0 /\ LinkIs(stack[1].ref, ret)))
    BY <1>6, ReturnedIs
  <2>2. CASE BootIs
    BY <1>t, <2>1, <2>2, BootCloses
  <2>3. CASE stack # <<>> /\ LinkIs(stack[1].ref, ret)
    <3>1. PICK s, p : s = stack[1].ref /\ p = ret
      OBVIOUS
    <3>2. LinkIs(s, p) /\ At(cur, s, p)
      BY <1>t, <2>1, <2>3, <3>1 DEF Tidy
    <3> QED BY <1>t, <2>1, <2>3, <3>2, LinkCloses
  <2> QED BY <2>1, <2>2, <2>3
<1>7. CASE Complete
  BY <1>7, <1>t, Completing, CompleteCloses
<1>8. CASE Wrapped
  BY <1>8, <1>q DEF Wrapped, HeapVars, Placed
<1>9. CASE FailOwn \/ FailNested
  <2>1. hazards' # {}
    BY <1>9, Failing DEF FailIs
  <2> QED BY <2>1 DEF Calm
<1>10. CASE StartFlash \/ Program \/ ProgramPart \/ GiveUp
  BY <1>10, <1>q DEF StartFlash, Program, ProgramPart, GiveUp, HeapVars, LoaderVars
<1>11. CASE LoadEnds
  BY <1>11, <1>t, Ending, EndCloses
<1>12. CASE UNCHANGED vars
  <2>1. UNCHANGED <<app, heap, stack, cur, pc, ret, flash_addr>>
    BY <1>12 DEF vars, HeapVars, LoaderVars
  <2>2. Closed'
    BY <1>t, <2>1, ClosedStands
  <2>3. Tidy'
    BY <1>t, <2>1 DEF Tidy, Placed, Root, At, Entry, image
  <2> QED BY <2>2, <2>3
<1> QED BY <1>1, <1>2, <1>3, <1>4, <1>5, <1>6, <1>7, <1>8, <1>9, <1>10, <1>11, <1>12 DEF Next, Loader

(* A list that names no section twice has as many sections as entries.      *)
LEMMA OneEntryEach ==
    ASSUME ListInv, NEW a \in Apps
    PROVE  Cardinality({e.sec : e \in Entry(a)}) = Len(app[a].entries)
<1> DEFINE n == Len(app[a].entries)
           S == {e.sec : e \in Entry(a)}
           f == [k \in 1..n |-> app[a].entries[k].sec]
<1>1. n \in Nat /\ DOMAIN app[a].entries = 1..n
  BY AppFacts DEF ListInv, LoaderTypeOK
<1>2. S = {app[a].entries[k].sec : k \in 1..n}
  BY <1>1 DEF Entry
<1>3. f \in Bijection(1..n, S)
  BY <1>2 DEF Bijection, Injection, IsInjective, Surjection, ListInv, Distinct
<1>4. IsFiniteSet(1..n) /\ Cardinality(1..n) = n
  <2>1. IsFiniteSet(1..n) /\ Cardinality(1..n) = IF 1 > n THEN 0 ELSE n - 1 + 1
    BY <1>1, FS_Interval
  <2> QED BY <1>1, <2>1
<1>5. Cardinality(S) = Cardinality(1..n)
  <2>1. ExistsBijection(1..n, S)
    BY <1>3 DEF ExistsBijection
  <2> HIDE DEF S, n
  <2> QED BY <1>4, <2>1, FS_Bijection
<1> QED BY <1>4, <1>5

(* load_app's success means a closed image, also where sections refer to    *)
(* each other: every relocation was resolved against the one address of its *)
(* target, every entry point is that of its section, nothing is freed.      *)
THEOREM ClosedImages == Spec => []LoadComplete
<1>1. ListInv /\ ClosedInv => LoadComplete
  <2> SUFFICES ASSUME ListInv, ClosedInv, Calm, NEW a \in Apps, app[a].stage = "ready"
               PROVE  LET at(s) == {e \in Entry(a) : e.sec = s}
                          i == app[a].image
                      IN  /\ Cardinality({e.sec : e \in Entry(a)}) = Len(app[a].entries)
                          /\ \A k \in 1..3 : i.roots[k] # 0 => \E e \in at(i.roots[k]) : e.prg = app[a].boot[k]
                          /\ \A e \in Entry(a) : \A s \in i.refs[e.sec] :
                               \E g \in at(s) : <<e.sec, s, g.prg>> \in app[a].links
                          /\ \A e \in Entry(a) : e.prg > RamStart => heap[<<a, e.sec>>] = "live"
    BY DEF LoadComplete, Ready
  <2> DEFINE at(s) == {e \in Entry(a) : e.sec = s}
             i == app[a].image
  <2>1. Cardinality({e.sec : e \in Entry(a)}) = Len(app[a].entries)
    BY OneEntryEach
  <2>2. ASSUME NEW k \in 1..3, i.roots[k] # 0
        PROVE  \E e \in at(i.roots[k]) : e.prg = app[a].boot[k]
    <3>1. Root(a, k, app[a].boot[k])
      BY DEF ClosedInv, Closed, Booted, Rooted
    <3>2. [sec |-> i.roots[k], prg |-> app[a].boot[k]] \in Entry(a)
      BY <2>2, <3>1 DEF Root, At
    <3> QED BY <3>2
  <2>3. ASSUME NEW e \in Entry(a), NEW s \in i.refs[e.sec]
        PROVE  \E g \in at(s) : <<e.sec, s, g.prg>> \in app[a].links
    <3>1. ~Pending(a, e, s)
      <4>1. a = cur => pc = "idle" /\ stack = <<>> /\ Len(stack) = 0
        BY EmptySeq DEF ListInv, Stages, Calls
      <4> QED BY <4>1 DEF Pending
    <3>2. Resolved(a, e, s)
      BY <2>3, <3>1 DEF ClosedInv, Closed, Linked
    <3> QED BY <3>2 DEF Resolved
  <2>4. \A e \in Entry(a) : e.prg > RamStart => heap[<<a, e.sec>>] = "live"
    BY DEF ClosedInv, Closed, Live
  <2> QED BY <2>1, <2>2, <2>3, <2>4
<1>2. Init => ListInv /\ ClosedInv
  BY ListInitially, ClosedInitially
<1>3. ListInv /\ ClosedInv /\ [Next]_vars => ListInv' /\ ClosedInv'
  BY NextLists, NextCloses
<1> QED BY <1>1, <1>2, <1>3, PTL DEF Spec
-----------------------------------------------------------------------------
(* The layout of the flash, in loads that met no failure and no clean-up:   *)
(* programs lie one behind the other, each from the start of a sector, the  *)
(* sectors of those that are loaded are recorded, and flash_addr is behind  *)
(* them all except while the sectors of the last are being programmed.      *)
Even(n) == n % Sector = 0
EndOf(a, e) == e.prg + app[a].image.size[e.sec]
Before(a, b) == \A e \in InFlash(a), g \in InFlash(b) : EndOf(a, e) <= g.prg
Covered(u) == \E r \in flash_list.recs : r <= u /\ u < r + Sector
Loads(a) == a = cur /\ pc # "idle"
Nested(a) == a = cur /\ pc \notin {"idle", "flash"}
OnStack(e) == \E i \in 1..Len(stack) : Placed(i) /\ stack[i].sec = e.sec /\ stack[i].prg = e.prg

InBounds == \A a \in Apps : \A e \in InFlash(a) : EndOf(a, e) <= FlashTop
EvenRecords == \A r \in flash_list.recs : Even(r)
FirstIn(a, f) == f \in InFlash(a) /\ Even(f.prg) /\ \A g \in InFlash(a) : f.prg <= g.prg
EvenFirst == \A a \in Apps : InFlash(a) # {} => \E f : FirstIn(a, f)
Ordered == \A a, b \in Apps : a # b => Before(a, b) \/ Before(b, a)
LastLoaded == \A a, b \in Apps : Loads(b) /\ a # b => Before(a, b)
Apart == \A a \in Apps : \A e, g \in InFlash(a) : e # g => EndOf(a, e) <= g.prg \/ EndOf(a, g) <= e.prg
Recorded == \A a \in Apps : ~Loads(a) => \A e \in InFlash(a) :
              \A u \in Nat : e.prg <= u /\ u < EndOf(a, e) => Covered(u)
NoFlash == \A a \in Apps : Loads(a) /\ ~useFlash => InFlash(a) = {}
Below == /\ \A r \in flash_list.recs : r + Sector <= flash_addr
         /\ \A a \in Apps : \A e \in InFlash(a) : EndOf(a, e) <= flash_addr
EvenNext == Even(flash_addr) \/ \E i \in 1..Len(stack) : Placed(i) /\ stack[i].prg <= RamStart
Layout == /\ InBounds /\ EvenRecords /\ EvenFirst /\ Ordered /\ LastLoaded /\ Apart
          /\ Recorded /\ NoFlash /\ (pc # "flash" => Below) /\ EvenNext
          /\ (pc \in {"idle", "flash"} => lst = {})

(* What the loader notes of the sections it has placed in flash.            *)
FlashFrames == \A i \in 1..Len(stack) : Placed(i) /\ stack[i].prg <= RamStart =>
                 /\ stack[i].new = stack[i].prg + image.size[stack[i].sec]
                 /\ stack[i].prev <= stack[i].prg
FileHas(a, e) == /\ file.app = a /\ file.sec = e.sec /\ file.from = e.prg
                 /\ file.data = EndOf(a, e) /\ file.data <= file.to
Noted == \A a \in Apps : Nested(a) =>
           /\ \A g \in InFlash(a), r \in flash_list.recs : r + Sector <= g.prg
           /\ \A o \in lst : \E e \in InFlash(a) : o.offset = e.prg
           /\ \A e \in InFlash(a) : OnStack(e) \/
                \E o \in lst : o.offset = e.prg /\ EndOf(a, e) <= o.offset + o.size
           /\ \A e : InFlash(a) = {e} => OnStack(e) \/ FileHas(a, e)

(* The programming loop: below addr everything is recorded.                 *)
Holds(a, e, u) == e.prg <= u /\ u < EndOf(a, e) => flash[u] = <<a, e.sec>>
Progress(a, f) ==
    /\ FirstIn(a, f) /\ \A g \in InFlash(a) : EndOf(a, g) <= top
    /\ Even(addr) /\ f.prg <= addr /\ (addr = f.prg \/ flash_addr = addr)
    /\ \A r \in flash_list.recs : r + Sector <= addr
    /\ \A u \in Nat : f.prg <= u /\ u < addr => Covered(u)
    /\ InFlash(a) = {f} => FileHas(a, f) /\ \A u \in Nat : u < addr => Holds(a, f, u)
Flashing == \A a \in Apps : a = cur /\ pc = "flash" =>
              (InFlash(a) = {} /\ addr >= top /\ Below) \/ \E f : Progress(a, f)
Written == \A a \in Apps : ~Loads(a) => \A e : InFlash(a) = {e} => \A u \in Nat : Holds(a, e, u)

FlashInv == Calm => Layout /\ FlashFrames /\ Noted /\ Flashing /\ Written

LEMMA EvenFacts ==
    ASSUME NEW m \in Nat, Even(m)
    PROVE  /\ Even(m + Sector) /\ \A n \in Nat : Even(n) => n # m + 1
           /\ \A u \in Nat : u \div Sector = m \div Sector <=> u = m \/ u = m + 1
<1>1. PICK q \in Nat : m = 2 * q
  <2>1. m = 2 * (m \div 2) + (m % 2) /\ m \div 2 \in Nat
    OBVIOUS
  <2> QED BY <2>1 DEF Even, Sector
<1>2. (m + 2) % 2 = 0 /\ \A n \in Nat : n % 2 = 0 => n # m + 1
  BY <1>1
<1>3. \A u \in Nat : u \div 2 = q <=> u = 2 * q \/ u = 2 * q + 1
  OBVIOUS
<1>4. m \div 2 = q
  BY <1>1
<1> QED BY <1>1, <1>2, <1>3, <1>4 DEF Even, Sector

LEMMA SizeFacts ==
    ASSUME ListInv, NEW a \in Apps, NEW e \in Entry(a)
    PROVE  e.sec \in Sections /\ e.prg \in Nat /\ app[a].image.size[e.sec] \in Nat \ {0}
<1>1. Entry(a) \subseteq EntryType /\ (app[a].entries = <<>> => Entry(a) = {})
  BY AppFacts DEF ListInv, LoaderTypeOK
<1>2. app[a].stage # "none"
  <2>1. app[a].stage = "none" => app[a] = NoApp
    BY AppFacts DEF ListInv, LoaderTypeOK
  <2>2. app[a].stage = "none" => app[a].entries = <<>>
    BY <2>1 DEF NoApp
  <2> QED BY <1>1, <2>2
<1>3. app[a].image \in Images
  BY <1>2, AppFacts DEF ListInv, LoaderTypeOK
<1>4. app[a].image.size \in [Sections -> Nat \ {0}]
  BY <1>3, ImageFacts
<1>5. e.sec \in Sections /\ e.prg \in Nat
  BY <1>1 DEF EntryType
<1> QED BY <1>4, <1>5

LEMMA SpanFacts ==
    ASSUME ListInv, NEW a \in Apps
    PROVE  /\ InFlash(a) \subseteq Entry(a)
           /\ \A e \in InFlash(a) : /\ e \in EntryType /\ e.sec \in Sections /\ e.prg \in Nat
                                    /\ e.prg <= RamStart /\ EndOf(a, e) \in Nat /\ e.prg < EndOf(a, e)
                                    /\ e = [sec |-> e.sec, prg |-> e.prg]
           /\ \A e \in Entry(a) : e.prg <= RamStart => e \in InFlash(a)
           /\ app[a].entries = <<>> => InFlash(a) = {}
<1>1. InFlash(a) = {e \in Entry(a) : e.prg <= RamStart}
  BY DEF InFlash, Entry
<1>2. Entry(a) \subseteq EntryType /\ (app[a].entries = <<>> => Entry(a) = {})
  BY AppFacts DEF ListInv, LoaderTypeOK
<1>3. ASSUME NEW e \in InFlash(a)
      PROVE  EndOf(a, e) \in Nat /\ e.prg < EndOf(a, e)
  BY <1>1, SizeFacts DEF EndOf
<1> QED BY <1>1, <1>2, <1>3 DEF EntryType

(* No step but Place and the clean-ups changes what a program has in flash. *)
FlashStays == \A a \in Apps : InFlash(a)' = InFlash(a) /\ \A e \in InFlash(a) : EndOf(a, e)' = EndOf(a, e)
LEMMA Stays ==
    ASSUME \A a \in Apps : app'[a].entries = app[a].entries /\ app'[a].image = app[a].image
    PROVE  FlashStays
<1>1. \A a \in Apps : InFlash(a)' = InFlash(a)
  BY DEF InFlash
<1> QED BY <1>1 DEF FlashStays, EndOf

LEMMA SpansStay ==
    ASSUME FlashStays, Layout
    PROVE  /\ InBounds' /\ Ordered' /\ Apart'
           /\ \A a, b \in Apps : Before(a, b)' <=> Before(a, b)
           /\ \A a \in Apps : \A f : FirstIn(a, f) <=> FirstIn(a, f)'
           /\ EvenFirst'
<1>1. \A a, b \in Apps : Before(a, b)' <=> Before(a, b)
  BY DEF FlashStays, Before
<1>2. InBounds'
  BY DEF FlashStays, Layout, InBounds
<1>3. Ordered'
  BY <1>1 DEF Layout, Ordered
<1>4. Apart'
  <2> SUFFICES ASSUME NEW a \in Apps, NEW e \in InFlash(a), NEW g \in InFlash(a), e # g
               PROVE  EndOf(a, e)' <= g.prg \/ EndOf(a, g)' <= e.prg
    BY DEF FlashStays, Apart
  <2>1. EndOf(a, e) <= g.prg \/ EndOf(a, g) <= e.prg
    BY DEF Layout, Apart
  <2> QED BY <2>1 DEF FlashStays
<1>5. \A a \in Apps : \A f : FirstIn(a, f) <=> FirstIn(a, f)'
  BY DEF FlashStays, FirstIn
<1>6. EvenFirst'
  BY <1>5 DEF FlashStays, Layout, EvenFirst
<1> QED BY <1>1, <1>2, <1>3, <1>4, <1>5, <1>6

(* The steps of load_sec2mem that place nothing and complete nothing in     *)
(* flash: the frames with a section in flash stay on the stack.             *)
CallStep ==
    /\ pc \in {"roots", "place", "link", "ret"} /\ pc' \in {"roots", "place", "link", "ret"}
    /\ UNCHANGED <<flash_list, flash, file, lst, flash_addr, cur, useFlash>> /\ image' = image
    /\ \A i \in 1..Len(stack) : Placed(i) /\ stack[i].prg <= RamStart =>
         \E j \in 1..Len(stack') : Placed(j)' /\ stack'[j].sec = stack[i].sec /\ stack'[j].prg = stack[i].prg
    /\ \A j \in 1..Len(stack') : Placed(j)' /\ stack'[j].prg <= RamStart =>
         \E i \in 1..Len(stack) : /\ Placed(i) /\ stack'[j].sec = stack[i].sec /\ stack'[j].prg = stack[i].prg
                                  /\ stack'[j].new = stack[i].new /\ stack'[j].prev = stack[i].prev

LEMMA CallsFlash ==
    ASSUME ListInv, Layout, FlashFrames, Noted, Written, FlashStays, CallStep
    PROVE  Layout' /\ FlashFrames' /\ Noted' /\ Flashing' /\ Written'
<1>1. /\ pc \notin {"idle", "flash"} /\ pc' \notin {"idle", "flash"} /\ image' = image
      /\ UNCHANGED <<flash_list, flash, file, lst, flash_addr, cur, useFlash>>
  BY DEF CallStep
<1>2. /\ InBounds' /\ Ordered' /\ Apart' /\ EvenFirst'
      /\ \A a, b \in Apps : Before(a, b)' <=> Before(a, b)
  BY SpansStay
<1>3. \A a : (Loads(a)' <=> Loads(a)) /\ (Nested(a)' <=> Nested(a))
  BY <1>1 DEF Loads, Nested
<1>4. \A u : Covered(u)' <=> Covered(u)
  BY <1>1 DEF Covered
<1>5. EvenRecords' /\ LastLoaded'
  BY <1>1, <1>2, <1>3 DEF Layout, EvenRecords, LastLoaded, Even
<1>6. Recorded'
  BY <1>3, <1>4 DEF Layout, Recorded, FlashStays
<1>7. NoFlash'
  BY <1>1, <1>3 DEF Layout, NoFlash, FlashStays
<1>8. Below'
  BY <1>1 DEF Layout, Below, FlashStays
<1>9. EvenNext'
  <2>1. CASE Even(flash_addr)
    BY <1>1, <2>1 DEF EvenNext, Even
  <2>2. CASE ~Even(flash_addr)
    <3>1. PICK i \in 1..Len(stack) : Placed(i) /\ stack[i].prg <= RamStart
      BY <2>2 DEF Layout, EvenNext
    <3>2. PICK j \in 1..Len(stack') : Placed(j)' /\ stack'[j].prg = stack[i].prg
      BY <3>1 DEF CallStep
    <3> QED BY <3>1, <3>2 DEF EvenNext
  <2> QED BY <2>1, <2>2
<1>10. Layout'
  BY <1>1, <1>2, <1>5, <1>6, <1>7, <1>8, <1>9 DEF Layout
<1>11. FlashFrames'
  <2> SUFFICES ASSUME NEW j \in 1..Len(stack'), Placed(j)', stack'[j].prg <= RamStart
               PROVE  /\ stack'[j].new = stack'[j].prg + image'.size[stack'[j].sec]
                      /\ stack'[j].prev <= stack'[j].prg
    BY DEF FlashFrames
  <2>1. PICK i \in 1..Len(stack) : /\ Placed(i) /\ stack'[j].sec = stack[i].sec /\ stack'[j].prg = stack[i].prg
                                   /\ stack'[j].new = stack[i].new /\ stack'[j].prev = stack[i].prev
    BY DEF CallStep
  <2> QED BY <1>1, <2>1 DEF FlashFrames
<1>12. Noted'
  <2> SUFFICES ASSUME NEW a \in Apps, Nested(a)
               PROVE  /\ \A g \in InFlash(a), r \in flash_list.recs : r + Sector <= g.prg
                      /\ \A o \in lst : \E e \in InFlash(a) : o.offset = e.prg
                      /\ \A e \in InFlash(a) : OnStack(e)' \/
                           \E o \in lst : o.offset = e.prg /\ EndOf(a, e)' <= o.offset + o.size
                      /\ \A e : InFlash(a) = {e} => OnStack(e)' \/ FileHas(a, e)'
    BY <1>1, <1>3 DEF Noted, FlashStays
  <2>1. ASSUME NEW e \in InFlash(a), OnStack(e)
        PROVE  OnStack(e)'
    <3>1. PICK i \in 1..Len(stack) : Placed(i) /\ stack[i].sec = e.sec /\ stack[i].prg = e.prg
      BY <2>1 DEF OnStack
    <3>2. e.prg <= RamStart
      BY SpanFacts
    <3>3. PICK j \in 1..Len(stack') : Placed(j)' /\ stack'[j].sec = stack[i].sec /\ stack'[j].prg = stack[i].prg
      BY <3>1, <3>2 DEF CallStep
    <3> QED BY <3>1, <3>3 DEF OnStack
  <2>2. \A e \in InFlash(a) : FileHas(a, e) => FileHas(a, e)'
    BY <1>1 DEF FileHas, FlashStays
  <2> QED BY <2>1, <2>2 DEF Noted, FlashStays
<1>13. Flashing'
  BY <1>1 DEF Flashing
<1>14. Written'
  BY <1>1, <1>3 DEF Written, Holds, FlashStays
<1> QED BY <1>10, <1>11, <1>12, <1>13, <1>14

LEMMA CallIsStep ==
    ASSUME ListInv, pc \in {"roots", "link"}, NEW s, CallIs(s)
    PROVE  CallStep /\ FlashStays
<1>1. /\ UNCHANGED <<app, flash_list, flash, file, lst, flash_addr, cur, useFlash>> /\ pc' \in {"ret", "place"}
      /\ Len(stack) \in Nat /\ \A i : Placed(i)
  BY StackFacts DEF CallIs, FlashSame, ListInv, Placed
<1>2. FlashStays /\ image' = image
  BY <1>1, Stays DEF image
<1>3. CASE pc' = "ret"
  <2>1. Len(stack') = Len(stack) /\ \A i \in 1..Len(stack) : Placed(i)' /\ SameFrame(stack'[i], stack[i])
    BY <1>3 DEF CallIs, Placed
  <2> QED BY <1>1, <1>2, <2>1 DEF CallStep, SameFrame
<1>4. CASE pc' # "ret"
  <2>1. pc' = "place" /\ Len(stack') = Len(stack) + 1 /\ \A i \in 1..Len(stack) : SameFrame(stack'[i + 1], stack[i])
    BY <1>4 DEF CallIs
  <2>2. \A i \in 1..Len(stack) : i + 1 \in 1..Len(stack') /\ Placed(i + 1)'
    BY <1>1, <2>1 DEF Placed
  <2>3. ASSUME NEW j \in 1..Len(stack'), Placed(j)'
        PROVE  j - 1 \in 1..Len(stack) /\ SameFrame(stack'[j], stack[j - 1])
    <3>1. j # 1
      BY <2>1, <2>3 DEF Placed
    <3>2. j - 1 \in 1..Len(stack) /\ (j - 1) + 1 = j
      BY <1>1, <2>1, <3>1
    <3> QED BY <2>1, <3>2
  <2> QED BY <1>1, <1>2, <2>1, <2>2, <2>3 DEF CallStep, SameFrame
<1> QED BY <1>3, <1>4

LEMMA LinkIsStep ==
    ASSUME ListInv, pc \in {"link", "ret"}, stack # <<>>, NEW s, NEW p, LinkIs(s, p)
    PROVE  CallStep /\ FlashStays
<1>1. /\ UNCHANGED <<flash_list, flash, file, lst, flash_addr, cur, useFlash>> /\ pc' = "link"
      /\ Len(stack') = Len(stack) /\ \A i : Placed(i) /\ Placed(i)'
      /\ \A b \in Apps : b # cur => app'[b] = app[b]
      /\ app'[cur].image = app[cur].image /\ app'[cur].entries = app[cur].entries
  BY DEF LinkIs, FlashSame, Placed
<1>2. 1 \in 1..Len(stack) /\ Len(stack) \in Nat /\ stack[1] \in FrameType /\ cur \in Apps
  BY StackFacts, Loading DEF ListInv
<1>3. FlashStays /\ image' = image
  BY <1>1, <1>2, Stays DEF image
<1>4. \A i \in 1..Len(stack) : /\ stack'[i].sec = stack[i].sec /\ stack'[i].prg = stack[i].prg
                               /\ stack'[i].new = stack[i].new /\ stack'[i].prev = stack[i].prev
  <2>1. /\ stack'[1].sec = stack[1].sec /\ stack'[1].prg = stack[1].prg
        /\ stack'[1].new = stack[1].new /\ stack'[1].prev = stack[1].prev
    BY <1>2 DEF LinkIs, FrameType
  <2>2. \A i \in 2..Len(stack) : stack'[i] = stack[i]
    BY DEF LinkIs
  <2>3. \A i \in 1..Len(stack) : i = 1 \/ i \in 2..Len(stack)
    BY <1>2
  <2> QED BY <2>1, <2>2, <2>3
<1> QED BY <1>1, <1>3, <1>4 DEF CallStep

LEMMA QuietStep ==
    ASSUME pc \in {"roots", "ret"}, pc' \in {"roots", "ret"}, stack = <<>>, UNCHANGED stack,
           UNCHANGED <<flash_list, flash, file, lst, flash_addr, cur, useFlash>>,
           \A b \in Apps : app'[b].entries = app[b].entries /\ app'[b].image = app[b].image, cur \in Apps
    PROVE  CallStep /\ FlashStays
<1>1. FlashStays /\ image' = image
  BY Stays DEF image
<1>2. Len(stack) = 0 /\ Len(stack') = 0
  BY EmptySeq
<1> QED BY <1>1, <1>2 DEF CallStep

(* Complete, of a section in RAM.                                           *)
LEMMA CompleteRamStep ==
    ASSUME ListInv, FlashFrames, NEW f, CompleteIs(f), f.new = f.prev
    PROVE  CallStep /\ FlashStays
<1> DEFINE m == Len(stack) - 1
<1>1. /\ UNCHANGED <<app, flash_list, flash, file, lst, flash_addr, cur, useFlash>>
      /\ pc = "link" /\ pc' = "ret" /\ stack # <<>> /\ f = stack[1] /\ f \in FrameType
      /\ Len(stack') = m /\ \A i \in 1..m : stack'[i] = stack[i + 1]
  <2>1. f.new \in Nat /\ f.prev \in Nat /\ ~(f.new > f.prev)
    BY DEF CompleteIs, FrameType
  <2> QED BY <2>1 DEF CompleteIs, PopIs
<1>2. Len(stack) \in Nat /\ 1 \in 1..Len(stack) /\ m \in Nat /\ image.size \in [Sections -> Nat \ {0}]
  BY <1>1, StackFacts, Loading DEF ListInv
<1>3. \A i : Placed(i) /\ Placed(i)'
  BY <1>1 DEF Placed
<1>4. f.prg > RamStart
  <2>1. f.new \in Nat /\ f.prev \in Nat /\ f.prg \in Nat /\ f.sec \in Sections /\ RamStart \in Nat
    BY <1>1, Constants DEF FrameType
  <2>2. image.size[f.sec] \in Nat \ {0}
    BY <1>2, <2>1
  <2>3. f.prg <= RamStart => f.new = f.prg + image.size[f.sec] /\ f.prev <= f.prg
    BY <1>1, <1>2, <1>3 DEF FlashFrames
  <2> QED BY <2>1, <2>2, <2>3
<1>5. FlashStays /\ image' = image
  BY <1>1, Stays DEF image
<1>6. \A j \in 1..m : j + 1 \in 1..Len(stack) /\ stack'[j] = stack[j + 1]
  BY <1>1, <1>2
<1>7. ASSUME NEW i \in 1..Len(stack), stack[i].prg <= RamStart
      PROVE  i - 1 \in 1..m /\ stack'[i - 1] = stack[i]
  <2>1. i # 1
    <3>1. f.prg \in Nat /\ RamStart \in Nat
      BY <1>1, Constants DEF FrameType
    <3> QED BY <1>1, <1>4, <1>7, <3>1
  <2>2. i - 1 \in 1..m /\ (i - 1) + 1 = i
    BY <1>2, <2>1
  <2> QED BY <1>6, <2>2
<1> QED BY <1>1, <1>3, <1>5, <1>6, <1>7 DEF CallStep

(* Complete, of a section in flash: it is noted, and it is the one whose    *)
(* data flash_me now has.                                                   *)
LEMMA CompleteFlash ==
    ASSUME ListInv, Tidy, Layout, FlashFrames, Noted, Written, NEW f, CompleteIs(f), f.new # f.prev, Calm'
    PROVE  Layout' /\ FlashFrames' /\ Noted' /\ Flashing' /\ Written'
<1> DEFINE m == Len(stack) - 1
<1>1. /\ UNCHANGED <<app, flash_list, flash, cur, useFlash>>
      /\ pc = "link" /\ pc' = "ret" /\ stack # <<>> /\ f = stack[1] /\ f \in FrameType
      /\ Len(stack') = m /\ \A i \in 1..m : stack'[i] = stack[i + 1]
      /\ lst' = lst \cup {[offset |-> f.prg, size |-> f.new - f.prev]}
      /\ file' = [app |-> cur, sec |-> f.sec, from |-> f.prg, to |-> f.prg + (f.new - f.prev),
                  data |-> f.prg + image.size[f.sec]]
      /\ flash_addr' \in Nat /\ flash_addr' >= flash_addr /\ flash_addr' % Sector = 0
      /\ f.new > f.prev
  <2>1. ~FileSpoilt(f)
    BY DEF FileSpoilt, Calm
  <2> QED BY <2>1 DEF CompleteIs, FileWritten, PopIs
<1>2. /\ Len(stack) \in Nat /\ 1 \in 1..Len(stack) /\ m \in Nat /\ cur \in Apps
      /\ image.size \in [Sections -> Nat \ {0}] /\ flash_addr \in Nat
  <2>1. flash_addr \in Nat
    BY DEF ListInv, LoaderTypeOK
  <2> QED BY <1>1, <2>1, StackFacts, Loading DEF ListInv
<1>3. /\ f.new \in Nat /\ f.prev \in Nat /\ f.prg \in Nat /\ f.sec \in Sections /\ RamStart \in Nat
      /\ image.size[f.sec] \in Nat \ {0}
  BY <1>1, <1>2, Constants DEF FrameType
<1>4. \A i : Placed(i) /\ Placed(i)'
  BY <1>1 DEF Placed
<1>5. f.prg <= RamStart /\ f.new = f.prg + image.size[f.sec] /\ f.prev <= f.prg
  <2>1. ~(f.prg > RamStart)
    BY <1>1, <1>2, <1>4 DEF Tidy
  <2> QED BY <1>1, <1>2, <1>3, <1>4, <2>1 DEF FlashFrames
<1>6. PICK x : x = [sec |-> f.sec, prg |-> f.prg]
  OBVIOUS
<1>7. x \in InFlash(cur) /\ x.sec = f.sec /\ x.prg = f.prg /\ EndOf(cur, x) = f.new
  <2>1. x \in Entry(cur)
    BY <1>1, <1>2, <1>4, <1>6 DEF ListInv, Calls, At
  <2>2. x.prg = f.prg /\ x.sec = f.sec
    BY <1>6
  <2> QED BY <1>2, <1>5, <2>1, <2>2, SpanFacts DEF EndOf, image
<1>8. FlashStays /\ image' = image
  BY <1>1, Stays DEF image
<1>9. /\ InBounds' /\ Ordered' /\ Apart' /\ EvenFirst'
      /\ \A a, b \in Apps : Before(a, b)' <=> Before(a, b)
  BY <1>8, SpansStay
<1>10. \A a : (Loads(a)' <=> Loads(a)) /\ (Nested(a)' <=> Nested(a))
  BY <1>1 DEF Loads, Nested
<1>11. Layout'
  <2>1. \A u : Covered(u)' <=> Covered(u)
    BY <1>1 DEF Covered
  <2>2. EvenRecords' /\ LastLoaded'
    BY <1>1, <1>9, <1>10 DEF Layout, EvenRecords, LastLoaded, Even
  <2>3. Recorded'
    BY <1>8, <1>10, <2>1 DEF Layout, Recorded, FlashStays
  <2>4. NoFlash'
    BY <1>1, <1>8, <1>10 DEF Layout, NoFlash, FlashStays
  <2>5. Below'
    <3>1. Below
      BY <1>1 DEF Layout
    <3>2. \A r \in flash_list.recs : r \in Nat /\ r + Sector \in Nat
      <4>1. flash_list.recs \subseteq Nat
        BY DEF ListInv, LoaderTypeOK
      <4> QED BY <4>1 DEF Sector
    <3>3. \A a \in Apps : \A e \in InFlash(a) : EndOf(a, e) \in Nat
      BY SpanFacts
    <3> QED BY <1>1, <1>2, <1>8, <3>1, <3>2, <3>3 DEF Below, FlashStays
  <2>6. EvenNext'
    BY <1>1 DEF EvenNext, Even
  <2> QED BY <1>1, <1>9, <2>2, <2>3, <2>4, <2>5, <2>6 DEF Layout
<1>12. \A j \in 1..m : j + 1 \in 1..Len(stack) /\ stack'[j] = stack[j + 1]
  BY <1>1, <1>2
<1>13. FlashFrames'
  BY <1>1, <1>4, <1>8, <1>12 DEF FlashFrames
<1>14. Noted'
  <2> DEFINE o == [offset |-> f.prg, size |-> f.new - f.prev]
  <2>1. o \in lst' /\ o.offset = f.prg /\ o.size = f.new - f.prev /\ f.new <= o.offset + o.size
    BY <1>1, <1>3, <1>5
  <2>2. \A q \in lst' : q \in lst \/ q = o
    BY <1>1
  <2> HIDE DEF o
  <2> SUFFICES ASSUME NEW a \in Apps, a = cur
               PROVE  /\ \A g \in InFlash(a), r \in flash_list.recs : r + Sector <= g.prg
                      /\ \A q \in lst' : \E e \in InFlash(a) : q.offset = e.prg
                      /\ \A e \in InFlash(a) : OnStack(e)' \/
                           \E q \in lst' : q.offset = e.prg /\ EndOf(a, e)' <= q.offset + q.size
                      /\ \A e : InFlash(a) = {e} => OnStack(e)' \/ FileHas(a, e)'
    BY <1>1, <1>8 DEF Noted, FlashStays, Nested
  <2>3. Nested(a)
    BY <1>1 DEF Nested
  <2>4. \A q \in lst' : \E e \in InFlash(a) : q.offset = e.prg
    BY <1>7, <2>1, <2>2, <2>3 DEF Noted
  <2>5. ASSUME NEW e \in InFlash(a)
        PROVE  OnStack(e)' \/ \E q \in lst' : q.offset = e.prg /\ EndOf(a, e)' <= q.offset + q.size
    <3>1. EndOf(a, e)' = EndOf(a, e)
      BY <1>8, <2>5 DEF FlashStays
    <3>2. CASE OnStack(e)
      <4>1. PICK i \in 1..Len(stack) : stack[i].sec = e.sec /\ stack[i].prg = e.prg
        BY <3>2 DEF OnStack
      <4>2. CASE i = 1
        <5>1. e = x
          BY <1>1, <1>6, <2>5, <4>1, <4>2, SpanFacts
        <5> QED BY <1>7, <2>1, <3>1, <5>1
      <4>3. CASE i # 1
        <5>1. i - 1 \in 1..m /\ (i - 1) + 1 = i
          BY <1>2, <4>3
        <5>2. stack'[i - 1] = stack[i]
          BY <1>12, <5>1
        <5> QED BY <1>1, <1>4, <4>1, <5>1, <5>2 DEF OnStack
      <4> QED BY <4>2, <4>3
    <3>3. CASE \E q \in lst : q.offset = e.prg /\ EndOf(a, e) <= q.offset + q.size
      BY <1>1, <3>1, <3>3
    <3> QED BY <2>3, <2>5, <3>2, <3>3 DEF Noted
  <2>6. ASSUME NEW e, InFlash(a) = {e}
        PROVE  FileHas(a, e)'
    <3>1. e = x
      BY <1>7, <2>6
    <3>2. EndOf(a, x)' = f.new
      BY <1>7, <1>8 DEF FlashStays
    <3>3. f.prg + image.size[f.sec] = f.new /\ f.new <= f.prg + (f.new - f.prev)
      BY <1>3, <1>5
    <3> QED BY <1>1, <1>7, <3>1, <3>2, <3>3 DEF FileHas
  <2> QED BY <2>3, <2>4, <2>5, <2>6 DEF Noted
<1>15. Flashing'
  BY <1>1 DEF Flashing
<1>16. Written'
  BY <1>1, <1>8, <1>10 DEF Written, Holds, FlashStays
<1> QED BY <1>11, <1>13, <1>14, <1>15, <1>16

LEMMA SpanIs == \A a : InFlash(a) = {e \in Entry(a) : e.prg <= RamStart}
                       /\ InFlash(a)' = {e \in Entry(a)' : e.prg <= RamStart}
BY DEF InFlash, Entry

(* Place, of a section in RAM.                                              *)
LEMMA PlaceRamStep ==
    ASSUME ListInv, NEW s, NEW p, NEW n, PlaceIs(s, p, n), InRam(s)
    PROVE  CallStep /\ FlashStays
<1> DEFINE x == [sec |-> s, prg |-> p]
<1>1. /\ UNCHANGED <<flash_list, flash, file, lst, cur, useFlash>> /\ pc = "place" /\ pc' = "link"
      /\ p \in Nat /\ p > RamStart /\ flash_addr' = flash_addr
      /\ \A b \in Apps : b # cur => app'[b] = app[b]
      /\ app'[cur].image = app[cur].image
      /\ Len(stack') = Len(stack) /\ stack'[1].prg = p /\ \A i \in 2..Len(stack) : stack'[i] = stack[i]
  BY DEF PlaceIs, FlashSame
<1>2. Len(stack) \in Nat /\ cur \in Apps /\ RamStart \in Nat
  BY <1>1, StackFacts, Loading, Constants DEF ListInv
<1>3. Entry(cur)' = Entry(cur) \cup {x} /\ x.prg = p /\ \A b \in Apps : b # cur => Entry(b)' = Entry(b)
  BY PlaceAdds
<1> HIDE DEF x
<1>4. \A b \in Apps : InFlash(b)' = InFlash(b) /\ app'[b].image = app[b].image
  <2>1. ~(p <= RamStart)
    BY <1>1, <1>2
  <2> QED BY <1>1, <1>3, <2>1, SpanIs
<1>5. FlashStays /\ image' = image
  BY <1>1, <1>2, <1>4 DEF FlashStays, EndOf, image
<1>6. \A i \in 1..Len(stack) : Placed(i) => i \in 2..Len(stack)
  BY <1>1, <1>2 DEF Placed
<1>7. \A i : Placed(i)'
  BY <1>1 DEF Placed
<1>8. \A i \in 2..Len(stack) : i \in 1..Len(stack) /\ Placed(i) /\ stack'[i] = stack[i]
  BY <1>1, <1>2 DEF Placed
<1>9. \A j \in 1..Len(stack') : stack'[j].prg <= RamStart => j \in 2..Len(stack)
  <2>1. ~(p <= RamStart)
    BY <1>1, <1>2
  <2> QED BY <1>1, <1>2, <2>1
<1> QED BY <1>1, <1>5, <1>6, <1>7, <1>8, <1>9 DEF CallStep

(* Place, of a section in flash: it lies behind every other.                *)
LEMMA PlaceFlash ==
    ASSUME ListInv, Tidy, Layout, FlashFrames, Noted, Written,
           NEW s, NEW p, NEW n, PlaceIs(s, p, n), ~InRam(s)
    PROVE  Layout' /\ FlashFrames' /\ Noted' /\ Flashing' /\ Written'
<1> DEFINE x == [sec |-> s, prg |-> p]
<1>1. /\ UNCHANGED <<flash_list, flash, file, lst, cur, useFlash>> /\ pc = "place" /\ pc' = "link"
      /\ p \in Nat \ {0} /\ n \in Nat /\ flash_addr' = n /\ s = stack[1].sec /\ s \in Sections
      /\ flash_addr <= p /\ p <= flash_addr + 1 /\ (flash_addr % Sector = 0 => p = flash_addr)
      /\ n = p + image.size[s] /\ n <= FlashTop
      /\ \A b \in Apps : b # cur => app'[b] = app[b]
      /\ app'[cur].image = app[cur].image
      /\ Len(stack') = Len(stack) /\ \A i \in 2..Len(stack) : stack'[i] = stack[i]
      /\ stack'[1].sec = s /\ stack'[1].prev = stack[1].prev /\ stack'[1].prg = p /\ stack'[1].new = n
  BY DEF PlaceIs, FlashSame
<1>2. /\ Len(stack) \in Nat /\ 1 \in 1..Len(stack) /\ cur \in Apps /\ stack # <<>>
      /\ image.size \in [Sections -> Nat \ {0}] /\ flash_addr \in Nat /\ FlashTop \in Nat
      /\ RamStart = FlashTop + 1 /\ RamStart \in Nat
  BY <1>1, StackFacts, Loading, Constants DEF ListInv, Calls, LoaderTypeOK
<1>3. image.size[s] \in Nat \ {0} /\ p < n /\ p <= RamStart /\ flash_addr < n
  <2>1. image.size[s] \in Nat \ {0}
    BY <1>1, <1>2
  <2> QED BY <1>1, <1>2, <2>1
<1>4. /\ \A b \in Apps : b = cur => InFlash(b)' = InFlash(b) \cup {x}
      /\ x.sec = s /\ x.prg = p
      /\ \A b \in Apps : b # cur => InFlash(b)' = InFlash(b)
  <2>1. Entry(cur)' = Entry(cur) \cup {x} /\ x.sec = s /\ x.prg = p
        /\ \A b \in Apps : b # cur => Entry(b)' = Entry(b)
    BY PlaceAdds
  <2> HIDE DEF x
  <2>2. ASSUME NEW b \in Apps, b = cur
        PROVE  Entry(b)' = Entry(b) \cup {x}
    <3>1. Entry(b)' = Entry(cur)'
      <4>1. cur' = b
        BY <1>1, <2>2
      <4> QED BY <4>1 DEF Entry
    <3> QED BY <2>1, <2>2, <3>1
  <2> QED BY <1>3, <2>1, <2>2, SpanIs
<1> HIDE DEF x
<1>5. /\ \A b \in Apps : \A e : EndOf(b, e)' = EndOf(b, e)
      /\ EndOf(cur, x) = n /\ image' = image /\ cur' = cur
  BY <1>1, <1>2, <1>4 DEF EndOf, image
<1>6. \A b \in Apps : \A e \in InFlash(b) : /\ EndOf(b, e) \in Nat /\ EndOf(b, e) <= flash_addr
                                            /\ e.prg \in Nat /\ e.prg < EndOf(b, e)
                                            /\ EndOf(b, e) <= p /\ e.prg <= p /\ EndOf(b, e) <= n
  <2>1. Below
    BY <1>1 DEF Layout
  <2>2. \A b \in Apps : \A e \in InFlash(b) : EndOf(b, e) \in Nat /\ e.prg \in Nat /\ e.prg < EndOf(b, e)
    BY SpanFacts
  <2> QED BY <1>1, <1>2, <1>3, <2>1, <2>2 DEF Below
<1>7. \A a : (Loads(a) <=> a = cur) /\ (Loads(a)' <=> a = cur) /\ (Nested(a) <=> a = cur) /\ (Nested(a)' <=> a = cur)
  BY <1>1 DEF Loads, Nested
<1>8. \A b \in Apps : \A e \in InFlash(b)' : e \in InFlash(b) \/ (b = cur /\ e = x)
  BY <1>4
<1>9. InBounds'
  <2> SUFFICES ASSUME NEW b \in Apps, NEW e \in InFlash(b)'
               PROVE  EndOf(b, e) <= FlashTop
    BY <1>5 DEF InBounds
  <2>1. CASE e \in InFlash(b)
    BY <2>1 DEF Layout, InBounds
  <2>2. CASE b = cur /\ e = x
    BY <1>1, <1>5, <2>2
  <2> QED BY <1>8, <2>1, <2>2
<1>10. LastLoaded'
  <2> SUFFICES ASSUME NEW a \in Apps, NEW b \in Apps, b = cur, a # b,
                      NEW e \in InFlash(a), NEW g \in InFlash(b)'
               PROVE  EndOf(a, e) <= g.prg
    BY <1>4, <1>5, <1>7 DEF LastLoaded, Before
  <2>1. CASE g \in InFlash(b)
    BY <1>7, <2>1 DEF Layout, LastLoaded, Before
  <2>2. CASE g = x
    BY <1>4, <1>6, <2>2
  <2> QED BY <1>2, <1>8, <2>1, <2>2
<1>11. Ordered'
  <2> SUFFICES ASSUME NEW a \in Apps, NEW b \in Apps, a # b
               PROVE  Before(a, b)' \/ Before(b, a)'
    BY DEF Ordered
  <2>1. CASE a = cur \/ b = cur
    BY <1>7, <1>10, <2>1 DEF LastLoaded
  <2>2. CASE a # cur /\ b # cur
    <3>1. Before(a, b) \/ Before(b, a)
      BY DEF Layout, Ordered
    <3> QED BY <1>4, <1>5, <2>2, <3>1 DEF Before
  <2> QED BY <2>1, <2>2
<1>12. Apart'
  <2> SUFFICES ASSUME NEW b \in Apps, NEW e \in InFlash(b)', NEW g \in InFlash(b)', e # g
               PROVE  EndOf(b, e) <= g.prg \/ EndOf(b, g) <= e.prg
    BY <1>5 DEF Apart
  <2>1. CASE e \in InFlash(b) /\ g \in InFlash(b)
    BY <2>1 DEF Layout, Apart
  <2>2. CASE e \in InFlash(b) /\ g = x
    BY <1>4, <1>6, <2>2
  <2>3. CASE e = x /\ g \in InFlash(b)
    BY <1>4, <1>6, <2>3
  <2> QED BY <1>8, <2>1, <2>2, <2>3
<1>13. EvenFirst'
  <2> SUFFICES ASSUME NEW b \in Apps, InFlash(b)' # {}
               PROVE  \E f : f \in InFlash(b)' /\ Even(f.prg) /\ \A g \in InFlash(b)' : f.prg <= g.prg
    BY DEF EvenFirst, FirstIn, Even
  <2>1. ASSUME InFlash(b) # {}
        PROVE  \E f : f \in InFlash(b)' /\ Even(f.prg) /\ \A g \in InFlash(b)' : f.prg <= g.prg
    <3>1. PICK f : FirstIn(b, f)
      BY <2>1 DEF Layout, EvenFirst
    <3>2. f \in InFlash(b)
      BY <3>1 DEF FirstIn
    <3>3. f \in InFlash(b)' /\ f.prg <= p
      BY <1>4, <1>6, <3>2
    <3> QED BY <1>4, <1>8, <3>1, <3>3 DEF FirstIn
  <2>2. ASSUME InFlash(b) = {}
        PROVE  \E f : f \in InFlash(b)' /\ Even(f.prg) /\ \A g \in InFlash(b)' : f.prg <= g.prg
    <3>1. b = cur /\ InFlash(b)' = {x} /\ InFlash(b) = {}
      BY <1>4, <2>2
    <3>2. ~ \E i \in 1..Len(stack) : Placed(i) /\ stack[i].prg <= RamStart
      <4> SUFFICES ASSUME NEW i \in 1..Len(stack), Placed(i), stack[i].prg <= RamStart PROVE FALSE
        OBVIOUS
      <4>1. PICK z : z = [sec |-> stack[i].sec, prg |-> stack[i].prg]
        OBVIOUS
      <4>2. z \in Entry(cur) /\ z.prg = stack[i].prg
        BY <4>1 DEF ListInv, Calls, At
      <4>3. z \in Entry(b)
        BY <3>1, <4>2
      <4>4. z \in InFlash(b)
        BY <4>2, <4>3, SpanFacts
      <4> QED BY <3>1, <4>4
    <3>3. p = flash_addr /\ Even(p)
      BY <1>1, <3>2 DEF Layout, EvenNext, Even
    <3>4. x \in InFlash(b)' /\ Even(x.prg) /\ \A g \in InFlash(b)' : x.prg <= g.prg
      BY <1>1, <1>4, <3>1, <3>3
    <3> QED BY <3>4
  <2> QED BY <2>1, <2>2
<1>14. Recorded' /\ EvenRecords' /\ NoFlash'
  <2>1. \A u : Covered(u)' <=> Covered(u)
    BY <1>1 DEF Covered
  <2>2. Recorded'
    BY <1>4, <1>5, <1>7, <2>1 DEF Layout, Recorded
  <2>3. EvenRecords'
    BY <1>1 DEF Layout, EvenRecords, Even
  <2>4. NoFlash'
    BY <1>1 DEF NoFlash, InRam
  <2> QED BY <2>2, <2>3, <2>4
<1>15. Below'
  <2>1. \A r \in flash_list'.recs : r + Sector <= flash_addr'
    <3>1. \A r \in flash_list.recs : r + Sector <= flash_addr /\ r + Sector \in Nat
      <4>1. flash_list.recs \subseteq Nat
        BY DEF ListInv, LoaderTypeOK
      <4> QED BY <1>1, <4>1 DEF Layout, Below, Sector
    <3> QED BY <1>1, <1>2, <1>3, <3>1
  <2>2. \A b \in Apps : \A e \in InFlash(b)' : EndOf(b, e)' <= flash_addr'
    <3> SUFFICES ASSUME NEW b \in Apps, NEW e \in InFlash(b)'
                 PROVE  EndOf(b, e) <= n
      BY <1>1, <1>5
    <3> QED BY <1>1, <1>5, <1>6, <1>8
  <2> QED BY <2>1, <2>2 DEF Below
<1>16. EvenNext'
  <2>1. 1 \in 1..Len(stack') /\ Placed(1)' /\ stack'[1].prg <= RamStart
    BY <1>1, <1>2, <1>3 DEF Placed
  <2> QED BY <2>1 DEF EvenNext
<1>17. Layout'
  BY <1>1, <1>9, <1>10, <1>11, <1>12, <1>13, <1>14, <1>15, <1>16 DEF Layout
<1>18. \A i \in 1..Len(stack') : i = 1 \/ (i \in 2..Len(stack) /\ i \in 1..Len(stack) /\ Placed(i) /\ stack'[i] = stack[i])
  BY <1>1, <1>2 DEF Placed
<1>19. FlashFrames'
  <2> SUFFICES ASSUME NEW i \in 1..Len(stack'), stack'[i].prg <= RamStart
               PROVE  stack'[i].new = stack'[i].prg + image.size[stack'[i].sec] /\ stack'[i].prev <= stack'[i].prg
    BY <1>5 DEF FlashFrames
  <2>1. CASE i = 1
    <3>1. stack[1].prev = flash_addr
      BY <1>1 DEF Tidy
    <3> QED BY <1>1, <2>1, <3>1
  <2>2. CASE i \in 1..Len(stack) /\ Placed(i) /\ stack'[i] = stack[i]
    BY <2>2 DEF FlashFrames
  <2> QED BY <1>18, <2>1, <2>2
<1>20. Noted'
  <2> SUFFICES ASSUME NEW a \in Apps, a = cur
               PROVE  /\ \A g \in InFlash(a)', r \in flash_list.recs : r + Sector <= g.prg
                      /\ \A o \in lst : \E e \in InFlash(a)' : o.offset = e.prg
                      /\ \A e \in InFlash(a)' : OnStack(e)' \/
                           \E o \in lst : o.offset = e.prg /\ EndOf(a, e) <= o.offset + o.size
                      /\ \A e : InFlash(a)' = {e} => OnStack(e)' \/ FileHas(a, e)'
    BY <1>1, <1>5, <1>7 DEF Noted
  <2>1. Nested(a)
    BY <1>7
  <2>2. InFlash(a)' = InFlash(a) \cup {x}
    BY <1>4
  <2>3. OnStack(x)'
    <3>1. 1 \in 1..Len(stack') /\ Placed(1)' /\ stack'[1].prg = x.prg /\ stack'[1].sec = x.sec
      BY <1>1, <1>2, <1>4 DEF Placed
    <3> QED BY <3>1 DEF OnStack
  <2>4. ASSUME NEW e, OnStack(e)
        PROVE  OnStack(e)'
    <3>1. PICK i \in 1..Len(stack) : Placed(i) /\ stack[i].sec = e.sec /\ stack[i].prg = e.prg
      BY <2>4 DEF OnStack
    <3>2. i \in 2..Len(stack) /\ i \in 1..Len(stack') /\ Placed(i)'
      BY <1>1, <1>2, <3>1 DEF Placed
    <3>3. stack'[i].sec = e.sec /\ stack'[i].prg = e.prg
      BY <1>1, <3>1, <3>2
    <3> QED BY <3>2, <3>3 DEF OnStack
  <2>5. \A g \in InFlash(a)', r \in flash_list.recs : r + Sector <= g.prg
    <3>1. \A r \in flash_list.recs : r + Sector <= p
      <4>1. flash_list.recs \subseteq Nat
        BY DEF ListInv, LoaderTypeOK
      <4>2. \A r \in flash_list.recs : r + Sector <= flash_addr /\ r + Sector \in Nat
        BY <1>1, <4>1 DEF Layout, Below, Sector
      <4> QED BY <1>1, <1>2, <4>2
    <3>2. \A g \in InFlash(a), r \in flash_list.recs : r + Sector <= g.prg
      BY <2>1 DEF Noted
    <3> QED BY <1>4, <2>2, <3>1, <3>2
  <2>6. \A o \in lst : \E e \in InFlash(a)' : o.offset = e.prg
    BY <2>1, <2>2 DEF Noted
  <2>7. \A e \in InFlash(a)' : OnStack(e)' \/
                           \E o \in lst : o.offset = e.prg /\ EndOf(a, e) <= o.offset + o.size
    BY <2>1, <2>2, <2>3, <2>4 DEF Noted
  <2>8. \A e : InFlash(a)' = {e} => OnStack(e)'
    BY <2>2, <2>3
  <2> QED BY <2>5, <2>6, <2>7, <2>8
<1>21. Flashing'
  BY <1>1 DEF Flashing
<1>22. Written'
  BY <1>1, <1>4, <1>5, <1>7 DEF Written, Holds
<1> QED BY <1>17, <1>19, <1>20, <1>21, <1>22

(* The parts of the layout that do not depend on flash_addr, in steps that  *)
(* place nothing, record nothing and neither begin nor end a load.          *)
LEMMA LayoutStands ==
    ASSUME FlashStays, Layout, UNCHANGED <<flash_list, cur, useFlash>>, pc = "idle" <=> pc' = "idle"
    PROVE  /\ InBounds' /\ EvenRecords' /\ EvenFirst' /\ Ordered' /\ LastLoaded' /\ Apart'
           /\ Recorded' /\ NoFlash' /\ \A a : Loads(a)' <=> Loads(a)
<1>1. \A a : Loads(a)' <=> Loads(a)
  BY DEF Loads
<1>2. /\ InBounds' /\ Ordered' /\ Apart' /\ EvenFirst'
      /\ \A a, b \in Apps : Before(a, b)' <=> Before(a, b)
  BY SpansStay
<1>3. \A u : Covered(u)' <=> Covered(u)
  BY DEF Covered
<1>4. EvenRecords' /\ LastLoaded'
  BY <1>1, <1>2 DEF Layout, EvenRecords, LastLoaded, Even
<1>5. Recorded'
  BY <1>1, <1>3 DEF Layout, Recorded, FlashStays
<1>6. NoFlash'
  BY <1>1 DEF Layout, NoFlash, FlashStays
<1> QED BY <1>1, <1>2, <1>4, <1>5, <1>6

(* The loop starts at the lowest section of the program, which begins a     *)
(* sector, and ends behind the highest.                                     *)
LEMMA StartsFlash ==
    ASSUME ListInv, Layout, Noted, Written, StartFlash
    PROVE  Layout' /\ FlashFrames' /\ Noted' /\ Flashing' /\ Written'
<1>1. /\ UNCHANGED <<app, flash_addr, flash_list, flash, file, cur, useFlash, stack>>
      /\ pc = "roots" /\ pc' = "flash" /\ lst' = {}
      /\ addr' = (IF lst = {} THEN 0 ELSE Min(Starts)) /\ top' = (IF lst = {} THEN 0 ELSE Max(Ends))
  BY DEF StartFlash
<1>2. stack = <<>> /\ Len(stack) = 0 /\ cur \in Apps
  BY <1>1, EmptySeq, Loading DEF ListInv, Calls
<1>3. FlashStays
  BY <1>1, Stays
<1>4. Even(flash_addr) /\ \A e : ~OnStack(e)
  BY <1>2 DEF Layout, EvenNext, OnStack
<1>5. Layout'
  <2>1. EvenNext'
    BY <1>1, <1>4 DEF EvenNext, Even
  <2> QED BY <1>1, <1>3, <2>1, LayoutStands DEF Layout
<1>6. FlashFrames' /\ Noted'
  BY <1>1, <1>2 DEF FlashFrames, Noted, Nested
<1>7. Written'
  BY <1>1, <1>3, LayoutStands DEF Written, Holds, FlashStays
<1>8. Flashing'
  <2> SUFFICES ASSUME NEW a \in Apps, a = cur
               PROVE  ((InFlash(a) = {} /\ addr >= top /\ Below) \/ \E f : Progress(a, f))'
    BY <1>1 DEF Flashing
  <2>1. /\ \A g \in InFlash(a), r \in flash_list.recs : r + Sector <= g.prg
        /\ \A o \in lst : \E e \in InFlash(a) : o.offset = e.prg
        /\ \A e \in InFlash(a) : \E o \in lst : o.offset = e.prg /\ EndOf(a, e) <= o.offset + o.size
        /\ \A e : InFlash(a) = {e} => FileHas(a, e)
    <3>1. Nested(a)
      BY <1>1 DEF Nested
    <3> QED BY <1>4, <3>1 DEF Noted
  <2>2. CASE lst = {}
    <3>1. InFlash(a)' = {} /\ addr' = 0 /\ top' = 0
      BY <1>1, <1>3, <2>1, <2>2 DEF FlashStays
    <3>2. Below'
      BY <1>1, <1>3 DEF Layout, Below, FlashStays
    <3> QED BY <3>1, <3>2
  <2>3. CASE lst # {}
    <3>1. /\ \A o \in lst : addr' <= o.offset /\ o.offset + o.size <= top'
          /\ \A o \in lst : o.offset \in Nat /\ o.offset + o.size \in Nat
          /\ addr' \in Nat /\ top' \in Nat /\ \E o \in lst : addr' = o.offset
      <4>1. /\ Min(Starts) \in Starts
            /\ \A o \in lst : o \in [offset : Nat, size : Nat \ {0}] /\ Min(Starts) <= o.offset
            /\ \A o \in lst : o.offset + o.size <= Max(Ends)
            /\ Min(Starts) \in Nat /\ Max(Ends) \in Nat
        BY <2>3, NotedRange
      <4>2. \A o \in lst : o.offset \in Nat /\ o.size \in Nat
        BY <4>1
      <4>3. \A o \in lst : o.offset + o.size \in Nat
        BY <4>2
      <4>4. addr' = Min(Starts) /\ top' = Max(Ends)
        BY <1>1, <2>3
      <4> QED BY <4>1, <4>2, <4>3, <4>4 DEF Starts
    <3>2. PICK o \in lst : addr' = o.offset
      BY <3>1
    <3>3. PICK e \in InFlash(a) : o.offset = e.prg
      BY <2>1
    <3>4. PICK f : FirstIn(a, f)
      BY <3>3 DEF Layout, EvenFirst
    <3>5. f \in InFlash(a) /\ f.prg <= e.prg /\ Even(f.prg) /\ f.prg \in Nat /\ e.prg \in Nat
      BY <3>4, SpanFacts DEF FirstIn
    <3>6. addr' = f.prg
      <4>1. PICK q \in lst : q.offset = f.prg
        BY <2>1, <3>5
      <4> QED BY <3>1, <3>2, <3>3, <3>5, <4>1
    <3>7. \A g \in InFlash(a) : EndOf(a, g) <= top'
      <4> SUFFICES ASSUME NEW g \in InFlash(a) PROVE EndOf(a, g) <= top'
        OBVIOUS
      <4>1. PICK q \in lst : EndOf(a, g) <= q.offset + q.size
        BY <2>1
      <4>2. EndOf(a, g) \in Nat
        BY SpanFacts
      <4> QED BY <3>1, <4>1, <4>2
    <3>8. FirstIn(a, f)'
      BY <1>3, <3>4, SpansStay
    <3>9. \A g \in InFlash(a)' : EndOf(a, g)' <= top'
      BY <1>3, <3>7 DEF FlashStays
    <3>10. Even(addr)' /\ f.prg <= addr' /\ addr' = f.prg
      BY <3>5, <3>6 DEF Even
    <3>11. \A r \in flash_list'.recs : r + Sector <= addr'
      BY <1>1, <2>1, <3>5, <3>6
    <3>12. \A u \in Nat : ~(f.prg <= u /\ u < addr')
      BY <3>1, <3>6
    <3>13. InFlash(a)' = {f} => FileHas(a, f)'
      <4>1. InFlash(a)' = InFlash(a) /\ EndOf(a, f)' = EndOf(a, f)
        BY <1>3, <3>5 DEF FlashStays
      <4> QED BY <1>1, <2>1, <4>1 DEF FileHas
    <3>14. Progress(a, f)'
      BY <3>8, <3>9, <3>10, <3>11, <3>12, <3>13 DEF Progress, Holds
    <3> QED BY <3>14
  <2> QED BY <2>2, <2>3
<1> QED BY <1>5, <1>6, <1>7, <1>8

(* What programming the sector at addr does to one unit of the flash.       *)
LEMMA UnitFacts ==
    ASSUME ListInv, Even(addr), flash' = [u \in 0..FlashTop |-> Programmed(u, Read)], NEW u \in 0..FlashTop
    PROVE  /\ u < addr => flash'[u] = flash[u]
           /\ (u = addr \/ u = addr + 1) /\ file.from <= u /\ u < file.data /\ file.data <= file.to
              => flash'[u] = <<file.app, file.sec>>
<1>1. addr \in Nat /\ u \in Nat /\ file.from \in Nat /\ file.data \in Nat /\ file.to \in Nat
  <2>1. file \in [app : 0..MaxApps, sec : Sections \cup {0}, from : Nat, to : Nat, data : Nat]
    BY DEF ListInv, LoaderTypeOK
  <2>2. addr \in Nat
    BY DEF ListInv, LoaderTypeOK
  <2> QED BY <2>1, <2>2, Constants
<1>2. u \div Sector = addr \div Sector <=> u = addr \/ u = addr + 1
  BY <1>1, EvenFacts
<1>3. flash'[u] = Programmed(u, Read)
  OBVIOUS
<1>4. ASSUME u < addr
      PROVE  flash'[u] = flash[u]
  <2>1. u \notin addr..(addr + Sector - 1) /\ ~(u = addr \/ u = addr + 1)
    BY <1>1, <1>4
  <2> QED BY <1>2, <1>3, <2>1 DEF Programmed
<1>5. ASSUME u = addr \/ u = addr + 1, file.from <= u, u < file.data, file.data <= file.to
      PROVE  flash'[u] = <<file.app, file.sec>>
  <2>1. u \in addr..(addr + Sector - 1) /\ u - addr + 1 \in 1..Sector /\ addr + (u - addr + 1) - 1 = u
    BY <1>1, <1>5 DEF Sector
  <2>2. Erased(u)
    BY <1>2, <1>5 DEF Erased
  <2>3. flash'[u] = Read[u - addr + 1]
    BY <1>3, <2>1, <2>2 DEF Programmed
  <2>4. PICK k \in 1..Sector : k = u - addr + 1 /\ addr + k - 1 = u
    BY <2>1
  <2>5. Read[k] = FileUnit(u)
    <3>1. u < file.to
      BY <1>1, <1>5
    <3> QED BY <2>4, <3>1 DEF Read
  <2>6. FileUnit(u) = <<file.app, file.sec>>
    BY <1>1, <1>5 DEF FileUnit
  <2> QED BY <2>3, <2>4, <2>5, <2>6
<1> QED BY <1>4, <1>5

LEMMA ProgramsFlash ==
    ASSUME ListInv, Layout, Flashing, Written, Program
    PROVE  Layout' /\ FlashFrames' /\ Noted' /\ Flashing' /\ Written'
<1>1. /\ UNCHANGED <<app, file, cur, useFlash, stack, top, lst>>
      /\ pc = "flash" /\ pc' = "flash" /\ addr < top /\ addr' = addr + Sector /\ flash_block(Read)
  BY DEF Program, LoaderVars
<1>2. /\ stack = <<>> /\ Len(stack) = 0 /\ cur \in Apps
      /\ addr \in Nat /\ top \in Nat /\ flash_list.recs \subseteq Nat
  <2>1. addr \in Nat /\ top \in Nat
    BY DEF ListInv, LoaderTypeOK
  <2>2. flash_list.recs \subseteq Nat
    BY DEF ListInv, LoaderTypeOK
  <2> QED BY <1>1, <2>1, <2>2, EmptySeq, Loading DEF ListInv, Calls
<1>3. PICK f : \A a \in Apps : a = cur => Progress(a, f)
  <2>1. ~(addr >= top)
    BY <1>1, <1>2
  <2> QED BY <1>1, <1>2, <2>1 DEF Flashing
<1>4. \A a \in Apps : a = cur =>
        /\ f \in InFlash(a) /\ FirstIn(a, f) /\ f.prg \in Nat /\ EndOf(a, f) \in Nat /\ EndOf(a, f) <= FlashTop
        /\ f.prg <= addr /\ Even(addr)
        /\ \A r \in flash_list.recs : r + Sector <= addr
  <2> SUFFICES ASSUME NEW a \in Apps, a = cur
               PROVE  /\ f \in InFlash(a) /\ FirstIn(a, f) /\ f.prg \in Nat /\ EndOf(a, f) \in Nat
                      /\ EndOf(a, f) <= FlashTop /\ f.prg <= addr /\ Even(addr)
                      /\ \A r \in flash_list.recs : r + Sector <= addr
    OBVIOUS
  <2>1. Progress(a, f)
    BY <1>3
  <2>2. f \in InFlash(a)
    BY <2>1 DEF Progress, FirstIn
  <2>3. EndOf(a, f) <= FlashTop
    BY <2>2 DEF Layout, InBounds
  <2> QED BY <2>1, <2>2, <2>3, SpanFacts DEF Progress
<1>5. Even(addr) /\ \A r \in flash_list.recs : r + Sector <= addr
  BY <1>2, <1>4
<1>6. /\ flash_list' = [made |-> TRUE, recs |-> flash_list.recs \cup {addr}]
      /\ flash_addr' = addr + Sector
      /\ flash' = [u \in 0..FlashTop |-> Programmed(u, Read)]
  <2>1. ~ \E r \in flash_list.recs : addr >= r /\ addr < r + Sector
    <3> SUFFICES ASSUME NEW r \in flash_list.recs, addr < r + Sector PROVE FALSE
      OBVIOUS
    <3>1. r \in Nat /\ r + Sector <= addr
      BY <1>2, <1>5
    <3> QED BY <1>2, <3>1 DEF Sector
  <2> QED BY <1>1, <2>1 DEF flash_block
<1>7. flash_list'.recs = flash_list.recs \cup {addr}
  BY <1>6
<1>8. FlashStays
  BY <1>1, Stays
<1>9. \A a : Loads(a)' <=> Loads(a)
  BY <1>1 DEF Loads
<1>10. \A u \in Nat : (Covered(u) \/ u = addr \/ u = addr + 1) => Covered(u)'
  <2>1. \A u \in Nat : Covered(u) => Covered(u)'
    BY <1>7 DEF Covered
  <2>2. \A u \in Nat : u = addr \/ u = addr + 1 => addr <= u /\ u < addr + Sector
    BY <1>2 DEF Sector
  <2> QED BY <1>7, <2>1, <2>2 DEF Covered
<1>11. Even(addr + Sector) /\ addr + Sector \in Nat
  BY <1>2, <1>5, EvenFacts DEF Sector
<1>12. \A u \in Nat : u < addr + Sector => u < addr \/ u = addr \/ u = addr + 1
  BY <1>2 DEF Sector
<1>13. Layout'
  <2>1. /\ InBounds' /\ Ordered' /\ Apart' /\ EvenFirst'
        /\ \A a, b \in Apps : Before(a, b)' <=> Before(a, b)
    BY <1>8, SpansStay
  <2>2. LastLoaded' /\ NoFlash'
    BY <1>1, <1>8, <1>9, <2>1 DEF Layout, LastLoaded, NoFlash, FlashStays
  <2>3. EvenRecords'
    BY <1>5, <1>7 DEF Layout, EvenRecords, Even
  <2>4. Recorded'
    BY <1>8, <1>9, <1>10 DEF Layout, Recorded, FlashStays
  <2>5. EvenNext'
    BY <1>6, <1>11 DEF EvenNext, Even
  <2>6. lst' = {}
    BY <1>1 DEF Layout
  <2> QED BY <1>1, <2>1, <2>2, <2>3, <2>4, <2>5, <2>6 DEF Layout
<1>14. FlashFrames' /\ Noted'
  BY <1>1, <1>2 DEF FlashFrames, Noted, Nested
<1>15. \A u \in 0..FlashTop :
         /\ u < addr => flash'[u] = flash[u]
         /\ (u = addr \/ u = addr + 1) /\ file.from <= u /\ u < file.data /\ file.data <= file.to
            => flash'[u] = <<file.app, file.sec>>
  BY <1>5, <1>6, UnitFacts
<1>16. ASSUME NEW a \in Apps, a = cur
       PROVE  Progress(a, f)'
  <2>1. Progress(a, f)
    BY <1>3, <1>16
  <2>2. f \in InFlash(a) /\ f.prg \in Nat /\ EndOf(a, f) \in Nat /\ EndOf(a, f) <= FlashTop
    BY <1>4, <1>16
  <2>3. InFlash(a)' = InFlash(a) /\ \A g \in InFlash(a) : EndOf(a, g)' = EndOf(a, g)
    BY <1>8 DEF FlashStays
  <2>4. FirstIn(a, f)'
    BY <1>8, <2>1, SpansStay DEF Progress
  <2>5. \A g \in InFlash(a)' : EndOf(a, g)' <= top'
    BY <1>1, <2>1, <2>3 DEF Progress
  <2>6. f.prg <= addr' /\ flash_addr' = addr' /\ Even(addr)'
    <3>1. f.prg <= addr
      BY <2>1 DEF Progress
    <3> QED BY <1>1, <1>2, <1>6, <1>11, <2>2, <3>1 DEF Even, Sector
  <2>7. \A r \in flash_list'.recs : r + Sector <= addr'
    <3>1. \A r \in flash_list.recs : r \in Nat /\ r + Sector <= addr
      BY <1>2, <1>5
    <3> QED BY <1>1, <1>2, <1>7, <3>1 DEF Sector
  <2>8. \A u \in Nat : f.prg <= u /\ u < addr' => Covered(u)'
    BY <1>1, <1>10, <1>12, <2>1 DEF Progress
  <2>9. ASSUME InFlash(a)' = {f}
        PROVE  FileHas(a, f)' /\ \A u \in Nat : u < addr' => Holds(a, f, u)'
    <3>1. FileHas(a, f) /\ \A u \in Nat : u < addr => Holds(a, f, u)
      BY <2>1, <2>3, <2>9 DEF Progress
    <3>2. FileHas(a, f)'
      BY <1>1, <2>2, <2>3, <3>1 DEF FileHas
    <3>3. ASSUME NEW u \in Nat, u < addr', f.prg <= u, u < EndOf(a, f)
          PROVE  flash'[u] = <<a, f.sec>>
      <4>1. u \in 0..FlashTop
        BY <2>2, <3>3, Constants
      <4>2. CASE u < addr
        BY <1>15, <3>1, <3>3, <4>1, <4>2 DEF Holds
      <4>3. CASE u = addr \/ u = addr + 1
        BY <1>15, <3>1, <3>3, <4>1, <4>3 DEF FileHas
      <4> QED BY <1>1, <1>12, <3>3, <4>2, <4>3
    <3> QED BY <2>2, <2>3, <3>2, <3>3 DEF Holds
  <2> QED BY <2>4, <2>5, <2>6, <2>7, <2>8, <2>9 DEF Progress
<1>17. Flashing'
  BY <1>1, <1>16 DEF Flashing
<1>18. Written'
  <2> SUFFICES ASSUME NEW b \in Apps, ~Loads(b), NEW e, InFlash(b) = {e}, NEW u \in Nat,
                      e.prg <= u, u < EndOf(b, e)
               PROVE  flash'[u] = <<b, e.sec>>
    <3>1. \A b \in Apps : InFlash(b)' = InFlash(b) /\ \A e \in InFlash(b) : EndOf(b, e)' = EndOf(b, e)
      BY <1>8 DEF FlashStays
    <3> QED BY <1>9, <3>1 DEF Written, Holds
  <2>1. flash[u] = <<b, e.sec>>
    BY DEF Written, Holds
  <2>2. PICK a \in Apps : a = cur
    BY <1>2
  <2>3. a # b /\ Loads(a)
    BY <1>1, <2>2 DEF Loads
  <2>4. EndOf(b, e) <= f.prg /\ f.prg <= addr /\ f.prg \in Nat
    BY <1>4, <2>2, <2>3 DEF Layout, LastLoaded, Before
  <2>5. EndOf(b, e) \in Nat /\ EndOf(b, e) <= FlashTop
    BY SpanFacts DEF Layout, InBounds
  <2>6. u < addr /\ u \in 0..FlashTop
    BY <1>2, <2>4, <2>5, Constants
  <2> QED BY <1>15, <2>1, <2>6
<1> QED BY <1>13, <1>14, <1>17, <1>18

(* load_app returns: the sectors of the program are recorded and written,   *)
(* and flash_addr is behind them.                                           *)
LEMMA LoadedFlash ==
    ASSUME ListInv, Layout, Noted, Flashing, Written, EndIs
    PROVE  Layout' /\ FlashFrames' /\ Noted' /\ Flashing' /\ Written'
<1>1. /\ UNCHANGED <<flash_addr, lst, cur, useFlash, stack, flash_list, flash, file, addr, top>>
      /\ pc \in {"roots", "flash"} /\ pc' = "idle" /\ (useFlash => pc = "flash" /\ addr >= top)
      /\ cur \in Apps
      /\ \A b \in Apps : app'[b].entries = app[b].entries /\ app'[b].image = app[b].image
  BY DEF EndIs, FlashSame
<1>2. stack = <<>> /\ Len(stack) = 0 /\ addr \in Nat /\ top \in Nat /\ flash_addr \in Nat
  <2>1. addr \in Nat /\ top \in Nat /\ flash_addr \in Nat
    BY DEF ListInv, LoaderTypeOK
  <2> QED BY <1>1, <2>1, EmptySeq DEF ListInv, Calls
<1>3. FlashStays
  BY <1>1, Stays
<1>4. \A a : ~Loads(a)' /\ (Loads(a) <=> a = cur)
  BY <1>1 DEF Loads
<1>5. \A u : Covered(u)' <=> Covered(u)
  BY <1>1 DEF Covered
<1>6. \A e : ~OnStack(e)
  BY <1>2 DEF OnStack
<1>7. ASSUME NEW a \in Apps, a = cur
      PROVE  /\ Below /\ lst = {}
             /\ \A e \in InFlash(a) : \A u \in Nat : e.prg <= u /\ u < EndOf(a, e) => Covered(u)
             /\ \A e : InFlash(a) = {e} => \A u \in Nat : Holds(a, e, u)
  <2>1. CASE InFlash(a) = {} /\ Below
    <3>1. lst = {}
      <4>1. CASE pc = "flash"
        BY <4>1 DEF Layout
      <4>2. CASE pc = "roots"
        <5>1. Nested(a)
          BY <1>7, <4>2 DEF Nested
        <5> QED BY <2>1, <5>1 DEF Noted
      <4> QED BY <1>1, <4>1, <4>2
    <3> QED BY <2>1, <3>1
  <2>2. ASSUME pc = "flash", addr >= top, NEW f, Progress(a, f)
        PROVE  /\ Below /\ lst = {}
               /\ \A e \in InFlash(a) : \A u \in Nat : e.prg <= u /\ u < EndOf(a, e) => Covered(u)
               /\ \A e : InFlash(a) = {e} => \A u \in Nat : Holds(a, e, u)
    <3>1. \A g \in InFlash(a) : /\ g.prg \in Nat /\ EndOf(a, g) \in Nat /\ g.prg < EndOf(a, g)
                                /\ EndOf(a, g) <= addr /\ f.prg <= g.prg
      <4>1. \A g \in InFlash(a) : g.prg \in Nat /\ EndOf(a, g) \in Nat /\ g.prg < EndOf(a, g)
        BY SpanFacts
      <4>2. \A g \in InFlash(a) : EndOf(a, g) <= top /\ f.prg <= g.prg
        BY <2>2 DEF Progress, FirstIn
      <4> QED BY <1>2, <2>2, <4>1, <4>2
    <3>2. f \in InFlash(a) /\ f.prg <= addr
      BY <2>2 DEF Progress, FirstIn
    <3>3. addr = flash_addr
      <4>1. addr # f.prg
        BY <1>2, <3>1, <3>2
      <4> QED BY <2>2, <4>1 DEF Progress
    <3>4. Below
      <4>1. \A r \in flash_list.recs : r + Sector <= flash_addr
        BY <2>2, <3>3 DEF Progress
      <4>2. ASSUME NEW b \in Apps, NEW e \in InFlash(b)
            PROVE  EndOf(b, e) <= flash_addr
        <5>1. CASE b = a
          BY <3>1, <3>3, <4>2, <5>1
        <5>2. CASE b # a
          <6>1. EndOf(b, e) <= f.prg /\ EndOf(b, e) \in Nat
            BY <1>4, <1>7, <3>2, <4>2, <5>2, SpanFacts DEF Layout, LastLoaded, Before
          <6> QED BY <1>2, <3>1, <3>2, <3>3, <6>1
        <5> QED BY <5>1, <5>2
      <4> QED BY <4>1, <4>2 DEF Below
    <3>5. lst = {}
      BY <2>2 DEF Layout
    <3>6. ASSUME NEW e \in InFlash(a), NEW u \in Nat, e.prg <= u, u < EndOf(a, e)
          PROVE  Covered(u) /\ u < addr
      <4>1. f.prg <= u /\ u < addr
        BY <1>2, <3>1, <3>2, <3>6
      <4> QED BY <2>2, <4>1 DEF Progress
    <3>7. ASSUME NEW e, InFlash(a) = {e}, NEW u \in Nat
          PROVE  Holds(a, e, u)
      <4>1. e = f /\ e \in InFlash(a)
        BY <3>2, <3>7
      <4>2. u < addr => Holds(a, f, u)
        BY <2>2, <3>7, <4>1 DEF Progress
      <4>3. ~(u < addr) => ~(u < EndOf(a, e))
        BY <1>2, <3>1, <4>1
      <4> QED BY <4>1, <4>2, <4>3 DEF Holds
    <3> QED BY <3>4, <3>5, <3>6, <3>7
  <2>3. CASE pc = "flash"
    <3>1. addr >= top
      <4>1. CASE useFlash
        BY <1>1, <4>1
      <4>2. CASE ~useFlash
        <5>1. InFlash(a) = {}
          BY <1>4, <1>7, <4>2 DEF Layout, NoFlash
        <5> QED BY <1>7, <2>3, <5>1 DEF Flashing, Progress, FirstIn
      <4> QED BY <4>1, <4>2
    <3> QED BY <1>7, <2>1, <2>2, <2>3, <3>1 DEF Flashing
  <2>4. CASE pc = "roots"
    <3>1. InFlash(a) = {} /\ Below
      BY <1>1, <1>4, <1>7, <2>4 DEF Layout, NoFlash
    <3> QED BY <2>1, <3>1
  <2> QED BY <1>1, <2>3, <2>4
<1>8. Below /\ lst = {}
  BY <1>1, <1>7
<1>9. Layout'
  <2>1. /\ InBounds' /\ Ordered' /\ Apart' /\ EvenFirst'
    BY <1>3, SpansStay
  <2>2. LastLoaded' /\ NoFlash'
    BY <1>4 DEF LastLoaded, NoFlash
  <2>3. EvenRecords'
    BY <1>1 DEF Layout, EvenRecords, Even
  <2>4. Recorded'
    <3> SUFFICES ASSUME NEW a \in Apps, NEW e \in InFlash(a), NEW u \in Nat, e.prg <= u, u < EndOf(a, e)
                 PROVE  Covered(u)
      BY <1>3, <1>5 DEF Recorded, FlashStays
    <3>1. CASE a = cur
      BY <1>7, <3>1
    <3>2. CASE a # cur
      BY <1>4, <3>2 DEF Layout, Recorded
    <3> QED BY <3>1, <3>2
  <2>5. Below'
    BY <1>1, <1>3, <1>8 DEF Below, FlashStays
  <2>6. EvenNext'
    BY <1>1, <1>2 DEF Layout, EvenNext, Even
  <2> QED BY <1>1, <1>8, <2>1, <2>2, <2>3, <2>4, <2>5, <2>6 DEF Layout
<1>10. FlashFrames' /\ Noted' /\ Flashing'
  BY <1>1, <1>2 DEF FlashFrames, Noted, Nested, Flashing
<1>11. Written'
  <2> SUFFICES ASSUME NEW a \in Apps, NEW e, InFlash(a) = {e}, NEW u \in Nat
               PROVE  Holds(a, e, u)
    BY <1>1, <1>3 DEF Written, Holds, FlashStays
  <2>1. CASE a = cur
    BY <1>7, <2>1
  <2>2. CASE a # cur
    BY <1>4, <2>2 DEF Written
  <2> QED BY <2>1, <2>2
<1> QED BY <1>9, <1>10, <1>11

(* Between loads everything is recorded, written and below flash_addr.      *)
AllCovered == \A a \in Apps : \A e \in InFlash(a) : \A u \in Nat : e.prg <= u /\ u < EndOf(a, e) => Covered(u)
AllHeld == \A a \in Apps : \A e : InFlash(a) = {e} => \A u \in Nat : Holds(a, e, u)
Settled == /\ InBounds /\ EvenRecords /\ EvenFirst /\ Ordered /\ Apart /\ Below /\ Even(flash_addr) /\ lst = {}
           /\ AllCovered /\ AllHeld

LEMMA IdleSettled ==
    ASSUME ListInv, Layout, Written, pc = "idle"
    PROVE  Settled
<1>1. stack = <<>> /\ Len(stack) = 0 /\ \A a : ~Loads(a)
  BY EmptySeq DEF ListInv, Calls, Loads
<1>2. Even(flash_addr)
  BY <1>1 DEF Layout, EvenNext
<1>3. AllCovered
  BY <1>1 DEF Layout, Recorded, AllCovered
<1>4. AllHeld
  BY <1>1 DEF Written, AllHeld
<1> QED BY <1>2, <1>3, <1>4 DEF Settled, Layout

LEMMA SettledFlash ==
    ASSUME Settled', stack' = <<>>, pc' \in {"idle", "roots"},
           pc' = "roots" => \A a \in Apps : a = cur' => InFlash(a)' = {}
    PROVE  Layout' /\ FlashFrames' /\ Noted' /\ Flashing' /\ Written'
<1>1. Len(stack') = 0 /\ \A a \in Apps : Loads(a)' \/ Nested(a)' => InFlash(a)' = {}
  BY EmptySeq DEF Loads, Nested
<1>2. LastLoaded' /\ NoFlash'
  BY <1>1 DEF LastLoaded, NoFlash, Before
<1>3. Recorded'
  BY DEF Settled, AllCovered, Recorded
<1>4. EvenNext'
  BY DEF Settled, EvenNext
<1>5. Layout'
  BY <1>2, <1>3, <1>4 DEF Settled, Layout
<1>6. FlashFrames' /\ Flashing'
  BY <1>1 DEF FlashFrames, Flashing
<1>7. Noted'
  <2>1. lst' = {}
    BY DEF Settled
  <2> QED BY <1>1, <2>1 DEF Noted
<1>8. Written'
  BY DEF Settled, AllHeld, Written
<1> QED BY <1>5, <1>6, <1>7, <1>8

(* The records a clean-up removes lie between the first and the last        *)
(* section of the program.                                                  *)
LEMMA HeldBetween ==
    ASSUME ListInv, NEW a \in Apps, NEW r \in Held(a)
    PROVE  \E e, g \in InFlash(a) : e.prg <= r /\ r <= g.prg
<1> DEFINE n == Len(app[a].entries)
           f == [k \in 1..n |-> app[a].entries[k].prg]
<1>1. InFlash(a) # {} /\ r <= Max(FlashStarts(a)) /\ r >= Min(FlashStarts(a)) /\ r \in flash_list.recs
  BY DEF Held, HeldBelow, HeldAbove
<1>2. r \in Nat
  <2>1. flash_list.recs \subseteq Nat
    BY DEF ListInv, LoaderTypeOK
  <2> QED BY <1>1, <2>1
<1>3. FlashStarts(a) \subseteq Nat /\ FlashStarts(a) # {}
  BY <1>1, SpanFacts DEF FlashStarts
<1>4. IsFiniteSet(FlashStarts(a))
  <2>1. n \in Nat /\ DOMAIN app[a].entries = 1..n
    BY AppFacts DEF ListInv, LoaderTypeOK
  <2>2. IsFiniteSet(1..n)
    BY <2>1, FS_Interval
  <2>3. IsFiniteSet({f[k] : k \in 1..n})
    <3>1. PICK S : S = 1..n /\ IsFiniteSet(S)
      BY <2>2
    <3>2. DOMAIN f = S
      BY <3>1
    <3> HIDE DEF f
    <3> QED BY <3>1, <3>2, MappedFinite
  <2>4. FlashStarts(a) \subseteq {f[k] : k \in 1..n}
    <3> SUFFICES ASSUME NEW e \in InFlash(a) PROVE e.prg \in {f[k] : k \in 1..n}
      BY DEF FlashStarts
    <3>1. PICK k \in 1..n : e = app[a].entries[k]
      BY <2>1 DEF InFlash
    <3> QED BY <3>1
  <2> QED BY <2>3, <2>4, FS_Subset
<1>5. Min(FlashStarts(a)) \in FlashStarts(a)
  BY <1>3, MinIn
<1>6. Max(FlashStarts(a)) \in FlashStarts(a)
  BY <1>3, <1>4, MaxIn
<1>7. PICK e \in InFlash(a) : Min(FlashStarts(a)) = e.prg
  BY <1>5 DEF FlashStarts
<1>8. PICK g \in InFlash(a) : Max(FlashStarts(a)) = g.prg
  BY <1>6 DEF FlashStarts
<1>9. e.prg \in Nat /\ g.prg \in Nat
  BY SpanFacts
<1> QED BY <1>1, <1>2, <1>7, <1>8, <1>9

(* A clean-up leaves the others recorded, and flash_addr behind them.       *)
LEMMA CleansFlash ==
    ASSUME ListInv, Settled, NEW a \in Apps, CleanedUp(a), UNCHANGED <<lst, flash>>, InFlash(a)' = {},
           \A b \in Apps : b # a => /\ InFlash(b)' = InFlash(b)
                                    /\ \A e \in InFlash(b) : EndOf(b, e)' = EndOf(b, e)
    PROVE  Settled'
<1>1. /\ flash_list'.recs = flash_list.recs \ Held(a) /\ flash_addr' \in Nat /\ flash_list.recs \subseteq Nat
      /\ flash_list.made = FALSE => flash_addr' = flash_addr /\ flash_list.recs = {}
      /\ flash_list.made # FALSE => /\ \A r \in flash_list'.recs : r + Sector <= flash_addr'
                                    /\ flash_addr' = Base \/ \E r \in flash_list'.recs : flash_addr' = r + Sector
  <2>1. flash_list.recs \subseteq Nat
    BY DEF ListInv, LoaderTypeOK
  <2>2. flash_list.made = FALSE => flash_list.recs = {}
    BY DEF ListInv, Addresses
  <2> QED BY <2>1, <2>2 DEF CleanedUp
<1>2. \A b \in Apps : \A e \in InFlash(b)' : /\ b # a /\ e \in InFlash(b) /\ EndOf(b, e)' = EndOf(b, e)
                                             /\ e.prg \in Nat /\ EndOf(b, e) \in Nat /\ e.prg < EndOf(b, e)
  BY SpanFacts
<1>3. ASSUME NEW b \in Apps, NEW e \in InFlash(b)', NEW u \in Nat, e.prg <= u, u < EndOf(b, e)
      PROVE  Covered(u)'
  <2>1. PICK r \in flash_list.recs : r <= u /\ u < r + Sector
    BY <1>2, <1>3 DEF Settled, AllCovered, Covered
  <2>2. r \in Nat /\ Even(r)
    BY <1>1 DEF Settled, EvenRecords
  <2>3. ASSUME r \in Held(a)
        PROVE  FALSE
    <3>1. PICK e1 \in InFlash(a), e2 \in InFlash(a) : e1.prg <= r /\ r <= e2.prg
      BY <2>3, HeldBetween
    <3>2. /\ e1.prg \in Nat /\ e2.prg \in Nat /\ EndOf(a, e2) \in Nat /\ e2.prg < EndOf(a, e2)
          /\ e.prg \in Nat /\ EndOf(b, e) \in Nat /\ e \in InFlash(b) /\ b # a
      BY <1>2, <1>3, SpanFacts
    <3>3. CASE Before(b, a)
      <4>1. EndOf(b, e) <= e1.prg
        BY <3>2, <3>3 DEF Before
      <4> QED BY <1>3, <2>1, <2>2, <3>1, <3>2, <4>1
    <3>4. CASE Before(a, b)
      <4>1. PICK f : FirstIn(b, f)
        BY <3>2 DEF Settled, EvenFirst
      <4>2. f \in InFlash(b) /\ Even(f.prg) /\ f.prg <= e.prg /\ f.prg \in Nat
        BY <3>2, <4>1, SpanFacts DEF FirstIn
      <4>3. EndOf(a, e2) <= f.prg
        BY <3>4, <4>2 DEF Before
      <4>4. f.prg = r + 1
        BY <1>3, <2>1, <2>2, <3>1, <3>2, <4>2, <4>3 DEF Sector
      <4> QED BY <2>2, <4>2, <4>4, EvenFacts
    <3> QED BY <3>2, <3>3, <3>4 DEF Settled, Ordered
  <2> QED BY <1>1, <2>1, <2>3 DEF Covered
<1>4. AllCovered'
  BY <1>2, <1>3 DEF AllCovered
<1>5. Below'
  <2>1. \A r \in flash_list'.recs : r + Sector <= flash_addr'
    BY <1>1
  <2>2. ASSUME NEW b \in Apps, NEW e \in InFlash(b)'
        PROVE  EndOf(b, e) <= flash_addr'
    <3>1. PICK u \in Nat : e.prg <= u /\ u < EndOf(b, e) /\ u + 1 = EndOf(b, e)
      <4>1. EndOf(b, e) - 1 \in Nat /\ e.prg <= EndOf(b, e) - 1 /\ EndOf(b, e) - 1 < EndOf(b, e)
            /\ (EndOf(b, e) - 1) + 1 = EndOf(b, e)
        BY <1>2, <2>2
      <4> QED BY <4>1
    <3>2. PICK r \in flash_list'.recs : u < r + Sector
      BY <1>3, <2>2, <3>1 DEF Covered
    <3>3. r \in Nat /\ r + Sector <= flash_addr'
      BY <1>1, <2>1, <3>2
    <3> QED BY <1>1, <3>1, <3>2, <3>3 DEF Sector
  <2> QED BY <1>2, <2>1, <2>2 DEF Below
<1>6. EvenRecords' /\ Even(flash_addr)'
  <2>1. \A r \in flash_list'.recs : r \in Nat /\ Even(r)
    BY <1>1 DEF Settled, EvenRecords
  <2>2. Even(Base)
    BY DEF Even, Base, Sector
  <2>3. \A r \in flash_list'.recs : Even(r + Sector)
    BY <2>1, EvenFacts
  <2>4. Even(flash_addr)
    BY DEF Settled
  <2>5. flash_addr' = flash_addr \/ flash_addr' = Base \/ \E r \in flash_list'.recs : flash_addr' = r + Sector
    BY <1>1
  <2> QED BY <2>1, <2>2, <2>3, <2>4, <2>5 DEF EvenRecords, Even
<1>7. InBounds' /\ Apart'
  <2>1. InBounds'
    BY <1>2 DEF Settled, InBounds
  <2>2. Apart'
    BY <1>2 DEF Settled, Apart
  <2> QED BY <2>1, <2>2
<1>8. Ordered'
  <2> SUFFICES ASSUME NEW b \in Apps, NEW c \in Apps, b # c
               PROVE  Before(b, c)' \/ Before(c, b)'
    BY DEF Ordered
  <2>1. Before(b, c) \/ Before(c, b)
    BY DEF Settled, Ordered
  <2> QED BY <1>2, <2>1 DEF Before
<1>9. EvenFirst'
  <2> SUFFICES ASSUME NEW b \in Apps, InFlash(b)' # {}
               PROVE  \E f : f \in InFlash(b)' /\ Even(f.prg) /\ \A g \in InFlash(b)' : f.prg <= g.prg
    BY DEF EvenFirst, FirstIn, Even
  <2>1. InFlash(b)' = InFlash(b)
    OBVIOUS
  <2>2. PICK f : FirstIn(b, f)
    BY <2>1 DEF Settled, EvenFirst
  <2> QED BY <2>1, <2>2 DEF FirstIn
<1>10. AllHeld'
  <2> SUFFICES ASSUME NEW b \in Apps, NEW e, InFlash(b)' = {e}, NEW u \in Nat
               PROVE  Holds(b, e, u)'
    BY DEF AllHeld
  <2>1. b # a /\ InFlash(b) = {e} /\ EndOf(b, e)' = EndOf(b, e)
    BY <1>2
  <2>2. Holds(b, e, u)
    BY <2>1 DEF Settled, AllHeld
  <2> QED BY <2>1, <2>2 DEF Holds
<1> QED BY <1>4, <1>5, <1>6, <1>7, <1>8, <1>9, <1>10 DEF Settled

LEMMA SettledStays ==
    ASSUME Settled, FlashStays, UNCHANGED <<flash_list, flash_addr, flash, lst>>
    PROVE  Settled'
<1>1. InBounds' /\ Below'
  BY DEF Settled, InBounds, Below, FlashStays
<1>2. EvenRecords' /\ Even(flash_addr)'
  BY DEF Settled, EvenRecords, Even
<1>3. EvenFirst'
  <2> SUFFICES ASSUME NEW b \in Apps, InFlash(b) # {}
               PROVE  \E f : FirstIn(b, f)'
    BY DEF EvenFirst, FlashStays
  <2>1. PICK f : FirstIn(b, f)
    BY DEF Settled, EvenFirst
  <2> QED BY <2>1 DEF FirstIn, FlashStays
<1>4. Ordered' /\ Apart'
  <2>1. Ordered'
    BY DEF Settled, Ordered, Before, FlashStays
  <2>2. Apart'
    BY DEF Settled, Apart, FlashStays
  <2> QED BY <2>1, <2>2
<1>5. AllCovered'
  <2>1. \A u : Covered(u)' <=> Covered(u)
    BY DEF Covered
  <2> QED BY <2>1 DEF Settled, AllCovered, FlashStays
<1>6. AllHeld'
  BY DEF Settled, AllHeld, Holds, FlashStays
<1> QED BY <1>1, <1>2, <1>3, <1>4, <1>5, <1>6 DEF Settled

LEMMA NewAppFlash ==
    ASSUME ListInv, Layout, Written, NEW a \in Apps, NEW i \in Images, NEW byFlash, NewAppIs(a, i, byFlash)
    PROVE  Layout' /\ FlashFrames' /\ Noted' /\ Flashing' /\ Written'
<1>1. /\ pc = "idle" /\ pc' = "roots" /\ cur' = a /\ UNCHANGED <<lst, flash, stack>> /\ app[a].stage = "none"
      /\ app'[a].entries = <<>>
      /\ \A b \in Apps : b # a =>
           IF app[b].stage = "failed" THEN app'[b].stage = "gone" /\ app'[b].entries = <<>>
           ELSE app'[b] = app[b]
      /\ \/ /\ \A b \in Apps : app[b].stage # "failed"
            /\ UNCHANGED <<flash_list, flash_addr>>
         \/ \E b \in Apps : app[b].stage = "failed" /\ b # a /\ CleanedUp(b)
  BY DEF NewAppIs, Started
<1>2. Settled /\ stack' = <<>>
  BY <1>1, IdleSettled DEF ListInv, Calls
<1>3. \A b \in Apps : app'[b].entries = <<>> => InFlash(b)' = {}
  BY EmptySeq DEF InFlash
<1>4. InFlash(a) = {} /\ InFlash(a)' = {}
  BY <1>1, <1>3, SpanFacts DEF ListInv, Stages
<1>5. \A b \in Apps : b # a /\ app'[b] = app[b] => InFlash(b)' = InFlash(b) /\ \A e : EndOf(b, e)' = EndOf(b, e)
  BY DEF InFlash, EndOf
<1>6. CASE (\A b \in Apps : app[b].stage # "failed") /\ UNCHANGED <<flash_list, flash_addr>>
  <2>1. FlashStays
    BY <1>1, <1>4, <1>5, <1>6 DEF FlashStays
  <2>2. Settled'
    BY <1>1, <1>2, <1>6, <2>1, SettledStays
  <2> QED BY <1>1, <1>2, <1>4, <2>2, SettledFlash
<1>7. ASSUME NEW b \in Apps, app[b].stage = "failed", b # a, CleanedUp(b)
      PROVE  Settled'
  <2>1. \A c \in Apps : c # b => app[c].stage # "failed"
    BY <1>7 DEF ListInv, Stages
  <2>2. InFlash(b)' = {}
    BY <1>1, <1>3, <1>7
  <2>3. \A c \in Apps : c # b => InFlash(c)' = InFlash(c) /\ \A e \in InFlash(c) : EndOf(c, e)' = EndOf(c, e)
    BY <1>1, <1>4, <1>5, <2>1
  <2> QED BY <1>1, <1>2, <1>7, <2>2, <2>3, CleansFlash
<1>8. ASSUME Settled'
      PROVE  Layout' /\ FlashFrames' /\ Noted' /\ Flashing' /\ Written'
  BY <1>1, <1>2, <1>4, <1>8, SettledFlash
<1> QED BY <1>1, <1>6, <1>7, <1>8

LEMMA GoneFlash ==
    ASSUME ListInv, Layout, Written, Calm', NEW a \in Apps, EndsIs(a)
    PROVE  Layout' /\ FlashFrames' /\ Noted' /\ Flashing' /\ Written'
<1>1. /\ CleanedUp(a) /\ pc = "idle" /\ pc' = "idle" /\ UNCHANGED <<lst, flash, stack>>
      /\ app'[a].entries = <<>> /\ \A b \in Apps : b # a => app'[b] = app[b]
  BY DEF EndsIs, Calm
<1>2. Settled /\ stack' = <<>>
  BY <1>1, IdleSettled DEF ListInv, Calls
<1>3. InFlash(a)' = {}
  BY <1>1, EmptySeq DEF InFlash
<1>4. \A b \in Apps : b # a => InFlash(b)' = InFlash(b) /\ \A e \in InFlash(b) : EndOf(b, e)' = EndOf(b, e)
  BY <1>1 DEF InFlash, EndOf
<1>5. Settled'
  BY <1>1, <1>2, <1>3, <1>4, CleansFlash
<1> QED BY <1>1, <1>2, <1>5, SettledFlash

LEMMA StutterFlash ==
    ASSUME ListInv, Layout, FlashFrames, Noted, Flashing, Written, UNCHANGED vars
    PROVE  Layout' /\ FlashFrames' /\ Noted' /\ Flashing' /\ Written'
<1>1. UNCHANGED <<app, flash_addr, lst, flash_list, flash, file, addr, top, pc, cur, useFlash, stack>>
  BY DEF vars, FlashVars, LoaderVars
<1>2. FlashStays
  BY <1>1, Stays
<1>3. \A i : Placed(i)' <=> Placed(i)
  BY <1>1 DEF Placed
<1>4. \A u : Covered(u)' <=> Covered(u)
  BY <1>1 DEF Covered
<1>5. /\ InBounds' /\ EvenRecords' /\ EvenFirst' /\ Ordered' /\ LastLoaded' /\ Apart'
      /\ Recorded' /\ NoFlash' /\ \A a : Loads(a)' <=> Loads(a)
  BY <1>1, <1>2, LayoutStands
<1>6. Below' <=> Below
  BY <1>1, <1>2 DEF Below, FlashStays
<1>7. EvenNext'
  BY <1>1, <1>3 DEF Layout, EvenNext, Even
<1>8. Layout'
  BY <1>1, <1>5, <1>6, <1>7 DEF Layout
<1>9. FlashFrames'
  BY <1>1, <1>3 DEF FlashFrames, image
<1>10. \A a \in Apps : \A e \in InFlash(a) : FileHas(a, e)' <=> FileHas(a, e)
  BY <1>1, <1>2 DEF FileHas, FlashStays
<1>11. Noted'
  <2>1. \A e : OnStack(e)' <=> OnStack(e)
    BY <1>1, <1>3 DEF OnStack
  <2> SUFFICES ASSUME NEW a \in Apps, Nested(a)
               PROVE  /\ \A g \in InFlash(a), r \in flash_list.recs : r + Sector <= g.prg
                      /\ \A o \in lst : \E e \in InFlash(a) : o.offset = e.prg
                      /\ \A e \in InFlash(a) : OnStack(e)' \/
                           \E o \in lst : o.offset = e.prg /\ EndOf(a, e)' <= o.offset + o.size
                      /\ \A e : InFlash(a) = {e} => OnStack(e)' \/ FileHas(a, e)'
    BY <1>1, <1>2 DEF Noted, FlashStays, Nested
  <2> QED BY <1>2, <1>10, <2>1 DEF Noted, FlashStays
<1>12. Written'
  BY <1>1, <1>2, <1>5 DEF Written, Holds, FlashStays
<1>13. \A a \in Apps : \A f : Progress(a, f) => Progress(a, f)'
  <2> SUFFICES ASSUME NEW a \in Apps, NEW f, Progress(a, f) PROVE Progress(a, f)'
    OBVIOUS
  <2>1. FirstIn(a, f)' /\ f \in InFlash(a)
    BY <1>2, SpansStay DEF Progress, FirstIn
  <2>2. InFlash(a)' = InFlash(a) /\ \A g \in InFlash(a) : EndOf(a, g)' = EndOf(a, g)
    BY <1>2 DEF FlashStays
  <2>3. \A g \in InFlash(a)' : EndOf(a, g)' <= top'
    BY <1>1, <2>2 DEF Progress
  <2>4. Even(addr)' /\ f.prg <= addr' /\ (addr' = f.prg \/ flash_addr' = addr')
        /\ \A r \in flash_list'.recs : r + Sector <= addr'
    BY <1>1 DEF Progress, Even
  <2>5. \A u \in Nat : f.prg <= u /\ u < addr' => Covered(u)'
    BY <1>1, <1>4 DEF Progress
  <2>6. \A u \in Nat : Holds(a, f, u)' <=> Holds(a, f, u)
    BY <1>1, <2>1, <2>2 DEF Holds
  <2>7. InFlash(a)' = {f} => FileHas(a, f)' /\ \A u \in Nat : u < addr' => Holds(a, f, u)'
    BY <1>1, <1>10, <2>1, <2>2, <2>6 DEF Progress
  <2> QED BY <2>1, <2>3, <2>4, <2>5, <2>7 DEF Progress
<1>14. Flashing'
  <2> SUFFICES ASSUME NEW a \in Apps, a = cur, pc = "flash"
               PROVE  ((InFlash(a) = {} /\ addr >= top /\ Below) \/ \E f : Progress(a, f))'
    BY <1>1 DEF Flashing
  <2>1. CASE InFlash(a) = {} /\ addr >= top /\ Below
    BY <1>1, <1>2, <1>6, <2>1 DEF FlashStays
  <2>2. CASE \E f : Progress(a, f)
    BY <1>13, <2>2
  <2> QED BY <2>1, <2>2 DEF Flashing
<1> QED BY <1>8, <1>9, <1>11, <1>12, <1>14

LEMMA FlashInitially == Init => FlashInv
<1> SUFFICES ASSUME Init PROVE Layout /\ FlashFrames /\ Noted /\ Flashing /\ Written
  BY DEF FlashInv
<1>1. /\ \A a \in Apps : app[a] = NoApp
      /\ stack = <<>> /\ pc = "idle" /\ lst = {} /\ flash_list.recs = {} /\ flash_addr = Base
  BY DEF Init
<1>2. \A a \in Apps : InFlash(a) = {}
  <2>1. \A a \in Apps : app[a].entries = <<>>
    BY <1>1 DEF NoApp
  <2> QED BY <2>1, EmptySeq DEF InFlash
<1>3. Len(stack) = 0
  BY <1>1, EmptySeq
<1>4. Even(flash_addr)
  BY <1>1 DEF Even, Base, Sector
<1>5. Layout
  BY <1>1, <1>2, <1>4 DEF Layout, InBounds, EvenRecords, EvenFirst, Ordered, LastLoaded, Before, Apart, Recorded,
                          NoFlash, Below, EvenNext
<1>6. FlashFrames /\ Noted /\ Flashing /\ Written
  BY <1>1, <1>2, <1>3 DEF FlashFrames, Noted, Nested, Flashing, Written
<1> QED BY <1>5, <1>6

LEMMA HazardsStay == [Next]_vars => hazards \subseteq hazards'
BY DEF Next, Loader, vars, load_app, End, load_sec2mem_wrapper, Place, Relocate, Returned, Complete,
       WriteFlashMe, Unwritten, Wrapped, FailOwn, FailNested, Fail, StartFlash, Program, ProgramPart,
       GiveUp, LoadEnds

(* A section completed in a load that met nothing is above what its frame   *)
(* began from: the difference of the two addresses does not wrap.           *)
LEMMA NoWrap ==
    ASSUME ListInv, Tidy, FlashFrames, Wrapped
    PROVE  FALSE
<1>1. pc = "link" /\ stack # <<>> /\ Head(stack).new < Head(stack).prev
  BY DEF Wrapped, ListInv, Calls
<1>2. Head(stack) = stack[1] /\ 1 \in 1..Len(stack) /\ stack[1] \in FrameType /\ Placed(1)
  BY <1>1, StackFacts DEF ListInv, Placed
<1>3. PICK f \in FrameType : f = stack[1]
  BY <1>2
<1>4. f.new \in Nat /\ f.prev \in Nat /\ f.prg \in Nat /\ f.sec \in Sections /\ f.new < f.prev
  BY <1>1, <1>2, <1>3 DEF FrameType
<1>5. f.prg > RamStart => f.new = f.prev
  BY <1>2, <1>3 DEF Tidy
<1>6. f.prg <= RamStart => f.new = f.prg + image.size[f.sec] /\ f.prev <= f.prg
  BY <1>2, <1>3 DEF FlashFrames
<1>7. image.size[f.sec] \in Nat \ {0}
  <2>1. image.size \in [Sections -> Nat \ {0}]
    BY <1>1, Loading
  <2> QED BY <1>4, <2>1
<1> QED BY <1>4, <1>5, <1>6, <1>7, Constants

LEMMA NextFlash ==
    ASSUME ListInv, ClosedInv, FlashInv, [Next]_vars
    PROVE  FlashInv'
<1> DEFINE Good == Layout /\ FlashFrames /\ Noted /\ Flashing /\ Written
<1> SUFFICES ASSUME Calm' PROVE Good'
  BY DEF FlashInv
<1>t. Calm /\ Tidy /\ Layout /\ FlashFrames /\ Noted /\ Flashing /\ Written
  BY HazardsStay DEF Calm, ClosedInv, FlashInv
<1>1. ASSUME NEW a \in Apps, NEW i \in Images, NEW byFlash \in BOOLEAN, load_app(a, i, byFlash)
      PROVE  Good'
  BY <1>1, <1>t, NewApp, NewAppFlash
<1>2. ASSUME NEW a \in Apps, End(a)
      PROVE  Good'
  BY <1>2, <1>t, Gone, GoneFlash
<1>c. ASSUME CallStep, FlashStays
      PROVE  Good'
  BY <1>c, <1>t, CallsFlash
<1>3. CASE load_sec2mem_wrapper
  <2>1. /\ pc = "roots" /\ stack = <<>>
        /\ \/ /\ pc' = "ret"
              /\ UNCHANGED <<app, flash_addr, lst, cur, useFlash, stack>> /\ FlashSame
           \/ CallIs(image.roots[Len(app[cur].boot) + 1])
    BY <1>3, WrapperCalls
  <2>2. CASE CallIs(image.roots[Len(app[cur].boot) + 1])
    BY <1>c, <2>1, <2>2, CallIsStep
  <2>3. CASE pc' = "ret" /\ UNCHANGED <<app, flash_addr, lst, cur, useFlash, stack>> /\ FlashSame
    <3>1. cur \in Apps
      BY <2>1, Loading
    <3> QED BY <1>c, <2>1, <2>3, <3>1, QuietStep DEF FlashSame
  <2> QED BY <2>1, <2>2, <2>3
<1>4. CASE Place
  <2>1. PICK s, p, n : PlaceIs(s, p, n)
    BY <1>4, Placing
  <2>2. CASE InRam(s)
    BY <1>c, <2>1, <2>2, PlaceRamStep
  <2>3. CASE ~InRam(s)
    BY <1>t, <2>1, <2>3, PlaceFlash
  <2> QED BY <2>2, <2>3
<1>5. CASE Relocate
  <2>1. pc = "link" /\ stack # <<>> /\ \E s, p : LinkIs(s, p) \/ CallIs(s)
    BY <1>5, RelocateIs
  <2>2. PICK s, p : LinkIs(s, p) \/ CallIs(s)
    BY <2>1
  <2> QED BY <1>c, <2>1, <2>2, LinkIsStep, CallIsStep
<1>6. CASE Returned
  <2>1. pc = "ret" /\ (BootIs \/ (stack # <<>> /\ \E s, p : LinkIs(s, p)))
    BY <1>6, ReturnedIs
  <2>2. CASE BootIs
    <3>1. /\ UNCHANGED <<flash_addr, lst, cur, useFlash, stack>> /\ FlashSame /\ stack = <<>> /\ pc' = "roots"
          /\ \A b \in Apps : app'[b].entries = app[b].entries /\ app'[b].image = app[b].image
      BY <2>2 DEF BootIs
    <3>2. cur \in Apps
      BY <2>1, Loading
    <3> QED BY <1>c, <2>1, <3>1, <3>2, QuietStep DEF FlashSame
  <2>3. CASE stack # <<>> /\ \E s, p : LinkIs(s, p)
    BY <1>c, <2>1, <2>3, LinkIsStep
  <2> QED BY <2>1, <2>2, <2>3
<1>7. CASE Complete
  <2>1. PICK f : CompleteIs(f)
    BY <1>7, Completing
  <2>2. CASE f.new = f.prev
    BY <1>c, <1>t, <2>1, <2>2, CompleteRamStep
  <2>3. CASE f.new # f.prev
    BY <1>t, <2>1, <2>3, CompleteFlash
  <2> QED BY <2>2, <2>3
<1>8. CASE Wrapped
  BY <1>8, <1>t, NoWrap
<1>9. CASE FailOwn \/ FailNested
  <2>1. hazards' # {}
    BY <1>9, Failing DEF FailIs
  <2> QED BY <2>1 DEF Calm
<1>10. CASE StartFlash
  BY <1>10, <1>t, StartsFlash
<1>11. CASE Program
  BY <1>11, <1>t, ProgramsFlash
<1>12. CASE GiveUp
  <2>1. hazards' # {}
    BY <1>12 DEF GiveUp
  <2> QED BY <2>1 DEF Calm
<1>13. CASE LoadEnds
  BY <1>13, <1>t, Ending, LoadedFlash
<1>14. CASE UNCHANGED vars
  BY <1>14, <1>t, StutterFlash
<1>15. CASE ProgramPart
  <2>1. hazards' # {}
    BY <1>15 DEF ProgramPart
  <2> QED BY <2>1 DEF Calm
<1> QED BY <1>1, <1>2, <1>3, <1>4, <1>5, <1>6, <1>7, <1>8, <1>9, <1>10, <1>11, <1>12, <1>13, <1>14, <1>15
        DEF Next, Loader

(* The three invariants together.                                           *)
LoaderFacts == ListInv /\ ClosedInv /\ FlashInv
THEOREM FlashInvariant == Spec => []LoaderFacts
<1>1. Init => LoaderFacts
  BY ListInitially, ClosedInitially, FlashInitially DEF LoaderFacts
<1>2. LoaderFacts /\ [Next]_vars => LoaderFacts'
  BY NextLists, NextCloses, NextFlash DEF LoaderFacts
<1> QED BY <1>1, <1>2, PTL DEF Spec

LEMMA UnitsSpan ==
    ASSUME ListInv, NEW a \in Apps, NEW e \in InFlash(a)
    PROVE  \A u : u \in Units(a, e) <=> u \in Nat /\ e.prg <= u /\ u < EndOf(a, e)
<1>1. e.prg \in Nat /\ app[a].image.size[e.sec] \in Nat
  BY SpanFacts, SizeFacts
<1> QED BY <1>1 DEF Units, EndOf

LEMMA NotLoading ==
    ASSUME ListInv, NEW a \in Ready
    PROVE  a \in Apps /\ ~Loads(a)
<1>1. a \in Apps /\ app[a].stage = "ready"
  BY DEF Ready
<1> QED BY <1>1 DEF ListInv, Stages, Loads

(* No two sections, of one program or of two, share flash: sec_align never   *)
(* hands out what another section still uses.                               *)
THEOREM NothingShared == Spec => []SectionsDisjoint
<1>1. LoaderFacts => SectionsDisjoint
  <2> SUFFICES ASSUME LoaderFacts, Calm, NEW a \in Apps, NEW b \in Apps,
                      NEW e \in InFlash(a), NEW g \in InFlash(b), a # b \/ e # g, NEW u,
                      u \in Units(a, e), u \in Units(b, g)
               PROVE  FALSE
    BY DEF SectionsDisjoint
  <2>1. ListInv /\ Layout
    BY DEF LoaderFacts, FlashInv
  <2>2. u \in Nat /\ e.prg <= u /\ u < EndOf(a, e) /\ g.prg <= u /\ u < EndOf(b, g)
    BY <2>1, UnitsSpan
  <2>3. e.prg \in Nat /\ EndOf(a, e) \in Nat /\ g.prg \in Nat /\ EndOf(b, g) \in Nat
    BY <2>1, SpanFacts
  <2>4. EndOf(a, e) <= g.prg \/ EndOf(b, g) <= e.prg
    <3>1. CASE a = b
      BY <2>1, <3>1 DEF Layout, Apart
    <3>2. CASE a # b
      BY <2>1, <3>2 DEF Layout, Ordered, Before
    <3> QED BY <3>1, <3>2
  <2> QED BY <2>2, <2>3, <2>4
<1> QED BY <1>1, FlashInvariant, PTL

(* The flash a program runs from is recorded in flash_list and lies below   *)
(* flash_addr, so that the next load goes elsewhere.                        *)
THEOREM RecordedBelow == Spec => []LoaderInv
<1>1. LoaderFacts => SectorsRecorded
  <2> SUFFICES ASSUME LoaderFacts, Calm, NEW a \in Ready, NEW u \in AllUnits(a)
               PROVE  /\ \E r \in flash_list.recs : u \in r..(r + Sector - 1)
                      /\ pc # "flash" => u < flash_addr
    BY DEF SectorsRecorded
  <2>1. ListInv /\ Layout /\ a \in Apps /\ ~Loads(a)
    BY NotLoading DEF LoaderFacts, FlashInv
  <2>2. PICK e \in InFlash(a) : u \in Units(a, e)
    BY DEF AllUnits
  <2>3. u \in Nat /\ e.prg <= u /\ u < EndOf(a, e) /\ EndOf(a, e) \in Nat
    BY <2>1, <2>2, UnitsSpan, SpanFacts
  <2>4. PICK r \in flash_list.recs : r <= u /\ u < r + Sector
    BY <2>1, <2>3 DEF Layout, Recorded, Covered
  <2>5. flash_list.recs \subseteq Nat /\ flash_addr \in Nat
    BY <2>1 DEF ListInv, LoaderTypeOK
  <2>6. u \in r..(r + Sector - 1)
    BY <2>3, <2>4, <2>5 DEF Sector
  <2>7. pc # "flash" => u < flash_addr
    BY <2>1, <2>3, <2>5 DEF Layout, Below
  <2> QED BY <2>6, <2>7
<1>2. LoaderFacts => LoaderInv
  BY <1>1 DEF LoaderFacts, ListInv, LoaderInv
<1> QED BY <1>2, FlashInvariant, PTL

(* A program with one section in flash finds that section there: the last   *)
(* thing written to flash_me is what the loop programs.                     *)
THEOREM LastSectionThere == Spec => []FlashHolds
<1>1. LoaderFacts => FlashHolds
  <2> SUFFICES ASSUME LoaderFacts, Calm, NEW a \in Ready, NEW e \in InFlash(a), InFlash(a) = {e},
                      NEW u \in Units(a, e)
               PROVE  flash[u] = <<a, e.sec>>
    BY DEF FlashHolds
  <2>1. ListInv /\ Written /\ a \in Apps /\ ~Loads(a)
    BY NotLoading DEF LoaderFacts, FlashInv
  <2>2. u \in Nat /\ e.prg <= u /\ u < EndOf(a, e)
    BY <2>1, UnitsSpan
  <2> QED BY <2>1, <2>2 DEF Written, Holds
<1> QED BY <1>1, FlashInvariant, PTL

(* Nothing that is loaded later changes the flash a program runs from: the  *)
(* sectors programmed begin behind every other program.                     *)
THEOREM RunningFlashKept == Spec => FlashKept
<1>1. ASSUME LoaderFacts, Next, NEW a \in Ready, Calm', NEW u \in AllUnits(a)
      PROVE  flash'[u] = flash[u]
  <2>1. ListInv /\ Layout /\ Flashing /\ a \in Apps /\ ~Loads(a)
    BY <1>1, HazardsStay, NotLoading DEF LoaderFacts, FlashInv, Calm
  <2>2. PICK e \in InFlash(a) : u \in Units(a, e)
    BY DEF AllUnits
  <2>3. u \in Nat /\ e.prg <= u /\ u < EndOf(a, e) /\ EndOf(a, e) \in Nat /\ EndOf(a, e) <= FlashTop
    BY <2>1, <2>2, UnitsSpan, SpanFacts DEF Layout, InBounds
  <2>4. CASE UNCHANGED flash
    BY <2>4
  <2>5. CASE Program
    <3>1. pc = "flash" /\ addr < top /\ flash_block(Read)
      BY <2>5 DEF Program
    <3>2. cur \in Apps /\ addr \in Nat /\ top \in Nat
      <4>1. addr \in Nat /\ top \in Nat
        BY <2>1 DEF ListInv, LoaderTypeOK
      <4> QED BY <2>1, <3>1, <4>1, Loading
    <3>3. PICK c \in Apps : c = cur
      BY <3>2
    <3>4. PICK f : Progress(c, f)
      <4>1. ~(addr >= top)
        BY <3>1, <3>2
      <4> QED BY <2>1, <3>1, <3>3, <4>1 DEF Flashing
    <3>5. f \in InFlash(c) /\ f.prg <= addr /\ Even(addr) /\ f.prg \in Nat
      BY <2>1, <3>4, SpanFacts DEF Progress, FirstIn
    <3>6. EndOf(a, e) <= f.prg
      <4>1. Loads(c) /\ a # c
        BY <2>1, <3>1, <3>3 DEF Loads
      <4> QED BY <2>1, <2>2, <3>5, <4>1 DEF Layout, LastLoaded, Before
    <3>7. u < addr /\ u \in 0..FlashTop
      BY <2>3, <3>2, <3>5, <3>6, Constants
    <3>8. UNCHANGED flash \/ flash' = [w \in 0..FlashTop |-> Programmed(w, Read)]
      BY <3>1 DEF flash_block
    <3> QED BY <2>1, <3>5, <3>7, <3>8, UnitFacts
  <2>6. UNCHANGED flash \/ Program
    <3>1. ~ProgramPart
      BY <1>1 DEF ProgramPart, Calm
    <3> QED BY <1>1, <3>1 DEF Next, Loader, FlashVars, load_app, End, load_sec2mem_wrapper, Place, Relocate,
              Returned, Complete, Wrapped, FailOwn, FailNested, Fail, StartFlash, GiveUp, LoadEnds
  <2> QED BY <2>4, <2>5, <2>6
<1>2. LoaderFacts /\ [Next]_vars => [\A a \in Ready : Calm' => \A u \in AllUnits(a) : flash'[u] = flash[u]]_vars
  BY <1>1
<1> QED BY <1>2, FlashInvariant, PTL DEF Spec, FlashKept
=============================================================================
