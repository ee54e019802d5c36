-------------------------- MODULE NormaliseProofs --------------------------
(***************************************************************************)
(* Proofs about Normalise, for every set of schemas, banks and records.    *)
(* What bank_arch_map computes comes first, by induction over the turns of *)
(* its three loops; then what resolve_arch and normalize make of a record; *)
(* then sums over the banks, and with them the invariant of the loop.      *)
(***************************************************************************)
EXTENDS Normalise, InductionLemmas

----------------------------------------------------------------------------
(***************************************************************************)
(* What bank_arch_map computes.                                            *)
(***************************************************************************)

Roles == [BankIds -> [ArchNames -> {None, "enc", "sem", "both"}]]

\* The map has, for a bank and an arch, what the schema of that arch lists.
Charted(m, b, sc) ==
  /\ m[b][sc.arch] # None <=> Listed(b, sc) \/ ListedSem(b, sc)
  /\ m[b][sc.arch] \in {"sem", "both"} <=> ListedSem(b, sc)

LEMMA SeqFacts ==
  ASSUME NEW s, IsSeq(s)
  PROVE  Len(s) \in Nat /\ DOMAIN s = 1 .. Len(s)
  BY DEF IsSeq

LEMMA ArchesList ==
  /\ Len(Arches) \in Nat /\ DOMAIN Arches = 1 .. Len(Arches)
  /\ \A i \in DOMAIN Arches :
       /\ Arches[i].arch \in ArchNames
       /\ Len(Arches[i].encoding_banks) \in Nat
       /\ DOMAIN Arches[i].encoding_banks = 1 .. Len(Arches[i].encoding_banks)
       /\ Len(Arches[i].semantics_banks) \in Nat
       /\ DOMAIN Arches[i].semantics_banks = 1 .. Len(Arches[i].semantics_banks)
  BY ListsAssumption, SeqFacts DEF ArchNames

LEMMA EncRoleDoes ==
  ASSUME NEW m \in Roles, NEW a \in ArchNames, NEW b
  PROVE  /\ EncRole(m, a, b) \in Roles
         /\ \A c \in BankIds, x \in ArchNames :
              EncRole(m, a, b)[c][x] =
                IF c = b /\ x = a THEN IF m[c][x] = "sem" THEN "both" ELSE "enc" ELSE m[c][x]
  BY DEF EncRole, Roles

LEMMA SemRoleDoes ==
  ASSUME NEW m \in Roles, NEW a \in ArchNames, NEW b
  PROVE  /\ SemRole(m, a, b) \in Roles
         /\ \A c \in BankIds, x \in ArchNames :
              SemRole(m, a, b)[c][x] =
                IF c = b /\ x = a THEN IF m[c][x] = "enc" THEN "both" ELSE "sem" ELSE m[c][x]
  BY DEF SemRole, Roles

\* The loop over the encoding banks of a schema ends, turn by turn.
LEMMA EncRun ==
  ASSUME NEW m \in Roles, NEW i \in DOMAIN Arches
  PROVE  \E f : /\ AddEnc(m, Arches[i]) = f[Len(Arches[i].encoding_banks)]
                /\ f[0] = m
                /\ \A k \in 1 .. Len(Arches[i].encoding_banks) :
                     f[k] = EncRole(f[k - 1], Arches[i].arch, Arches[i].encoding_banks[k])
<1> DEFINE n == Len(Arches[i].encoding_banks)
           bs == Arches[i].encoding_banks
           a == Arches[i].arch
           step == [k \in 1 .. n |-> [x \in Roles |-> EncRole(x, a, bs[k])]]
           Turns(f) == [k \in 0 .. n |-> IF k = 0 THEN m ELSE EncRole(f[k - 1], a, bs[k])]
<1>1. n \in Nat /\ a \in ArchNames
  BY ArchesList
<1>2. AddEnc(m, Arches[i]) = (CHOOSE f : f = Turns(f))[n]
  BY DEF AddEnc
<1>3. step \in [1 .. n -> [Roles -> Roles]]
  BY <1>1, EncRoleDoes
<1> HIDE DEF n, bs, a
<1>4. \A k \in 1 .. n, x \in Roles : step[k][x] = EncRole(x, a, bs[k])
  OBVIOUS
<1> HIDE DEF step, Turns
<1>5. PICK f \in [0 .. n -> Roles] : Runs(f, n, m, step)
  BY <1>1, <1>3, RecursionExists, Zenon
<1>6. f = Turns(f)
  <2>1. ASSUME NEW k \in 0 .. n, k # 0 PROVE step[k][f[k - 1]] = EncRole(f[k - 1], a, bs[k])
    <3>1. k \in 1 .. n /\ k - 1 \in 0 .. n
      BY <1>1, <2>1
    <3> QED
      BY <1>4, <1>5, <3>1
  <2> QED
    BY <1>5, <2>1 DEF Turns, Runs
<1> DEFINE g == CHOOSE h : h = Turns(h)
<1>7. g = Turns(g)
  BY <1>6, Zenon
<1> HIDE DEF g
<1>8. g[0] = m /\ \A k \in 1 .. n : g[k] = EncRole(g[k - 1], a, bs[k])
  BY <1>1, <1>7 DEF Turns
<1>9. AddEnc(m, Arches[i]) = g[n]
  BY <1>2 DEF g
<1> QED
  BY <1>8, <1>9, Zenon DEF n, a, bs

LEMMA SemRun ==
  ASSUME NEW m \in Roles, NEW i \in DOMAIN Arches
  PROVE  \E f : /\ AddSem(m, Arches[i]) = f[Len(Arches[i].semantics_banks)]
                /\ f[0] = m
                /\ \A k \in 1 .. Len(Arches[i].semantics_banks) :
                     f[k] = SemRole(f[k - 1], Arches[i].arch, Arches[i].semantics_banks[k])
<1> DEFINE n == Len(Arches[i].semantics_banks)
           bs == Arches[i].semantics_banks
           a == Arches[i].arch
           step == [k \in 1 .. n |-> [x \in Roles |-> SemRole(x, a, bs[k])]]
           Turns(f) == [k \in 0 .. n |-> IF k = 0 THEN m ELSE SemRole(f[k - 1], a, bs[k])]
<1>1. n \in Nat /\ a \in ArchNames
  BY ArchesList
<1>2. AddSem(m, Arches[i]) = (CHOOSE f : f = Turns(f))[n]
  BY DEF AddSem
<1>3. step \in [1 .. n -> [Roles -> Roles]]
  BY <1>1, SemRoleDoes
<1> HIDE DEF n, bs, a
<1>4. \A k \in 1 .. n, x \in Roles : step[k][x] = SemRole(x, a, bs[k])
  OBVIOUS
<1> HIDE DEF step, Turns
<1>5. PICK f \in [0 .. n -> Roles] : Runs(f, n, m, step)
  BY <1>1, <1>3, RecursionExists, Zenon
<1>6. f = Turns(f)
  <2>1. ASSUME NEW k \in 0 .. n, k # 0 PROVE step[k][f[k - 1]] = SemRole(f[k - 1], a, bs[k])
    <3>1. k \in 1 .. n /\ k - 1 \in 0 .. n
      BY <1>1, <2>1
    <3> QED
      BY <1>4, <1>5, <3>1
  <2> QED
    BY <1>5, <2>1 DEF Turns, Runs
<1> DEFINE g == CHOOSE h : h = Turns(h)
<1>7. g = Turns(g)
  BY <1>6, Zenon
<1> HIDE DEF g
<1>8. g[0] = m /\ \A k \in 1 .. n : g[k] = SemRole(g[k - 1], a, bs[k])
  BY <1>1, <1>7 DEF Turns
<1>9. AddSem(m, Arches[i]) = g[n]
  BY <1>2 DEF g
<1> QED
  BY <1>8, <1>9, Zenon DEF n, a, bs


LEMMA EncLoop ==
  ASSUME NEW m \in Roles, NEW i \in DOMAIN Arches
  PROVE  /\ AddEnc(m, Arches[i]) \in Roles
         /\ \A b \in BankIds, x \in ArchNames :
              AddEnc(m, Arches[i])[b][x] # m[b][x] => x = Arches[i].arch /\ Listed(b, Arches[i])
         /\ \A b \in BankIds :
              Listed(b, Arches[i]) => AddEnc(m, Arches[i])[b][Arches[i].arch] \in {"enc", "both"}
         /\ \A b \in BankIds :
              m[b][Arches[i].arch] = None => AddEnc(m, Arches[i])[b][Arches[i].arch] \in {None, "enc"}
<1> DEFINE n == Len(Arches[i].encoding_banks)
           bs == Arches[i].encoding_banks
           a == Arches[i].arch
<1>1. n \in Nat /\ a \in ArchNames /\ DOMAIN bs = 1 .. n
  BY ArchesList
<1>2. PICK f : /\ AddEnc(m, Arches[i]) = f[n]
               /\ f[0] = m
               /\ \A k \in 1 .. n : f[k] = EncRole(f[k - 1], a, bs[k])
  BY EncRun
<1>3. \A b : Listed(b, Arches[i]) <=> \E j \in 1 .. n : bs[j] = b
  BY <1>1 DEF Listed
<1> HIDE DEF n, bs, a
<1> DEFINE Named(b, k) == \E j \in 1 .. k : bs[j] = b
           Good(k) == /\ f[k] \in Roles
                      /\ \A b \in BankIds, x \in ArchNames :
                           f[k][b][x] # m[b][x] => x = a /\ Named(b, k)
                      /\ \A b \in BankIds : Named(b, k) => f[k][b][a] \in {"enc", "both"}
                      /\ \A b \in BankIds : m[b][a] = None => f[k][b][a] \in {None, "enc"}
           T == {k \in 0 .. n : Good(k)}
<1>4. 0 \in T
  BY <1>1, <1>2
<1>5. \A k \in 0 .. n - 1 : k \in T => k + 1 \in T
  <2> SUFFICES ASSUME NEW k \in 0 .. n - 1, k \in T PROVE k + 1 \in T
    OBVIOUS
  <2>1. k + 1 \in 1 .. n /\ (k + 1) - 1 = k /\ k + 1 \in 0 .. n /\ k \in Nat
    BY <1>1
  <2>2. f[k + 1] = EncRole(f[k], a, bs[k + 1])
    BY <1>2, <2>1
  <2>3. Good(k)
    OBVIOUS
  <2>4. /\ f[k + 1] \in Roles
        /\ \A c \in BankIds, x \in ArchNames :
             f[k + 1][c][x] = IF c = bs[k + 1] /\ x = a
                                THEN IF f[k][c][x] = "sem" THEN "both" ELSE "enc"
                                ELSE f[k][c][x]
    BY <1>1, <2>2, <2>3, EncRoleDoes
  <2>5. \A b : Named(b, k + 1) <=> Named(b, k) \/ b = bs[k + 1]
    BY <2>1
  <2> HIDE DEF Named
  <2>6. Good(k + 1)
    <3>1. \A b \in BankIds, x \in ArchNames : f[k + 1][b][x] # m[b][x] => x = a /\ Named(b, k + 1)
      BY <2>3, <2>4, <2>5
    <3>2. \A b \in BankIds : Named(b, k + 1) => f[k + 1][b][a] \in {"enc", "both"}
      BY <1>1, <2>3, <2>4, <2>5
    <3>3. \A b \in BankIds : m[b][a] = None => f[k + 1][b][a] \in {None, "enc"}
      BY <1>1, <2>3, <2>4 DEF None
    <3> QED
      BY <2>4, <3>1, <3>2, <3>3
  <2> QED
    BY <2>1, <2>6
<1>6. n \in T
  <2> HIDE DEF T
  <2>1. 0 .. n \subseteq T
    BY <1>1, <1>4, <1>5, RangeInduction
  <2> QED
    BY <1>1, <2>1
<1>7. Good(n)
  BY <1>6
<1> QED
  BY <1>2, <1>3, <1>7 DEF a


LEMMA SemLoop ==
  ASSUME NEW m \in Roles, NEW i \in DOMAIN Arches
  PROVE  /\ AddSem(m, Arches[i]) \in Roles
         /\ \A b \in BankIds, x \in ArchNames :
              AddSem(m, Arches[i])[b][x] # m[b][x] => x = Arches[i].arch /\ ListedSem(b, Arches[i])
         /\ \A b \in BankIds :
              ListedSem(b, Arches[i]) => AddSem(m, Arches[i])[b][Arches[i].arch] \in {"sem", "both"}
<1> DEFINE n == Len(Arches[i].semantics_banks)
           bs == Arches[i].semantics_banks
           a == Arches[i].arch
<1>1. n \in Nat /\ a \in ArchNames /\ DOMAIN bs = 1 .. n
  BY ArchesList
<1>2. PICK f : /\ AddSem(m, Arches[i]) = f[n]
               /\ f[0] = m
               /\ \A k \in 1 .. n : f[k] = SemRole(f[k - 1], a, bs[k])
  BY SemRun
<1>3. \A b : ListedSem(b, Arches[i]) <=> \E j \in 1 .. n : bs[j] = b
  BY <1>1 DEF ListedSem
<1> HIDE DEF n, bs, a
<1> DEFINE Named(b, k) == \E j \in 1 .. k : bs[j] = b
           Good(k) == /\ f[k] \in Roles
                      /\ \A b \in BankIds, x \in ArchNames :
                           f[k][b][x] # m[b][x] => x = a /\ Named(b, k)
                      /\ \A b \in BankIds : Named(b, k) => f[k][b][a] \in {"sem", "both"}
           T == {k \in 0 .. n : Good(k)}
<1>4. 0 \in T
  BY <1>1, <1>2
<1>5. \A k \in 0 .. n - 1 : k \in T => k + 1 \in T
  <2> SUFFICES ASSUME NEW k \in 0 .. n - 1, k \in T PROVE k + 1 \in T
    OBVIOUS
  <2>1. k + 1 \in 1 .. n /\ (k + 1) - 1 = k /\ k + 1 \in 0 .. n /\ k \in Nat
    BY <1>1
  <2>2. f[k + 1] = SemRole(f[k], a, bs[k + 1])
    BY <1>2, <2>1
  <2>3. Good(k)
    OBVIOUS
  <2>4. /\ f[k + 1] \in Roles
        /\ \A c \in BankIds, x \in ArchNames :
             f[k + 1][c][x] = IF c = bs[k + 1] /\ x = a
                                THEN IF f[k][c][x] = "enc" THEN "both" ELSE "sem"
                                ELSE f[k][c][x]
    BY <1>1, <2>2, <2>3, SemRoleDoes
  <2>5. \A b : Named(b, k + 1) <=> Named(b, k) \/ b = bs[k + 1]
    BY <2>1
  <2> HIDE DEF Named
  <2>6. Good(k + 1)
    <3>1. \A b \in BankIds, x \in ArchNames : f[k + 1][b][x] # m[b][x] => x = a /\ Named(b, k + 1)
      BY <2>3, <2>4, <2>5
    <3>2. \A b \in BankIds : Named(b, k + 1) => f[k + 1][b][a] \in {"sem", "both"}
      BY <1>1, <2>3, <2>4, <2>5
    <3> QED
      BY <2>4, <3>1, <3>2
  <2> QED
    BY <2>1, <2>6
<1>6. n \in T
  <2> HIDE DEF T
  <2>1. 0 .. n \subseteq T
    BY <1>1, <1>4, <1>5, RangeInduction
  <2> QED
    BY <1>1, <2>1
<1>7. Good(n)
  BY <1>6
<1> QED
  BY <1>2, <1>3, <1>7 DEF a

\* The loop over the schemas ends, turn by turn.
LEMMA MapRun ==
  \E f : /\ bank_arch_map = f[Len(Arches)]
         /\ f[0] = NoRoles
         /\ \A k \in DOMAIN Arches : f[k] = AddSem(AddEnc(f[k - 1], Arches[k]), Arches[k])
<1> DEFINE n == Len(Arches)
           Turn(x, k) == AddSem(AddEnc(x, Arches[k]), Arches[k])
           step == [k \in 1 .. n |-> [x \in Roles |-> Turn(x, k)]]
           Turns(f) == [k \in 0 .. n |-> IF k = 0 THEN NoRoles ELSE Turn(f[k - 1], k)]
<1>1. n \in Nat /\ DOMAIN Arches = 1 .. n
  BY ArchesList
<1>2. bank_arch_map = (CHOOSE f : f = Turns(f))[n]
  BY DEF bank_arch_map
<1>3. step \in [1 .. n -> [Roles -> Roles]]
  BY <1>1, EncLoop, SemLoop
<1>4. NoRoles \in Roles
  BY DEF NoRoles, Roles
<1> HIDE DEF n, Turn
<1>5. \A k \in 1 .. n, x \in Roles : step[k][x] = Turn(x, k)
  OBVIOUS
<1> HIDE DEF step, Turns
<1>6. PICK f \in [0 .. n -> Roles] : Runs(f, n, NoRoles, step)
  BY <1>1, <1>3, <1>4, RecursionExists, Zenon
<1>7. f = Turns(f)
  <2>1. ASSUME NEW k \in 0 .. n, k # 0 PROVE step[k][f[k - 1]] = Turn(f[k - 1], k)
    <3>1. k \in 1 .. n /\ k - 1 \in 0 .. n
      BY <1>1, <2>1
    <3> QED
      BY <1>5, <1>6, <3>1
  <2> QED
    BY <1>6, <2>1 DEF Turns, Runs
<1> DEFINE g == CHOOSE h : h = Turns(h)
<1>8. g = Turns(g)
  BY <1>7, Zenon
<1> HIDE DEF g
<1>9. g[0] = NoRoles /\ \A k \in 1 .. n : g[k] = Turn(g[k - 1], k)
  BY <1>1, <1>8 DEF Turns
<1>10. bank_arch_map = g[n]
  BY <1>2 DEF g
<1> QED
  BY <1>1, <1>9, <1>10, Zenon DEF n, Turn


\* bank_arch_map says of every bank and arch what the schema of the arch lists,
\* however often and in whatever order a bank is listed.
LEMMA MapTrue ==
  \A b \in BankIds, i \in DOMAIN Arches : Charted(bank_arch_map, b, Arches[i])
<1> DEFINE n == Len(Arches)
           A(i) == Arches[i].arch
<1>1. n \in Nat /\ DOMAIN Arches = 1 .. n /\ (\A i \in 1 .. n : A(i) \in ArchNames)
  BY ArchesList
<1>2. \A i, j \in 1 .. n : A(i) = A(j) => i = j
  BY <1>1, NamesAssumption
<1>3. PICK f : /\ bank_arch_map = f[n] /\ f[0] = NoRoles
               /\ \A k \in 1 .. n : f[k] = AddSem(AddEnc(f[k - 1], Arches[k]), Arches[k])
  BY <1>1, MapRun
<1> HIDE DEF n
<1> DEFINE Good(k) == /\ f[k] \in Roles
                      /\ \A b \in BankIds, i \in 1 .. n :
                           IF i <= k THEN Charted(f[k], b, Arches[i]) ELSE f[k][b][A(i)] = None
           T == {k \in 0 .. n : Good(k)}
<1>4. 0 \in T
  <2>1. NoRoles \in Roles /\ \A b \in BankIds, x \in ArchNames : NoRoles[b][x] = None
    BY DEF NoRoles, Roles
  <2> HIDE DEF A
  <2> QED
    BY <1>1, <1>3, <2>1
<1>5. \A k \in 0 .. n - 1 : k \in T => k + 1 \in T
  <2> SUFFICES ASSUME NEW k \in 0 .. n - 1, k \in T PROVE k + 1 \in T
    OBVIOUS
  <2>1. k + 1 \in 1 .. n /\ (k + 1) - 1 = k /\ k + 1 \in 0 .. n /\ k \in Nat
    BY <1>1
  <2>2. Good(k)
    OBVIOUS
  <2> DEFINE sc == Arches[k + 1]
             e == AddEnc(f[k], sc)
  <2>3. f[k + 1] = AddSem(e, sc)
    BY <1>3, <2>1
  <2>4. /\ e \in Roles
        /\ \A b \in BankIds, x \in ArchNames : e[b][x] # f[k][b][x] => x = sc.arch /\ Listed(b, sc)
        /\ \A b \in BankIds : Listed(b, sc) => e[b][sc.arch] \in {"enc", "both"}
        /\ \A b \in BankIds : f[k][b][sc.arch] = None => e[b][sc.arch] \in {None, "enc"}
    BY <1>1, <2>1, <2>2, EncLoop
  <2> HIDE DEF e
  <2>5. /\ f[k + 1] \in Roles
        /\ \A b \in BankIds, x \in ArchNames :
             f[k + 1][b][x] # e[b][x] => x = sc.arch /\ ListedSem(b, sc)
        /\ \A b \in BankIds : ListedSem(b, sc) => f[k + 1][b][sc.arch] \in {"sem", "both"}
    BY <1>1, <2>1, <2>3, <2>4, SemLoop
  <2>6. ASSUME NEW b \in BankIds, NEW i \in 1 .. n
        PROVE  IF i <= k + 1 THEN Charted(f[k + 1], b, Arches[i]) ELSE f[k + 1][b][A(i)] = None
    <3>1. CASE i = k + 1
      <4>1. f[k][b][sc.arch] = None
        BY <2>1, <2>2, <3>1
      <4>2. e[b][sc.arch] = IF Listed(b, sc) THEN "enc" ELSE None
        BY <1>1, <2>1, <2>4, <4>1 DEF None
      <4>3. IF ListedSem(b, sc) THEN f[k + 1][b][sc.arch] \in {"sem", "both"}
                                ELSE f[k + 1][b][sc.arch] = e[b][sc.arch]
        BY <1>1, <2>1, <2>5
      <4>4. Charted(f[k + 1], b, sc)
        BY <4>2, <4>3 DEF Charted, None
      <4> QED
        BY <2>1, <3>1, <4>4
    <3>2. CASE i # k + 1
      <4>1. A(i) \in ArchNames /\ A(i) # sc.arch
        BY <1>1, <1>2, <2>1, <3>2
      <4>2. f[k + 1][b][A(i)] = f[k][b][A(i)]
        BY <2>4, <2>5, <4>1
      <4>3. Charted(f[k + 1], b, Arches[i]) <=> Charted(f[k], b, Arches[i])
        BY <4>2 DEF Charted
      <4>4. IF i <= k THEN Charted(f[k], b, Arches[i]) ELSE f[k][b][A(i)] = None
        BY <2>2
      <4>5. i <= k + 1 <=> i <= k
        BY <2>1, <3>2
      <4> QED
        BY <4>2, <4>3, <4>4, <4>5
    <3> QED
      BY <3>1, <3>2
  <2> QED
    BY <2>1, <2>5, <2>6
<1>6. n \in T
  <2> HIDE DEF T
  <2>1. 0 .. n \subseteq T
    BY <1>1, <1>4, <1>5, RangeInduction
  <2> QED
    BY <1>1, <2>1
<1>7. \A b \in BankIds, i \in 1 .. n : i <= n => Charted(f[n], b, Arches[i])
  BY <1>6
<1> QED
  BY <1>1, <1>3, <1>7


----------------------------------------------------------------------------
(***************************************************************************)
(* What resolve_arch and normalize make of a record.                       *)
(***************************************************************************)

LEMMA SchemaKnown ==
  ASSUME NEW i \in DOMAIN Arches
  PROVE  SchemaOf(Arches[i].arch) = Arches[i]
  BY NamesAssumption DEF SchemaOf

LEMMA SchemaNamed ==
  ASSUME NEW a \in ArchNames
  PROVE  \E i \in DOMAIN Arches : Arches[i].arch = a /\ SchemaOf(a) = Arches[i]
  BY SchemaKnown DEF ArchNames

LEMMA SemanticsBank ==
  ASSUME NEW b \in BankIds, NEW a \in ArchNames
  PROVE  IsSemanticsBank(b, a) <=> ListedSem(b, SchemaOf(a))
<1>1. PICK i \in DOMAIN Arches : Arches[i].arch = a /\ SchemaOf(a) = Arches[i]
  BY SchemaNamed
<1> QED
  BY <1>1, MapTrue DEF Charted, IsSemanticsBank

LEMMA BankArches ==
  ASSUME NEW b \in BankIds, NEW i \in DOMAIN Arches
  PROVE  Arches[i].arch \in ArchesOf(b) <=> Listed(b, Arches[i]) \/ ListedSem(b, Arches[i])
  BY MapTrue, ArchesList DEF Charted, ArchesOf

Hinted(hint, sc) == Lower(hint) \in {Lower(sc.arch), Lower(sc.full_name)}

\* The arch of a record, where there is one, was named or is the only one of the bank.
Determined(hint, b, a) ==
  \/ ~Falsy(hint) /\ Hinted(hint, SchemaOf(a))
  \/ /\ Falsy(hint) \/ \A i \in DOMAIN Arches : ~Hinted(hint, Arches[i])
     /\ \A i \in DOMAIN Arches :
          Arches[i] = SchemaOf(a) <=> Listed(b, Arches[i]) \/ ListedSem(b, Arches[i])

LEMMA Resolved ==
  ASSUME NEW b \in BankIds, NEW hint, ResolveArch(hint, b) # None
  PROVE  /\ ResolveArch(hint, b) \in ArchNames
         /\ Determined(hint, b, ResolveArch(hint, b))
<1> DEFINE a == ResolveArch(hint, b)
<1>1. CASE ~Falsy(hint) /\ hint \in ArchNames
  <2>1. a = hint
    BY <1>1 DEF ResolveArch
  <2>2. PICK i \in DOMAIN Arches : Arches[i].arch = a /\ SchemaOf(a) = Arches[i]
    BY <1>1, <2>1, SchemaNamed
  <2>3. Hinted(hint, SchemaOf(a))
    BY <2>1, <2>2 DEF Hinted
  <2> QED
    BY <1>1, <2>1, <2>3 DEF Determined
<1>2. CASE ~Falsy(hint) /\ hint \notin ArchNames /\ Tolerated(hint) # {}
  <2> DEFINE i == CHOOSE i \in Tolerated(hint) : \A j \in Tolerated(hint) : i <= j
  <2>1. a = Arches[i].arch
    BY <1>2 DEF ResolveArch
  <2>2. Tolerated(hint) \subseteq Nat
    BY ArchesList DEF Tolerated
  <2>3. i \in Tolerated(hint)
    <3>1. \E m \in Tolerated(hint) : \A j \in Tolerated(hint) : m <= j
      BY <1>2, <2>2, LeastNatural
    <3> QED
      BY <3>1
  <2> HIDE DEF i
  <2>4. i \in DOMAIN Arches /\ Hinted(hint, Arches[i])
    BY <2>3 DEF Tolerated, Hinted
  <2>5. a \in ArchNames /\ SchemaOf(a) = Arches[i]
    BY <2>1, <2>4, SchemaKnown, ArchesList
  <2> QED
    BY <1>2, <2>4, <2>5 DEF Determined
<1>3. CASE /\ Falsy(hint) \/ (hint \notin ArchNames /\ Tolerated(hint) = {})
           /\ \E x \in ArchNames : ArchesOf(b) = {x}
  <2>1. a \in ArchNames /\ ArchesOf(b) = {a}
    BY <1>3 DEF ResolveArch
  <2>2. PICK k \in DOMAIN Arches : Arches[k].arch = a /\ SchemaOf(a) = Arches[k]
    BY <2>1, SchemaNamed
  <2> HIDE DEF a
  <2>3. Falsy(hint) \/ \A i \in DOMAIN Arches : ~Hinted(hint, Arches[i])
    BY <1>3 DEF Tolerated, Hinted
  <2>4. ASSUME NEW i \in DOMAIN Arches
        PROVE  Arches[i] = SchemaOf(a) <=> Listed(b, Arches[i]) \/ ListedSem(b, Arches[i])
    <3>1. Arches[i].arch = a <=> Listed(b, Arches[i]) \/ ListedSem(b, Arches[i])
      BY <2>1, BankArches
    <3>2. Arches[i].arch = a => i = k
      BY <2>2, NamesAssumption
    <3> QED
      BY <2>2, <3>1, <3>2
  <2>5. Determined(hint, b, a)
    BY <2>3, <2>4 DEF Determined
  <2> QED
    BY <2>1, <2>5 DEF a
<1> QED
  BY <1>1, <1>2, <1>3 DEF ResolveArch

IsRecord(out) == out.kind = "record"

\* out is what a raw record of bank b comes to, nothing missing.
Describes(out, raw, sc, b) ==
  /\ out.arch = sc.arch
  /\ out.mnemonic = Mnemonic(raw) /\ Mnemonic(raw) # ""
  /\ out.isa_ext = IsaExt(raw) /\ IsaExt(raw) # ""
  /\ out.encoding_class = EncClass(raw, sc) /\ EncClass(raw, sc) # ""
  /\ out.encoding_function = Encoding(raw, sc) /\ Encoding(raw, sc) # NoEncoding
  /\ out.semantics = Semantics(raw, sc.arch, b)

\* A record that normalize lets through.
LEMMA Normalised ==
  ASSUME NEW raw, NEW sc, NEW b, IsRecord(normalize(raw, sc, b))
  PROVE  Describes(normalize(raw, sc, b), raw, sc, b)
  BY DEF IsRecord, Describes, normalize, Reject, TypeError

\* What the loop body makes of a record, the bank given.
OutcomeAt(raw, b, arches) ==
  LET arch == ResolveArch(raw.arch_hint, b)
  IN  IF arch = None \/ arch \notin arches THEN Reject("arch")
      ELSE normalize(raw, SchemaOf(arch), b)

LEMMA OutcomeKnown ==
  ASSUME NEW raw, NEW b \in BankIds, NEW arches, IsRecord(OutcomeAt(raw, b, arches))
  PROVE  LET a == ResolveArch(raw.arch_hint, b)
         IN  /\ a \in ArchNames /\ a \in arches /\ Determined(raw.arch_hint, b, a)
             /\ SchemaOf(a).arch = a
             /\ OutcomeAt(raw, b, arches) = normalize(raw, SchemaOf(a), b)
<1> DEFINE a == ResolveArch(raw.arch_hint, b)
<1>1. a # None /\ a \in arches /\ OutcomeAt(raw, b, arches) = normalize(raw, SchemaOf(a), b)
  BY DEF OutcomeAt, Reject, IsRecord
<1>2. a \in ArchNames /\ Determined(raw.arch_hint, b, a)
  BY <1>1, Resolved
<1>3. SchemaOf(a).arch = a
  BY <1>2, SchemaNamed
<1> QED
  BY <1>1, <1>2, <1>3


\* A text that is not blank is stripped, and is one.
Stripped(s) == ~Falsy(s) /\ Strip(s) = s

LEMMA StripGood ==
  ASSUME NEW t \in Texts, t # None, Strip(t) # ""
  PROVE  Stripped(Strip(t))
  BY StripAssumption DEF Stripped, Falsy

LEMMA OrText ==
  ASSUME NEW x, NEW y
  PROVE  PyOr(x, y) \in {x, y} /\ (~Falsy(y) \/ y = "" => PyOr(x, y) # None)
  BY DEF PyOr, Falsy, None

LEMMA TextsGood ==
  ASSUME NEW raw \in Raws, NEW i \in DOMAIN Arches
  PROVE  /\ Mnemonic(raw) # "" => Stripped(Mnemonic(raw))
         /\ IsaExt(raw) # "" => Stripped(IsaExt(raw))
         /\ EncClass(raw, Arches[i]) # "" => Stripped(EncClass(raw, Arches[i]))
<1>1. /\ {raw.mnemonic, raw.field_mnemonic, raw.isa_ext, raw.field_isa_ext,
          raw.encoding_class, raw.field_class} \subseteq Texts
      /\ Arches[i].encoding_class \in Texts /\ "" \in Texts
  <2> DEFINE Of(r) == {r.mnemonic, r.field_mnemonic, r.isa_ext, r.field_isa_ext,
                       r.encoding_class, r.field_class}
  <2>1. Texts = (UNION {Of(r) : r \in Raws})
                  \cup {Arches[j].encoding_class : j \in DOMAIN Arches} \cup {""}
    BY DEF Texts
  <2> HIDE DEF Of
  <2>2. Of(raw) \subseteq Texts
    BY <2>1, Zenon
  <2>3. Arches[i].encoding_class \in Texts /\ "" \in Texts
    <3>1. Arches[i].encoding_class \in {Arches[j].encoding_class : j \in DOMAIN Arches}
      OBVIOUS
    <3>2. Arches[i].encoding_class \in Texts
      BY <2>1, <3>1
    <3>3. "" \in Texts
      BY <2>1
    <3> QED
      BY <3>2, <3>3
  <2> QED
    BY <2>2, <2>3 DEF Of
<1>2. ASSUME NEW x \in Texts, NEW y \in Texts PROVE PyOr(x, y) \in Texts
  BY OrText
<1>3. ASSUME NEW x \in Texts PROVE PyOr(x, "") \in Texts /\ PyOr(x, "") # None
  BY <1>1, <1>2, OrText
<1>4. ASSUME NEW x \in Texts, Strip(PyOr(x, "")) # "" PROVE Stripped(Strip(PyOr(x, "")))
  BY <1>3, <1>4, StripGood
<1>5. PyOr(raw.mnemonic, raw.field_mnemonic) \in Texts
  BY <1>1, <1>2
<1>6. PyOr(raw.isa_ext, raw.field_isa_ext) \in Texts
  BY <1>1, <1>2
<1>7. PyOr(PyOr(raw.encoding_class, raw.field_class), Arches[i].encoding_class) \in Texts
  BY <1>1, <1>2
<1> QED
  BY <1>4, <1>5, <1>6, <1>7 DEF Mnemonic, IsaExt, EncClass

\* What an encoding from a layout says.
FitsLayout(enc, raw, fixed) ==
  /\ Len(enc) = 3 /\ enc[2] = raw.layout
  /\ raw.width # NoWidth => enc[3] = raw.width
  /\ enc[3] # Variable => enc[3] = FlatWidth[raw.layout]
  /\ enc[3] = Variable => raw.width = Variable \/ fixed \in {NoWidth, Variable}

LEMMA EncodingGood ==
  ASSUME NEW raw, NEW sc, Encoding(raw, sc) # NoEncoding, raw.layout # None
  PROVE  FitsLayout(Encoding(raw, sc), raw, sc.fixed_width)
<1>1. Encoding(raw, sc) = <<raw.mnemonic, raw.layout, Width(raw, sc)>> /\ AddsUp(raw, sc)
  BY DEF Encoding, Emitted
<1>2. /\ Len(Encoding(raw, sc)) = 3 /\ Encoding(raw, sc)[2] = raw.layout
      /\ Encoding(raw, sc)[3] = Width(raw, sc)
  BY <1>1
<1>3. Width(raw, sc) # Variable => Width(raw, sc) = FlatWidth[raw.layout]
  BY <1>1 DEF AddsUp
<1>4. /\ raw.width # NoWidth => Width(raw, sc) = raw.width
      /\ Width(raw, sc) = Variable => raw.width = Variable \/ sc.fixed_width \in {NoWidth, Variable}
  BY DEF Width
<1> QED
  BY <1>2, <1>3, <1>4 DEF FitsLayout

LEMMA SemanticsGood ==
  ASSUME NEW raw, NEW b \in BankIds, NEW a \in ArchNames
  PROVE  Semantics(raw, a, b) # None <=>
           /\ ListedSem(b, SchemaOf(a))
           /\ \/ ~Falsy(raw.semantics)
              \/ raw.source = "mappable" /\ b \in DOMAIN Formalism /\ Formalism[b] \in Transcoders
  BY SemanticsBank DEF Semantics, Transcode, Falsy, None

----------------------------------------------------------------------------
(***************************************************************************)
(* Sums over the banks.                                                    *)
(***************************************************************************)

Counts == [BankIds -> Nat]

LEMMA BanksList ==
  /\ Len(Banks) \in Nat /\ DOMAIN Banks = 1 .. Len(Banks)
  /\ \A k \in 1 .. Len(Banks) : Banks[k] \in BankIds
  BY ListsAssumption, SeqFacts DEF BankIds

LEMMA TotalRun ==
  ASSUME NEW count \in Counts
  PROVE  \E f \in [0 .. Len(Banks) -> Nat] :
           /\ Total(count) = f[Len(Banks)] /\ f[0] = 0
           /\ \A k \in 1 .. Len(Banks) : f[k] = f[k - 1] + count[Banks[k]]
<1> DEFINE n == Len(Banks)
           step == [k \in 1 .. n |-> [x \in Nat |-> x + count[Banks[k]]]]
           Turns(f) == [k \in 0 .. n |-> IF k = 0 THEN 0 ELSE f[k - 1] + count[Banks[k]]]
<1>1. n \in Nat /\ \A k \in 1 .. n : count[Banks[k]] \in Nat
  BY BanksList DEF Counts
<1>2. Total(count) = (CHOOSE f : f = Turns(f))[n]
  BY DEF Total
<1>3. step \in [1 .. n -> [Nat -> Nat]]
  BY <1>1
<1> HIDE DEF n
<1>4. \A k \in 1 .. n, x \in Nat : step[k][x] = x + count[Banks[k]]
  OBVIOUS
<1> HIDE DEF step, Turns
<1>5. PICK f \in [0 .. n -> Nat] : Runs(f, n, 0, step)
  <2>1. 0 \in Nat
    OBVIOUS
  <2> QED
    BY <1>1, <1>3, <2>1, RecursionExists, Zenon
<1>6. f = Turns(f)
  <2>1. ASSUME NEW k \in 0 .. n, k # 0 PROVE step[k][f[k - 1]] = f[k - 1] + count[Banks[k]]
    <3>1. k \in 1 .. n /\ k - 1 \in 0 .. n
      BY <1>1, <2>1
    <3> QED
      BY <1>4, <1>5, <3>1
  <2> QED
    BY <1>5, <2>1 DEF Turns, Runs
<1> DEFINE g == CHOOSE h : h = Turns(h)
<1>7. g = Turns(g)
  BY <1>6, Zenon
<1>8. Total(count) = g[n]
  BY <1>2
<1> HIDE DEF g
<1>9. /\ g = [k \in 0 .. n |-> g[k]] /\ g[0] = 0
      /\ \A k \in 1 .. n : g[k] = g[k - 1] + count[Banks[k]]
  <2>1. g = [k \in 0 .. n |-> IF k = 0 THEN 0 ELSE g[k - 1] + count[Banks[k]]]
    BY <1>7 DEF Turns
  <2>2. \A k \in 0 .. n : g[k] = IF k = 0 THEN 0 ELSE g[k - 1] + count[Banks[k]]
    BY <2>1
  <2>3. g = [k \in 0 .. n |-> g[k]]
    BY <2>1
  <2>4. 0 \in 0 .. n /\ \A k \in 1 .. n : k \in 0 .. n /\ k # 0
    BY <1>1
  <2> QED
    BY <2>2, <2>3, <2>4
<1> DEFINE T == {k \in 0 .. n : g[k] \in Nat}
<1>10. 0 \in T
  BY <1>1, <1>9
<1>11. \A k \in 0 .. n - 1 : k \in T => k + 1 \in T
  <2> SUFFICES ASSUME NEW k \in 0 .. n - 1, k \in T PROVE k + 1 \in T
    OBVIOUS
  <2>1. k + 1 \in 1 .. n /\ (k + 1) - 1 = k /\ k + 1 \in 0 .. n
    BY <1>1
  <2>2. g[k + 1] = g[k] + count[Banks[k + 1]] /\ count[Banks[k + 1]] \in Nat
    BY <1>1, <1>9, <2>1
  <2> QED
    BY <2>1, <2>2
<1>12. 0 .. n \subseteq T
  <2> HIDE DEF T
  <2> QED
    BY <1>1, <1>10, <1>11, RangeInduction
<1>13. g \in [0 .. n -> Nat]
  BY <1>9, <1>12
<1> QED
  BY <1>8, <1>9, <1>13 DEF n

\* A total is a natural number, at least each count, and 0 only if all are.
LEMMA TotalBounds ==
  ASSUME NEW count \in Counts
  PROVE  /\ Total(count) \in Nat
         /\ \A b \in BankIds : count[b] <= Total(count)
         /\ (\A b \in BankIds : count[b] = 0) => Total(count) = 0
<1> DEFINE n == Len(Banks)
<1>1. n \in Nat /\ (\A k \in 1 .. n : Banks[k] \in BankIds /\ count[Banks[k]] \in Nat)
  BY BanksList DEF Counts
<1>2. PICK f \in [0 .. n -> Nat] :
        /\ Total(count) = f[n] /\ f[0] = 0
        /\ \A k \in 1 .. n : f[k] = f[k - 1] + count[Banks[k]]
  BY TotalRun
<1> HIDE DEF n
<1> DEFINE T == {k \in 0 .. n : /\ \A j \in 1 .. k : count[Banks[j]] <= f[k]
                                /\ (\A j \in 1 .. k : count[Banks[j]] = 0) => f[k] = 0}
<1>3. 0 \in T
  BY <1>1, <1>2
<1>4. \A k \in 0 .. n - 1 : k \in T => k + 1 \in T
  <2> SUFFICES ASSUME NEW k \in 0 .. n - 1, k \in T PROVE k + 1 \in T
    OBVIOUS
  <2>1. k + 1 \in 1 .. n /\ (k + 1) - 1 = k /\ k + 1 \in 0 .. n /\ k \in 0 .. n
    BY <1>1
  <2>2. f[k + 1] = f[k] + count[Banks[k + 1]] /\ count[Banks[k + 1]] \in Nat /\ f[k] \in Nat
    BY <1>1, <1>2, <2>1
  <2>3. \A j \in 1 .. k + 1 : j = k + 1 \/ j \in 1 .. k
    BY <2>1
  <2>4. \A j \in 1 .. k + 1 : count[Banks[j]] <= f[k + 1]
    <3> SUFFICES ASSUME NEW j \in 1 .. k + 1 PROVE count[Banks[j]] <= f[k + 1]
      OBVIOUS
    <3>1. CASE j = k + 1
      BY <2>2, <3>1
    <3>2. CASE j \in 1 .. k
      <4>1. count[Banks[j]] <= f[k] /\ count[Banks[j]] \in Nat
        BY <1>1, <2>1, <3>2
      <4> QED
        BY <2>2, <4>1
    <3> QED
      BY <2>3, <3>1, <3>2
  <2>5. (\A j \in 1 .. k + 1 : count[Banks[j]] = 0) => f[k + 1] = 0
    <3> SUFFICES ASSUME \A j \in 1 .. k + 1 : count[Banks[j]] = 0 PROVE f[k + 1] = 0
      OBVIOUS
    <3>1. f[k] = 0 /\ count[Banks[k + 1]] = 0
      BY <2>1
    <3> QED
      BY <2>2, <3>1
  <2> QED
    BY <2>1, <2>4, <2>5
<1>5. n \in T
  <2> HIDE DEF T
  <2>1. 0 .. n \subseteq T
    BY <1>1, <1>3, <1>4, RangeInduction
  <2> QED
    BY <1>1, <2>1
<1>6. \A b \in BankIds : \E j \in 1 .. n : b = Banks[j]
  BY BanksList DEF BankIds, n
<1>7. f[n] \in Nat
  BY <1>1, <1>2
<1> QED
  BY <1>1, <1>2, <1>5, <1>6, <1>7

\* What is added for one bank is added in all.
LEMMA TotalStep ==
  ASSUME NEW count \in Counts, NEW p \in 1 .. Len(Banks), NEW d \in Nat
  PROVE  Total([count EXCEPT ![Banks[p]] = @ + d]) = Total(count) + d
<1> DEFINE n == Len(Banks)
           more == [count EXCEPT ![Banks[p]] = @ + d]
<1>1. n \in Nat /\ (\A k \in 1 .. n : Banks[k] \in BankIds /\ count[Banks[k]] \in Nat)
  BY BanksList DEF Counts
<1>2. \A j, k \in 1 .. n : Banks[j] = Banks[k] => j = k
  BY BanksList, NamesAssumption
<1>3. more \in Counts
  BY <1>1 DEF Counts
<1>4. \A k \in 1 .. n : more[Banks[k]] = IF k = p THEN count[Banks[k]] + d ELSE count[Banks[k]]
  BY <1>1, <1>2 DEF Counts
<1> HIDE DEF more
<1>5. PICK f \in [0 .. n -> Nat] :
        /\ Total(count) = f[n] /\ f[0] = 0
        /\ \A k \in 1 .. n : f[k] = f[k - 1] + count[Banks[k]]
  BY TotalRun
<1>6. PICK g \in [0 .. n -> Nat] :
        /\ Total(more) = g[n] /\ g[0] = 0
        /\ \A k \in 1 .. n : g[k] = g[k - 1] + more[Banks[k]]
  BY <1>3, TotalRun
<1>7. p \in 1 .. n
  OBVIOUS
<1> HIDE DEF n
<1> DEFINE T == {k \in 0 .. n : g[k] = IF k < p THEN f[k] ELSE f[k] + d}
<1>8. 0 \in T
  BY <1>1, <1>5, <1>6, <1>7
<1>9. \A k \in 0 .. n - 1 : k \in T => k + 1 \in T
  <2> SUFFICES ASSUME NEW k \in 0 .. n - 1, k \in T PROVE k + 1 \in T
    OBVIOUS
  <2>0. n \in Nat /\ p \in Nat
    BY <1>1, <1>7
  <2>1. k + 1 \in 1 .. n /\ (k + 1) - 1 = k /\ k + 1 \in 0 .. n /\ k \in 0 .. n /\ k \in Nat
    BY <2>0
  <2>2. /\ f[k + 1] = f[k] + count[Banks[k + 1]] /\ g[k + 1] = g[k] + more[Banks[k + 1]]
        /\ f[k] \in Nat /\ count[Banks[k + 1]] \in Nat
    BY <1>1, <1>5, <1>6, <2>1
  <2>3. more[Banks[k + 1]] = IF k + 1 = p THEN count[Banks[k + 1]] + d ELSE count[Banks[k + 1]]
    BY <1>4, <2>1
  <2>4. g[k] = IF k < p THEN f[k] ELSE f[k] + d
    OBVIOUS
  <2>5. g[k + 1] = IF k + 1 < p THEN f[k + 1] ELSE f[k + 1] + d
    <3>1. CASE k + 1 < p
      <4>1. g[k] = f[k] /\ more[Banks[k + 1]] = count[Banks[k + 1]]
        BY <2>0, <2>1, <2>2, <2>3, <2>4, <3>1
      <4> QED
        BY <2>0, <2>1, <2>2, <3>1, <4>1
    <3>2. CASE k + 1 = p
      <4>1. g[k] = f[k] /\ more[Banks[k + 1]] = count[Banks[k + 1]] + d
        BY <2>0, <2>1, <2>2, <2>3, <2>4, <3>2
      <4>2. g[k + 1] = f[k + 1] + d
        BY <2>2, <4>1, SMTT(30)
      <4>3. ~ (k + 1 < p)
        BY <2>0, <2>1, <3>2
      <4> QED
        BY <4>2, <4>3
    <3>3. CASE k + 1 > p
      <4>1. g[k] = f[k] + d /\ more[Banks[k + 1]] = count[Banks[k + 1]]
        BY <2>0, <2>1, <2>2, <2>3, <2>4, <3>3
      <4>2. g[k + 1] = f[k + 1] + d
        BY <2>2, <4>1, SMTT(30)
      <4>3. ~ (k + 1 < p)
        BY <2>0, <2>1, <3>3
      <4> QED
        BY <4>2, <4>3
    <3> QED
      BY <2>0, <2>1, <3>1, <3>2, <3>3
  <2> QED
    BY <2>1, <2>5
<1>10. n \in T
  <2> HIDE DEF T
  <2>1. 0 .. n \subseteq T
    BY <1>1, <1>8, <1>9, RangeInduction
  <2> QED
    BY <1>1, <2>1
<1> QED
  BY <1>5, <1>6, <1>7, <1>10 DEF more


----------------------------------------------------------------------------
(***************************************************************************)
(* The inductive invariant.                                                *)
(***************************************************************************)

\* The loop's own variables.
Loop ==
  /\ wanted \in ArchFilters
  /\ pos \in 1 .. Len(Banks) + 1
  /\ parsing \in BOOLEAN
  /\ exit \in {-1, 0, 1}

BankCounts == [yielded : Nat, rejected : Nat, error : BOOLEAN]

\* The books of the bank at position i, when the loop is at position p: n records
\* were returned, the loop has come to t of them, and r is the BankResult.
Books(i, p, working, n, t, r) ==
  /\ t <= n /\ r.yielded + r.rejected <= n
  /\ i > p \/ (i = p /\ ~working) => n = 0
  /\ i >= p => ~r.error /\ t = r.yielded + r.rejected
  /\ i < p /\ r.error => r.yielded + r.rejected < n \/ n = 0
  /\ i < p /\ ~r.error => r.yielded + r.rejected = n

\* Every bank's books are in order.
Counted ==
  /\ handed \in Counts /\ taken \in Counts
  /\ result \in [BankIds -> BankCounts]
  /\ Total(handed) <= MaxRecords
  /\ conflicts \in Nat
  /\ \A i \in 1 .. Len(Banks) :
       Books(i, pos, parsing, handed[Banks[i]], taken[Banks[i]], result[Banks[i]])

\* The index holds one of the encodings each key came with, and a conflict is
\* counted exactly if there is another one.
Ledger ==
  /\ \A e \in emitted : e = <<e[1], e[2]>>
  /\ DOMAIN index = {e[1] : e \in emitted}
  /\ \A k \in DOMAIN index : <<k, index[k]>> \in emitted
  /\ conflicts = 0 => \A e \in emitted : e[2] = index[e[1]]
  /\ conflicts # 0 => \E x, y \in emitted : x[1] = y[1] /\ x[2] # y[2]

\* The verdict is about everything that was counted: nothing follows it.
Ended == exit # -1 => pos = Len(Banks) + 1 /\ exit = Verdict

\* What became of the last record.
LastTrue ==
  \/ last = NoLast
  \/ /\ last.bank \in BankIds /\ last.raw \in Raws
     /\ last.out = OutcomeAt(last.raw, last.bank, wanted)

Inv == Loop /\ Counted /\ Ledger /\ Ended /\ LastTrue

LEMMA InitInv == Init => Inv
<1> SUFFICES ASSUME Init PROVE Inv
  OBVIOUS
<1>1. Len(Banks) \in Nat
  BY BanksList
<1>2. Loop
  <2>1. 1 \in 1 .. Len(Banks) + 1 /\ -1 \in {-1, 0, 1}
    BY <1>1
  <2> QED
    BY <2>1 DEF Init, Loop
<1>3. Counted
  <2>1. /\ handed \in Counts /\ taken \in Counts /\ result \in [BankIds -> BankCounts]
        /\ \A b \in BankIds : /\ handed[b] = 0 /\ taken[b] = 0 /\ ~result[b].error
                              /\ result[b].yielded = 0 /\ result[b].rejected = 0
        /\ conflicts = 0 /\ pos = 1
    BY DEF Init, Counts, BankCounts
  <2>2. Total(handed) = 0
    BY <2>1, TotalBounds
  <2>3. ASSUME NEW i \in 1 .. Len(Banks)
        PROVE  Books(i, pos, parsing, handed[Banks[i]], taken[Banks[i]], result[Banks[i]])
    <3>1. Banks[i] \in BankIds
      BY BanksList
    <3> QED
      BY <1>1, <2>1, <3>1 DEF Books
  <2> QED
    BY <2>1, <2>2, <2>3, BoundAssumption DEF Counted
<1>4. Ledger
  <2>1. emitted = {} /\ index = << >> /\ conflicts = 0
    BY DEF Init
  <2>2. DOMAIN << >> = {}
    OBVIOUS
  <2>3. DOMAIN index = {}
    BY <2>1, <2>2
  <2> QED
    BY <2>1, <2>3 DEF Ledger
<1>5. Ended /\ LastTrue
  BY DEF Init, Ended, LastTrue
<1> QED
  BY <1>2, <1>3, <1>4, <1>5 DEF Inv

\* The bank at work.
LEMMA BankAtWork ==
  ASSUME Loop, pos <= Len(Banks)
  PROVE  pos \in 1 .. Len(Banks) /\ Bank = Banks[pos] /\ Bank \in BankIds
  BY BanksList DEF Loop, Bank

LEMMA HandleOutcome ==
  ASSUME NEW raw \in Raws, handle(raw)
  PROVE  \E out : /\ out = OutcomeAt(raw, Bank, wanted)
                  /\ Take(raw, out)
                  /\ RejectArch(out) \/ RejectRecord(out) \/ Yield(out) \/ Fail(out)
  BY DEF handle, Outcome, OutcomeAt

LEMMA StepLoop == Inv /\ [Next]_vars => Loop'
<1> SUFFICES ASSUME Inv, [Next]_vars PROVE Loop'
  OBVIOUS
<1>1. pos <= Len(Banks) => pos + 1 \in 1 .. Len(Banks) + 1
  BY BanksList DEF Inv, Loop
<1>2. CASE Parse
  <2>1. /\ pos' = pos \/ (pos <= Len(Banks) /\ pos' = pos + 1)
        /\ parsing' \in {TRUE, parsing} /\ wanted' = wanted /\ exit' = exit
    BY <1>2 DEF Parse
  <2> QED
    BY <1>1, <2>1, Zenon DEF Inv, Loop
<1>3. ASSUME NEW raw \in Raws, handle(raw) PROVE Loop'
  <2>1. PICK out : /\ Take(raw, out)
                   /\ RejectArch(out) \/ RejectRecord(out) \/ Yield(out) \/ Fail(out)
    BY <1>3, HandleOutcome
  <2>2. /\ pos' = pos \/ (pos <= Len(Banks) /\ pos' = pos + 1)
        /\ parsing' \in {FALSE, parsing} /\ wanted' = wanted /\ exit' = exit
    BY <2>1 DEF Take, RejectArch, RejectRecord, Yield, Fail
  <2> QED
    BY <1>1, <2>2, Zenon DEF Inv, Loop
<1>4. CASE EndBank
  BY <1>1, <1>4, Zenon DEF EndBank, Inv, Loop
<1>5. CASE cmd_check
  BY <1>5 DEF cmd_check, Verdict, Inv, Loop
<1>6. CASE UNCHANGED vars
  BY <1>6 DEF vars, Inv, Loop
<1> QED
  BY <1>2, <1>3, <1>4, <1>5, <1>6 DEF Next, Done

LEMMA StepLast == Inv /\ [Next]_vars => LastTrue'
<1> SUFFICES ASSUME Inv, [Next]_vars PROVE LastTrue'
  OBVIOUS
<1>1. ASSUME NEW raw \in Raws, handle(raw) PROVE LastTrue'
  <2>1. PICK out : out = OutcomeAt(raw, Bank, wanted) /\ Take(raw, out)
    BY <1>1, HandleOutcome
  <2>2. Bank \in BankIds
    BY <2>1, BankAtWork DEF Take, Inv
  <2>3. last' = [bank |-> Bank, raw |-> raw, out |-> out] /\ wanted' = wanted
    BY <2>1 DEF Take
  <2>4. last'.bank = Bank /\ last'.raw = raw /\ last'.out = out
    BY <2>3
  <2> QED
    BY <2>1, <2>2, <2>3, <2>4 DEF LastTrue
<1>2. CASE last' = last /\ wanted' = wanted
  BY <1>2 DEF Inv, LastTrue
<1> QED
  BY <1>1, <1>2 DEF Next, Parse, EndBank, cmd_check, Done, vars


\* What Counted says of the bank at work.
LEMMA BankHas ==
  ASSUME Inv, pos \in 1 .. Len(Banks)
  PROVE  /\ Bank \in BankIds /\ Bank = Banks[pos] /\ Len(Banks) \in Nat
         /\ handed \in Counts /\ taken \in Counts /\ result \in [BankIds -> BankCounts]
         /\ handed[Bank] \in Nat /\ taken[Bank] \in Nat /\ result[Bank] \in BankCounts
         /\ result[Bank].yielded \in Nat /\ result[Bank].rejected \in Nat
         /\ taken[Bank] <= handed[Bank] /\ ~result[Bank].error
         /\ taken[Bank] = result[Bank].yielded + result[Bank].rejected
         /\ ~parsing => handed[Bank] = 0
<1>1. Bank \in BankIds /\ Bank = Banks[pos] /\ Len(Banks) \in Nat
  BY BanksList DEF Bank
<1>2. /\ handed \in Counts /\ taken \in Counts /\ result \in [BankIds -> BankCounts]
      /\ Books(pos, pos, parsing, handed[Bank], taken[Bank], result[Bank])
  BY <1>1 DEF Inv, Counted
<1>3. /\ handed[Bank] \in Nat /\ taken[Bank] \in Nat /\ result[Bank] \in BankCounts
      /\ result[Bank].yielded \in Nat /\ result[Bank].rejected \in Nat
  BY <1>1, <1>2 DEF Counts, BankCounts
<1>4. pos >= pos
  BY <1>1
<1> QED
  BY <1>1, <1>2, <1>3, <1>4 DEF Books

\* The books of the banks that are not at work stay in order, for they say that the
\* loop is past a bank or has not come to it.
LEMMA OthersBooked ==
  ASSUME Inv, pos \in 1 .. Len(Banks),
         \/ pos' = pos
         \/ pos' = pos + 1 /\ ~parsing',
         NEW i \in 1 .. Len(Banks), i # pos,
         NEW n \in Nat, NEW t, NEW c, Books(i, pos, parsing, n, t, c)
  PROVE  Books(i, pos', parsing', n, t, c)
<1>1. Len(Banks) \in Nat
  BY BanksList
<1>2. CASE i < pos
  <2>1. i < pos' /\ ~(i > pos') /\ ~(i >= pos') /\ i # pos'
    BY <1>1, <1>2
  <2> QED
    BY <1>2, <2>1 DEF Books
<1>3. CASE i > pos
  <2>1. ~(i < pos') /\ (i > pos' \/ (i = pos' /\ (pos' = pos + 1)))
    BY <1>1, <1>3
  <2>2. i >= pos
    BY <1>1, <1>3
  <2> QED
    BY <1>3, <2>1, <2>2 DEF Books
<1> QED
  BY <1>1, <1>2, <1>3

\* A step at the bank at work that keeps its books in order keeps all of them so.
LEMMA CountedStep ==
  ASSUME Inv, pos \in 1 .. Len(Banks),
         \/ pos' = pos
         \/ pos' = pos + 1 /\ ~parsing',
         NEW n \in Nat, NEW t \in Nat, NEW c \in BankCounts,
         handed' = [handed EXCEPT ![Bank] = n],
         taken' = [taken EXCEPT ![Bank] = t],
         result' = [result EXCEPT ![Bank] = c],
         Total(handed') <= MaxRecords, conflicts' \in Nat,
         Books(pos, pos', parsing', n, t, c)
  PROVE  Counted'
<1>1. Bank \in BankIds /\ Bank = Banks[pos] /\ Len(Banks) \in Nat
  BY BankHas
<1>2. handed \in Counts /\ taken \in Counts /\ result \in [BankIds -> BankCounts]
  BY DEF Inv, Counted
<1>3. handed' \in Counts /\ taken' \in Counts /\ result' \in [BankIds -> BankCounts]
  BY <1>1, <1>2 DEF Counts
<1>4. /\ handed'[Bank] = n /\ taken'[Bank] = t /\ result'[Bank] = c
      /\ \A b \in BankIds : b # Bank => /\ handed'[b] = handed[b] /\ taken'[b] = taken[b]
                                        /\ result'[b] = result[b]
  BY <1>1, <1>2 DEF Counts
<1>5. ASSUME NEW i \in 1 .. Len(Banks)
      PROVE  Books(i, pos', parsing', handed'[Banks[i]], taken'[Banks[i]], result'[Banks[i]])
  <2>1. CASE i = pos
    BY <1>1, <1>4, <2>1
  <2>2. CASE i # pos
    <3>1. Banks[i] \in BankIds /\ Banks[i] # Bank /\ handed[Banks[i]] \in Nat
      BY <1>1, <1>2, <2>2, BanksList, NamesAssumption DEF Counts
    <3>2. Books(i, pos, parsing, handed[Banks[i]], taken[Banks[i]], result[Banks[i]])
      BY DEF Inv, Counted
    <3>3. Books(i, pos', parsing', handed[Banks[i]], taken[Banks[i]], result[Banks[i]])
      BY <2>2, <3>1, <3>2, OthersBooked
    <3> QED
      BY <1>4, <3>1, <3>3
  <2> QED
    BY <2>1, <2>2
<1>6. Total(handed)' = Total(handed')
  BY DEF Total
<1> QED
  BY <1>3, <1>5, <1>6 DEF Counted

\* A function is what it is at each place.
LEMMA SameAt ==
  ASSUME NEW S, NEW T, NEW f \in [S -> T], NEW x \in S
  PROVE  f = [f EXCEPT ![x] = f[x]]
  OBVIOUS

\* parser.parse returns: no more than the bound allows in all.
LEMMA ParseReturns ==
  ASSUME Inv, pos \in 1 .. Len(Banks), ~parsing, parsing', pos' = pos,
         NEW n \in 0 .. MaxRecords - Total(handed),
         handed' = [handed EXCEPT ![Bank] = n],
         taken' = taken, result' = result, conflicts' = conflicts
  PROVE  Counted'
<1>1. /\ Bank = Banks[pos] /\ Bank \in BankIds /\ handed \in Counts /\ taken \in Counts
      /\ result \in [BankIds -> BankCounts] /\ handed[Bank] = 0 /\ taken[Bank] <= 0
      /\ taken[Bank] \in Nat /\ result[Bank] \in BankCounts /\ ~result[Bank].error
      /\ result[Bank].yielded \in Nat /\ result[Bank].rejected \in Nat
      /\ taken[Bank] = result[Bank].yielded + result[Bank].rejected
  BY BankHas
<1>2. Total(handed) \in Nat /\ MaxRecords \in Nat
  BY <1>1, TotalBounds, BoundAssumption
<1>3. n \in Nat /\ Total(handed) + n <= MaxRecords
  BY <1>2
<1>4. handed' = [handed EXCEPT ![Banks[pos]] = @ + n]
  BY <1>1, <1>3
<1>5. Total(handed') <= MaxRecords
  <2>1. Total([handed EXCEPT ![Banks[pos]] = @ + n]) = Total(handed) + n
    BY <1>1, <1>3, TotalStep
  <2> QED
    BY <1>3, <1>4, <2>1
<1>6. taken' = [taken EXCEPT ![Bank] = taken[Bank]] /\ result' = [result EXCEPT ![Bank] = result[Bank]]
  BY <1>1, SameAt DEF Counts
<1>7. pos \in Nat /\ ~(pos < pos) /\ ~(pos > pos)
  BY BanksList
<1>8. Books(pos, pos', parsing', n, taken[Bank], result[Bank])
  BY <1>1, <1>3, <1>7 DEF Books
<1>9. conflicts' \in Nat
  BY DEF Inv, Counted
<1> QED
  BY <1>1, <1>3, <1>5, <1>6, <1>8, <1>9, CountedStep

\* A step that leaves the number of records returned as it is.
LEMMA LoopCounted ==
  ASSUME Inv, pos \in 1 .. Len(Banks),
         \/ pos' = pos
         \/ pos' = pos + 1 /\ ~parsing',
         NEW t \in Nat, NEW c \in BankCounts,
         handed' = handed,
         taken' = [taken EXCEPT ![Bank] = t],
         result' = [result EXCEPT ![Bank] = c],
         conflicts' \in Nat,
         Books(pos, pos', parsing', handed[Bank], t, c)
  PROVE  Counted'
<1>1. Bank \in BankIds /\ handed \in Counts /\ handed[Bank] \in Nat
  BY BankHas
<1>2. handed' = [handed EXCEPT ![Bank] = handed[Bank]]
  BY <1>1, SameAt DEF Counts
<1>3. Total(handed') <= MaxRecords
  BY DEF Inv, Counted
<1> QED
  BY <1>1, <1>2, <1>3, CountedStep

\* An exception ends the bank: in its parser, or at a record.
LEMMA FailCounted ==
  ASSUME Inv, pos \in 1 .. Len(Banks), pos' = pos + 1, ~parsing',
         result' = [result EXCEPT ![Bank].error = TRUE],
         handed' = handed, conflicts' = conflicts,
         \/ taken' = taken /\ ~parsing
         \/ taken' = [taken EXCEPT ![Bank] = @ + 1] /\ taken[Bank] < handed[Bank]
  PROVE  Counted'
<1>1. /\ Bank = Banks[pos] /\ Bank \in BankIds /\ handed \in Counts /\ taken \in Counts
      /\ result \in [BankIds -> BankCounts] /\ handed[Bank] \in Nat /\ taken[Bank] \in Nat
      /\ result[Bank] \in BankCounts /\ taken[Bank] <= handed[Bank]
      /\ result[Bank].yielded \in Nat /\ result[Bank].rejected \in Nat
      /\ taken[Bank] = result[Bank].yielded + result[Bank].rejected
      /\ ~parsing => handed[Bank] = 0
  BY BankHas
<1> DEFINE c == [result[Bank] EXCEPT !.error = TRUE]
<1>2. /\ c \in BankCounts /\ c.error
      /\ c.yielded = result[Bank].yielded /\ c.rejected = result[Bank].rejected
  BY <1>1 DEF BankCounts
<1>3. result' = [result EXCEPT ![Bank] = c]
  OBVIOUS
<1> HIDE DEF c
<1>4. pos \in Nat /\ pos < pos' /\ ~(pos > pos') /\ ~(pos >= pos') /\ pos # pos'
  BY BanksList
<1>5. conflicts' \in Nat
  BY DEF Inv, Counted
<1>6. PICK t \in Nat : /\ taken' = [taken EXCEPT ![Bank] = t] /\ t <= handed[Bank]
                       /\ taken[Bank] < handed[Bank] \/ handed[Bank] = 0
  <2>1. CASE taken' = taken /\ ~parsing
    <3>1. taken' = [taken EXCEPT ![Bank] = taken[Bank]]
      BY <1>1, <2>1, SameAt DEF Counts
    <3> QED
      BY <1>1, <2>1, <3>1
  <2>2. CASE taken' = [taken EXCEPT ![Bank] = @ + 1] /\ taken[Bank] < handed[Bank]
    <3>1. taken' = [taken EXCEPT ![Bank] = taken[Bank] + 1]
      BY <2>2
    <3>2. taken[Bank] + 1 \in Nat /\ taken[Bank] + 1 <= handed[Bank]
      BY <1>1, <2>2
    <3> QED
      BY <2>2, <3>1, <3>2
  <2> QED
    BY <2>1, <2>2
<1>7. Books(pos, pos', parsing', handed[Bank], t, c)
  BY <1>1, <1>2, <1>4, <1>6 DEF Books
<1> QED
  BY <1>2, <1>3, <1>5, <1>6, <1>7, LoopCounted

\* A record that is yielded or rejected is counted once.
LEMMA RecordCounted ==
  ASSUME Inv, NEW raw, NEW out, Take(raw, out), pos' = pos, parsing' = parsing,
         NEW c \in BankCounts, result' = [result EXCEPT ![Bank] = c],
         c.yielded + c.rejected = result[Bank].yielded + result[Bank].rejected + 1,
         c.error = result[Bank].error,
         conflicts' \in Nat
  PROVE  Counted'
<1>1. /\ pos \in 1 .. Len(Banks) /\ parsing /\ taken[Bank] < handed[Bank] /\ handed' = handed
      /\ taken' = [taken EXCEPT ![Bank] = taken[Bank] + 1]
  BY BankAtWork DEF Take, Inv
<1>2. /\ handed[Bank] \in Nat /\ taken[Bank] \in Nat /\ ~result[Bank].error
      /\ result[Bank].yielded \in Nat /\ result[Bank].rejected \in Nat
      /\ taken[Bank] = result[Bank].yielded + result[Bank].rejected
  BY <1>1, BankHas
<1>3. c.yielded + c.rejected = taken[Bank] + 1 /\ taken[Bank] + 1 \in Nat
  BY <1>2
<1>4. taken[Bank] + 1 <= handed[Bank]
  BY <1>1, <1>2
<1>5. pos \in Nat /\ ~(pos < pos) /\ ~(pos > pos)
  BY <1>1, BanksList
<1>6. Books(pos, pos', parsing', handed[Bank], taken[Bank] + 1, c)
  BY <1>1, <1>2, <1>3, <1>4, <1>5 DEF Books
<1> QED
  BY <1>1, <1>3, <1>6, LoopCounted

\* At the end of its list a bank without an error has all of it counted.
LEMMA EndCounted ==
  ASSUME Inv, pos \in 1 .. Len(Banks), pos' = pos + 1, ~parsing', taken[Bank] = handed[Bank],
         UNCHANGED <<handed, taken, result, conflicts>>
  PROVE  Counted'
<1>1. /\ Bank \in BankIds /\ taken \in Counts /\ result \in [BankIds -> BankCounts]
      /\ handed[Bank] \in Nat /\ taken[Bank] \in Nat /\ result[Bank] \in BankCounts
      /\ ~result[Bank].error /\ taken[Bank] = result[Bank].yielded + result[Bank].rejected
      /\ result[Bank].yielded \in Nat /\ result[Bank].rejected \in Nat
  BY BankHas
<1>2. taken' = [taken EXCEPT ![Bank] = taken[Bank]] /\ result' = [result EXCEPT ![Bank] = result[Bank]]
  BY <1>1, SameAt DEF Counts
<1>3. pos \in Nat /\ pos < pos' /\ ~(pos > pos') /\ ~(pos >= pos') /\ pos # pos'
  BY BanksList
<1>4. Books(pos, pos', parsing', handed[Bank], taken[Bank], result[Bank])
  BY <1>1, <1>3 DEF Books
<1>5. conflicts' \in Nat
  BY DEF Inv, Counted
<1> QED
  BY <1>1, <1>2, <1>4, <1>5, LoopCounted

LEMMA StepCounted == Inv /\ [Next]_vars => Counted'
<1> SUFFICES ASSUME Inv, [Next]_vars PROVE Counted'
  OBVIOUS
<1>1. CASE UNCHANGED <<pos, parsing, handed, taken, result, conflicts>>
  BY <1>1 DEF Inv, Counted, Total
<1>2. CASE Parse
  <2>1. pos \in 1 .. Len(Banks) /\ ~parsing /\ conflicts' = conflicts /\ taken' = taken
    BY <1>2, BankAtWork DEF Parse, Inv
  <2>2. CASE \E n \in 0 .. MaxRecords - Total(handed) :
               /\ handed' = [handed EXCEPT ![Bank] = n] /\ parsing' = TRUE
               /\ pos' = pos /\ result' = result
    BY <2>1, <2>2, ParseReturns
  <2>3. CASE /\ result' = [result EXCEPT ![Bank].error = TRUE] /\ pos' = pos + 1
             /\ parsing' = parsing /\ handed' = handed
    BY <2>1, <2>3, FailCounted
  <2> QED
    BY <1>2, <2>2, <2>3 DEF Parse
<1>3. ASSUME NEW raw \in Raws, handle(raw) PROVE Counted'
  <2>1. PICK out : /\ Take(raw, out)
                   /\ RejectArch(out) \/ RejectRecord(out) \/ Yield(out) \/ Fail(out)
    BY <1>3, HandleOutcome
  <2>2. pos \in 1 .. Len(Banks)
    BY <2>1, BankAtWork DEF Take, Inv
  <2>3. /\ result[Bank] \in BankCounts /\ conflicts \in Nat
        /\ result[Bank].yielded \in Nat /\ result[Bank].rejected \in Nat
    BY <2>2, BankHas DEF Inv, Counted
  <2>4. CASE RejectArch(out) \/ RejectRecord(out)
    <3> DEFINE c == [result[Bank] EXCEPT !.rejected = @ + 1]
    <3>1. /\ c \in BankCounts /\ c.error = result[Bank].error
          /\ c.yielded = result[Bank].yielded /\ c.rejected = result[Bank].rejected + 1
      BY <2>3 DEF BankCounts
    <3>2. /\ pos' = pos /\ parsing' = parsing /\ conflicts' = conflicts
          /\ result' = [result EXCEPT ![Bank] = c]
      BY <2>4 DEF RejectArch, RejectRecord
    <3> HIDE DEF c
    <3>3. c.yielded + c.rejected = result[Bank].yielded + result[Bank].rejected + 1
      BY <2>3, <3>1
    <3> QED
      BY <2>1, <2>3, <3>1, <3>2, <3>3, RecordCounted
  <2>5. CASE Yield(out)
    <3> DEFINE c == [result[Bank] EXCEPT !.yielded = @ + 1]
    <3>1. /\ c \in BankCounts /\ c.error = result[Bank].error
          /\ c.yielded = result[Bank].yielded + 1 /\ c.rejected = result[Bank].rejected
      BY <2>3 DEF BankCounts
    <3>2. /\ pos' = pos /\ parsing' = parsing /\ conflicts' \in {conflicts, conflicts + 1}
          /\ result' = [result EXCEPT ![Bank] = c]
      BY <2>5 DEF Yield, Add
    <3> HIDE DEF c
    <3>3. c.yielded + c.rejected = result[Bank].yielded + result[Bank].rejected + 1
      BY <2>3, <3>1
    <3>4. conflicts' \in Nat
      BY <2>3, <3>2
    <3> QED
      BY <2>1, <3>1, <3>2, <3>3, <3>4, RecordCounted
  <2>6. CASE Fail(out)
    BY <2>1, <2>2, <2>6, FailCounted DEF Fail, Take
  <2> QED
    BY <2>1, <2>4, <2>5, <2>6
<1>4. CASE EndBank
  <2>1. pos \in 1 .. Len(Banks)
    BY <1>4, BankAtWork DEF EndBank, Inv
  <2> QED
    BY <1>4, <2>1, EndCounted DEF EndBank
<1> QED
  BY <1>1, <1>2, <1>3, <1>4 DEF Next, cmd_check, Done, vars

\* A record added to the index.
LEMMA AddLedger ==
  ASSUME Inv, NEW r, Add(r) PROVE Ledger'
<1> DEFINE k == KeyOf(r)
           e == r.encoding_function
<1>1. /\ index' = IF k \in DOMAIN index THEN index
                  ELSE [x \in DOMAIN index \cup {k} |-> IF x = k THEN e ELSE index[x]]
      /\ conflicts' = IF k \in DOMAIN index /\ index[k] # e THEN conflicts + 1 ELSE conflicts
      /\ emitted' = emitted \cup {<<k, e>>}
  BY DEF Add
<1>2. Ledger /\ conflicts \in Nat
  BY DEF Inv, Counted
<1> HIDE DEF k, e
<1>3. \A x \in emitted' : x = <<x[1], x[2]>>
  BY <1>1, <1>2 DEF Ledger
<1>4. DOMAIN index' = {x[1] : x \in emitted'}
  <2>1. DOMAIN index' = DOMAIN index \cup {k}
    BY <1>1
  <2>2. {x[1] : x \in emitted'} = {x[1] : x \in emitted} \cup {k}
    <3>1. <<k, e>>[1] = k
      OBVIOUS
    <3> QED
      BY <1>1, <3>1, Zenon
  <2> QED
    BY <1>2, <2>1, <2>2 DEF Ledger
<1>5. CASE k \in DOMAIN index
  <2>1. index' = index
    BY <1>1, <1>5
  <2>2. \A x \in DOMAIN index' : <<x, index'[x]>> \in emitted'
    BY <1>1, <1>2, <2>1 DEF Ledger
  <2>3. <<k, index[k]>> \in emitted
    BY <1>2, <1>5 DEF Ledger
  <2>4. ASSUME conflicts' = 0 PROVE \A x \in emitted' : x[2] = index'[x[1]]
    <3>1. conflicts = 0 /\ index[k] = e
      BY <1>1, <1>2, <1>5, <2>4
    <3> QED
      BY <1>1, <1>2, <2>1, <3>1 DEF Ledger
  <2>5. ASSUME conflicts' # 0 PROVE \E x, y \in emitted' : x[1] = y[1] /\ x[2] # y[2]
    <3>1. CASE index[k] # e
      <4>1. <<k, index[k]>> \in emitted' /\ <<k, e>> \in emitted'
        BY <1>1, <2>3
      <4>2. /\ <<k, index[k]>>[1] = <<k, e>>[1] /\ <<k, index[k]>>[2] # <<k, e>>[2]
        BY <3>1
      <4> QED
        BY <4>1, <4>2, Zenon
    <3>2. CASE index[k] = e
      <4>1. conflicts # 0
        BY <1>1, <2>5, <3>2
      <4> QED
        BY <1>1, <1>2, <4>1 DEF Ledger
    <3> QED
      BY <3>1, <3>2
  <2> QED
    BY <1>3, <1>4, <2>2, <2>4, <2>5 DEF Ledger
<1>6. CASE k \notin DOMAIN index
  <2>1. /\ index' = [x \in DOMAIN index \cup {k} |-> IF x = k THEN e ELSE index[x]]
        /\ conflicts' = conflicts
    BY <1>1, <1>6
  <2>2. index'[k] = e /\ \A x \in DOMAIN index : index'[x] = index[x]
    BY <1>6, <2>1
  <2>3. \A x \in DOMAIN index' : <<x, index'[x]>> \in emitted'
    BY <1>1, <1>2, <2>1, <2>2 DEF Ledger
  <2>4. \A x \in emitted : x[1] \in DOMAIN index
    BY <1>2 DEF Ledger
  <2>5. ASSUME conflicts' = 0 PROVE \A x \in emitted' : x[2] = index'[x[1]]
    BY <1>1, <1>2, <2>1, <2>2, <2>4, <2>5 DEF Ledger
  <2>6. ASSUME conflicts' # 0 PROVE \E x, y \in emitted' : x[1] = y[1] /\ x[2] # y[2]
    BY <1>1, <1>2, <2>1, <2>6 DEF Ledger
  <2> QED
    BY <1>3, <1>4, <2>3, <2>5, <2>6 DEF Ledger
<1> QED
  BY <1>5, <1>6

LEMMA StepLedger == Inv /\ [Next]_vars => Ledger'
<1> SUFFICES ASSUME Inv, [Next]_vars PROVE Ledger'
  OBVIOUS
<1>1. CASE UNCHANGED <<index, conflicts, emitted>>
  BY <1>1 DEF Inv, Ledger
<1>2. ASSUME NEW raw \in Raws, handle(raw) PROVE Ledger'
  <2>1. PICK out : RejectArch(out) \/ RejectRecord(out) \/ Yield(out) \/ Fail(out)
    BY <1>2, HandleOutcome
  <2>2. CASE Yield(out)
    BY <2>2, AddLedger DEF Yield
  <2> QED
    BY <1>1, <2>1, <2>2 DEF RejectArch, RejectRecord, Fail
<1> QED
  BY <1>1, <1>2 DEF Next, Parse, EndBank, cmd_check, Done, vars

LEMMA StepEnded == Inv /\ [Next]_vars => Ended'
<1> SUFFICES ASSUME Inv, [Next]_vars PROVE Ended'
  OBVIOUS
<1>1. CASE pos <= Len(Banks) /\ exit' = exit
  <2>1. exit = -1
    BY <1>1, BanksList DEF Inv, Ended
  <2> QED
    BY <1>1, <2>1 DEF Ended
<1>2. CASE cmd_check
  <2>1. /\ pos > Len(Banks) /\ pos' = pos /\ exit' = Verdict
        /\ result' = result /\ conflicts' = conflicts
    BY <1>2 DEF cmd_check
  <2>2. Verdict' = Verdict
    BY <2>1 DEF Verdict, Rejected, Total
  <2>3. pos = Len(Banks) + 1
    BY <2>1, BanksList DEF Inv, Loop
  <2> QED
    BY <2>1, <2>2, <2>3 DEF Ended
<1>3. CASE UNCHANGED vars
  BY <1>3 DEF vars, Inv, Ended, Verdict, Rejected, Total
<1>4. ASSUME NEW raw \in Raws, handle(raw) PROVE pos <= Len(Banks) /\ exit' = exit
  BY <1>4, HandleOutcome DEF Take
<1> QED
  BY <1>1, <1>2, <1>3, <1>4 DEF Next, Parse, EndBank, Done

LEMMA StepInv == Inv /\ [Next]_vars => Inv'
  BY StepLoop, StepCounted, StepLedger, StepEnded, StepLast DEF Inv


\* The counts, the index, the verdict and the last record keep in step in every
\* reachable state of the loop in pipeline.py and of `xtrakt check`.
THEOREM Invariance == Spec => []Inv
  BY InitInv, StepInv, PTL DEF Spec

----------------------------------------------------------------------------
(***************************************************************************)
(* The theorems.                                                           *)
(***************************************************************************)

\* Every variable of the loop has its type, whatever the schemas and the records:
\* no count passes the number of records, and the index has the keys emitted.
THEOREM TypeCorrect == Spec => []TypeOK
<1>1. Inv => TypeOK
  <2> SUFFICES ASSUME Inv PROVE TypeOK
    OBVIOUS
  <2>1. /\ handed \in Counts /\ Total(handed) <= MaxRecords /\ Total(handed) \in Nat
        /\ MaxRecords \in Nat /\ taken \in Counts /\ result \in [BankIds -> BankCounts]
    BY TotalBounds, BoundAssumption DEF Inv, Counted
  <2>2. ASSUME NEW b \in BankIds
        PROVE  /\ handed[b] \in 0 .. MaxRecords /\ taken[b] \in 0 .. MaxRecords
               /\ result[b] \in [yielded : 0..MaxRecords, rejected : 0..MaxRecords,
                                 error : BOOLEAN]
    <3>1. handed[b] <= Total(handed) /\ handed[b] \in Nat /\ taken[b] \in Nat
      BY <2>1, TotalBounds DEF Counts
    <3>2. handed[b] <= MaxRecords
      BY <2>1, <3>1
    <3>3. PICK i \in 1 .. Len(Banks) : b = Banks[i]
      BY BanksList DEF BankIds
    <3>4. taken[b] <= handed[b] /\ result[b].yielded + result[b].rejected <= handed[b]
      BY <3>3 DEF Inv, Counted, Books
    <3>5. result[b] \in BankCounts /\ result[b].yielded \in Nat /\ result[b].rejected \in Nat
      BY <2>1 DEF BankCounts
    <3>6. result[b].yielded \in 0 .. MaxRecords /\ result[b].rejected \in 0 .. MaxRecords
      BY <2>1, <3>1, <3>2, <3>4, <3>5
    <3>7. result[b] \in [yielded : 0..MaxRecords, rejected : 0..MaxRecords, error : BOOLEAN]
      BY <3>5, <3>6 DEF BankCounts
    <3> QED
      BY <2>1, <3>1, <3>2, <3>4, <3>7
  <2>4. handed \in [BankIds -> 0 .. MaxRecords] /\ taken \in [BankIds -> 0 .. MaxRecords]
    BY <2>1, <2>2 DEF Counts
  <2>5. result \in [BankIds -> [yielded : 0..MaxRecords, rejected : 0..MaxRecords,
                                error : BOOLEAN]]
    <3>1. result = [b \in BankIds |-> result[b]]
      BY <2>1
    <3> QED
      BY <2>2, <3>1
  <2>6. conflicts \in Nat
    BY DEF Inv, Counted
  <2>7. DOMAIN index = {e[1] : e \in emitted}
    BY DEF Inv, Ledger
  <2> QED
    BY <2>4, <2>5, <2>6, <2>7, Zenon DEF TypeOK, Inv, Loop
<1> QED
  BY <1>1, Invariance, PTL

\* "No silent caps" (pipeline.py, handle), as far as the report goes: of a bank that
\* is done and has no error every record its parser returned was counted; a bank has
\* an error only where its parser raised or records were lost.
THEOREM NothingUncounted == Spec => []Accounted
<1>1. Inv => Accounted
  <2> SUFFICES ASSUME Inv, NEW i \in DOMAIN Banks
               PROVE  LET r == result[Banks[i]]
                          n == handed[Banks[i]]
                          counted == r.yielded + r.rejected
                      IN  /\ r.error => counted < n \/ n = 0
                          /\ i < pos /\ ~r.error => counted = n
    BY DEF Accounted
  <2>1. i \in 1 .. Len(Banks) /\ (i < pos \/ i >= pos)
    BY BanksList DEF Inv, Loop
  <2> QED
    BY <2>1 DEF Inv, Counted, Books
<1> QED
  BY <1>1, Invariance, PTL

\* A record that was yielded, and how it came about.
LEMMA LastKnown ==
  ASSUME Inv, Yielded
  PROVE  \E raw \in Raws, b \in BankIds, a \in ArchNames :
           /\ last.raw = raw /\ last.bank = b
           /\ a \in wanted /\ Determined(raw.arch_hint, b, a) /\ SchemaOf(a).arch = a
           /\ Describes(last.out, raw, SchemaOf(a), b)
<1>1. last # NoLast
  BY DEF Yielded, NoLast, Reject
<1>2. PICK raw \in Raws, b \in BankIds :
        last.raw = raw /\ last.bank = b /\ last.out = OutcomeAt(raw, b, wanted)
  BY <1>1 DEF Inv, LastTrue
<1>3. IsRecord(OutcomeAt(raw, b, wanted))
  BY <1>2 DEF Yielded, IsRecord
<1>4. PICK a \in ArchNames :
        /\ a \in wanted /\ Determined(raw.arch_hint, b, a) /\ SchemaOf(a).arch = a
        /\ OutcomeAt(raw, b, wanted) = normalize(raw, SchemaOf(a), b)
  BY <1>3, OutcomeKnown
<1>5. Describes(normalize(raw, SchemaOf(a), b), raw, SchemaOf(a), b)
  BY <1>3, <1>4, Normalised, Zenon
<1> QED
  BY <1>2, <1>4, <1>5

\* resolve_arch (schema.py) "never guesses", for every set of schemas with one
\* block per arch, in whatever order and however often they list a bank.
THEOREM ArchDetermined == Spec => []ArchNeverGuessed
<1>1. Inv => ArchNeverGuessed
  <2> SUFFICES ASSUME Inv, Yielded PROVE ArchNeverGuessed
    BY DEF ArchNeverGuessed
  <2>1. PICK raw \in Raws, b \in BankIds, a \in ArchNames :
          /\ last.raw = raw /\ last.bank = b
          /\ a \in wanted /\ Determined(raw.arch_hint, b, a) /\ SchemaOf(a).arch = a
          /\ Describes(last.out, raw, SchemaOf(a), b)
    BY LastKnown
  <2>2. last.out.arch = a
    BY <2>1 DEF Describes
  <2> QED
    BY <2>1, <2>2 DEF ArchNeverGuessed, Determined, Hinted
<1> QED
  BY <1>1, Invariance, PTL

\* Step 5 of Normalizer.normalize: semantics exactly where the schema lists the bank
\* for semantics and the parser brought a text, or a registered transcoder maps one.
THEOREM SemanticsOnlyWhereListed == Spec => []SemanticsGated
<1>1. Inv => SemanticsGated
  <2> SUFFICES ASSUME Inv, Yielded PROVE SemanticsGated
    BY DEF SemanticsGated
  <2>1. PICK raw \in Raws, b \in BankIds, a \in ArchNames :
          /\ last.raw = raw /\ last.bank = b
          /\ a \in wanted /\ Determined(raw.arch_hint, b, a) /\ SchemaOf(a).arch = a
          /\ Describes(last.out, raw, SchemaOf(a), b)
    BY LastKnown
  <2>2. last.out.arch = a /\ last.out.semantics = Semantics(raw, a, b)
    BY <2>1 DEF Describes
  <2> QED
    BY <2>1, <2>2, SemanticsGood DEF SemanticsGated
<1> QED
  BY <1>1, Invariance, PTL

\* Normalizer.normalize lets no record through with a blank text, without an
\* encoding, or with another one than that of its layout; the width is the parser's
\* if it gives one, "variable" included, and a layout fills a width that is a number.
THEOREM NothingIncomplete == Spec => []Complete
<1>1. Inv => Complete
  <2> SUFFICES ASSUME Inv, Yielded PROVE Complete
    BY DEF Complete
  <2>1. PICK raw \in Raws, b \in BankIds, a \in ArchNames :
          /\ last.raw = raw /\ last.bank = b
          /\ a \in wanted /\ Determined(raw.arch_hint, b, a) /\ SchemaOf(a).arch = a
          /\ Describes(last.out, raw, SchemaOf(a), b)
    BY LastKnown
  <2>2. PICK i \in DOMAIN Arches : SchemaOf(a) = Arches[i]
    BY <2>1, SchemaNamed
  <2>3. /\ last.out.mnemonic = Mnemonic(raw) /\ Mnemonic(raw) # ""
        /\ last.out.isa_ext = IsaExt(raw) /\ IsaExt(raw) # ""
        /\ last.out.encoding_class = EncClass(raw, Arches[i])
        /\ EncClass(raw, Arches[i]) # ""
        /\ last.out.encoding_function = Encoding(raw, Arches[i])
        /\ Encoding(raw, Arches[i]) # NoEncoding
    BY <2>1, <2>2 DEF Describes
  <2>4. /\ Stripped(last.out.mnemonic) /\ Stripped(last.out.isa_ext)
        /\ Stripped(last.out.encoding_class)
    BY <2>1, <2>3, TextsGood
  <2>5. raw.layout # None =>
          FitsLayout(last.out.encoding_function, raw, SchemaOf(last.out.arch).fixed_width)
    <3>1. last.out.arch = a
      BY <2>1 DEF Describes
    <3>2. SchemaOf(last.out.arch) = Arches[i]
      BY <2>2, <3>1
    <3> SUFFICES ASSUME raw.layout # None
                 PROVE  FitsLayout(last.out.encoding_function, raw, SchemaOf(last.out.arch).fixed_width)
      OBVIOUS
    <3>3. FitsLayout(Encoding(raw, Arches[i]), raw, Arches[i].fixed_width)
      BY <2>3, EncodingGood, Zenon
    <3> QED
      BY <2>3, <3>2, <3>3, Zenon
  <2> QED
    BY <2>1, <2>3, <2>4, <2>5 DEF Complete, Stripped, FitsLayout
<1> QED
  BY <1>1, Invariance, PTL

\* cmd_check (cli.py) says OK exactly if no record was rejected and no two records
\* of one key differ in their encodings, in whatever order they came.
THEOREM VerdictTrue == Spec => []CheckHonest
<1>1. Inv => CheckHonest
  <2> SUFFICES ASSUME Inv, exit # -1 PROVE CheckHonest
    BY DEF CheckHonest
  <2>1. exit = IF Rejected > 0 \/ conflicts > 0 THEN 1 ELSE 0
    BY DEF Inv, Ended, Verdict
  <2> DEFINE r == [b \in BankIds |-> result[b].rejected]
  <2>2. r \in Counts /\ Rejected = Total(r) /\ \A b \in BankIds : r[b] = result[b].rejected
    BY DEF Inv, Counted, Counts, BankCounts, Rejected
  <2> HIDE DEF r
  <2>3. Rejected \in Nat /\ (Rejected = 0 <=> \A b \in BankIds : result[b].rejected = 0)
    <3>1. /\ Total(r) \in Nat /\ \A b \in BankIds : r[b] <= Total(r)
          /\ (\A b \in BankIds : r[b] = 0) => Total(r) = 0
      BY <2>2, TotalBounds
    <3>2. \A b \in BankIds : r[b] \in Nat
      BY <2>2 DEF Counts
    <3>3. Total(r) = 0 => \A b \in BankIds : r[b] = 0
      BY <3>1, <3>2
    <3> QED
      BY <2>2, <3>1, <3>3
  <2>4. conflicts = 0 <=> \A x, y \in emitted : x[1] = y[1] => x[2] = y[2]
    BY DEF Inv, Ledger
  <2>5. conflicts \in Nat
    BY DEF Inv, Counted
  <2>6. exit = 0 <=> Rejected = 0 /\ conflicts = 0
    BY <2>1, <2>3, <2>5
  <2> QED
    BY <2>3, <2>4, <2>6 DEF CheckHonest
<1> QED
  BY <1>1, Invariance, PTL

============================================================================
