--------------------------- MODULE PrioFleetProofs ---------------------------
(***************************************************************************)
(* Theorems about a batch that is fanned out, saved, restored and merged   *)
(* (PrioFleet), for any number of workers, submissions and crashes.        *)
(***************************************************************************)
EXTENDS PrioFleet, PrioSnipProofs

-----------------------------------------------------------------------------
(* What the servers hold *)

NF(w) == Config[w].num_data_fields

(* The i-th field of every submission that has one. *)
FieldOf(i) == [c \in Id |-> IF i \in 1 .. NF(c[1]) THEN Value(c)[i] ELSE 0]

CountedIn(ledger) == {c \in Id : ledger[c] > 0}

(* The sum that PairsExact takes, *)
SumAt(ledger, i) == MapThenSumSet(LAMBDA c : ledger[c] * Value(c)[i], {c \in Id : ledger[c] > 0})

(* as a sum over a set. *)
LEMMA CountedSum ==
    ASSUME NEW ledger \in [Id -> {0, 1}], NEW i,
           \A c \in CountedIn(ledger) : i \in 1 .. NF(c[1]) /\ Value(c)[i] \in Int
    PROVE  SumAt(ledger, i) = SetSum(FieldOf(i), CountedIn(ledger))
<1> DEFINE S == {c \in Id : ledger[c] > 0}
           f == FieldOf(i)
           B1(g) == [s \in SUBSET S |-> IF s = {} THEN 0
                       ELSE ledger[Pick(s)] * Value(Pick(s))[i] + g[s \ {Pick(s)}]]
           B2(g) == [s \in SUBSET S |-> IF s = {} THEN 0
                       ELSE f[Pick(s)] + g[s \ {Pick(s)}]]
<1>1. MapThenSumSet(LAMBDA c : ledger[c] * Value(c)[i], S) = (CHOOSE g : g = B1(g))[S]
    BY DEF MapThenSumSet, MapThenFoldSet, Pick
<1>2. SetSum(f, S) = (CHOOSE g : g = B2(g))[S] BY DEF SetSum
<1>3. ASSUME NEW c \in S PROVE f[c] = ledger[c] * Value(c)[i]
    <2>1. ledger[c] = 1 OBVIOUS
    <2>2. c \in Id /\ i \in 1 .. NF(c[1]) /\ Value(c)[i] \in Int BY DEF CountedIn
    <2>3. f[c] = Value(c)[i] BY <2>2 DEF FieldOf
    <2> QED BY <2>1, <2>2, <2>3
<1>4. ASSUME NEW g PROVE B1(g) = B2(g)
    <2> HIDE DEF S, f
    <2>1. ASSUME NEW s \in SUBSET S, s # {}
          PROVE  ledger[Pick(s)] * Value(Pick(s))[i] = f[Pick(s)]
        <3>1. Pick(s) \in S BY <2>1, PickIs
        <3> QED BY <1>3, <3>1
    <2> QED BY <2>1
<1> HIDE DEF B1, B2, S
<1>5. (CHOOSE g : g = B1(g)) = (CHOOSE g : g = B2(g)) BY <1>4
<1>6. MapThenSumSet(LAMBDA c : ledger[c] * Value(c)[i], S) = SetSum(f, S) BY <1>1, <1>2, <1>5
<1> QED BY <1>6 DEF S, CountedIn, SumAt

(* The submissions of a worker, and what they contribute. *)
LEMMA SubmissionIs ==
    ASSUME NEW c \in Id
    PROVE  /\ c[1] \in Worker /\ c[2] \in DOMAIN Batch[c[1]] /\ c[2] \in Nat /\ c = <<c[1], c[2]>>
           /\ NF(c[1]) \in Nat
           /\ \A s \in Server : ShareOf(s, c) \in [1 .. NF(c[1]) -> Field]
           /\ \A i \in 1 .. NF(c[1]) :
                /\ ShareOf(PRIO_SERVER_A, c)[i] \in Int /\ ShareOf(PRIO_SERVER_B, c)[i] \in Int
                /\ Value(c)[i] = addmod(ShareOf(PRIO_SERVER_A, c)[i], ShareOf(PRIO_SERVER_B, c)[i])
                /\ Value(c)[i] \in Int
<1>1. PICK w \in Worker : \E j \in DOMAIN Batch[w] : c = <<w, j>> BY DEF Id
<1>2. PICK j \in DOMAIN Batch[w] : c = <<w, j>> BY <1>1
<1>3. /\ NF(w) \in Nat
      /\ Batch[w] \in Seq([honest : BOOLEAN, A : [1 .. NF(w) -> Field], B : [1 .. NF(w) -> Field]])
    BY BatchAssumption DEF NF
<1>4. j \in Nat /\ Batch[w][j] \in [honest : BOOLEAN, A : [1 .. NF(w) -> Field],
                                    B : [1 .. NF(w) -> Field]]
    <2> DEFINE R == [honest : BOOLEAN, A : [1 .. NF(w) -> Field], B : [1 .. NF(w) -> Field]]
               b == Batch[w]
    <2>1. b \in Seq(R) /\ j \in DOMAIN b BY <1>3
    <2> HIDE DEF R, b
    <2>2. j \in Nat /\ b[j] \in R BY <2>1
    <2> QED BY <2>2 DEF R, b
<1>5. c[1] = w /\ c[2] = j BY <1>2
<1>6. Batch[w][j].A \in [1 .. NF(w) -> Field] /\ Batch[w][j].B \in [1 .. NF(w) -> Field] BY <1>4
<1>7. \A s \in Server : ShareOf(s, c) \in [1 .. NF(w) -> Field] BY <1>5, <1>6 DEF ShareOf
<1> DEFINE a == ShareOf(PRIO_SERVER_A, c)
           b == ShareOf(PRIO_SERVER_B, c)
<1>8. a \in [1 .. NF(w) -> Field] /\ b \in [1 .. NF(w) -> Field] BY <1>7 DEF Server
<1>9. Value(c) = MPArray_addmod(a, b) BY DEF Value
<1> HIDE DEF a, b
<1>10. ASSUME NEW i \in 1 .. NF(w)
       PROVE  a[i] \in Int /\ b[i] \in Int /\ Value(c)[i] = addmod(a[i], b[i]) /\ Value(c)[i] \in Int
    <2>1. a[i] \in Int /\ b[i] \in Int BY <1>8, FieldInt
    <2>2. Value(c)[i] = addmod(a[i], b[i]) BY <1>8, <1>9 DEF MPArray_addmod
    <2> QED BY <2>1, <2>2, OpsCong, FieldInt
<1> QED BY <1>2, <1>3, <1>4, <1>5, <1>7, <1>10 DEF a, b

LEMMA FieldOfInt ==
    ASSUME NEW i
    PROVE  \A c \in Id : FieldOf(i)[c] \in Int
<1> SUFFICES ASSUME NEW c \in Id PROVE FieldOf(i)[c] \in Int OBVIOUS
<1>1. FieldOf(i)[c] = IF i \in 1 .. NF(c[1]) THEN Value(c)[i] ELSE 0 BY DEF FieldOf
<1>2. i \in 1 .. NF(c[1]) => Value(c)[i] \in Int BY SubmissionIs
<1> QED BY <1>1, <1>2

(* Adding two shares of one value to two shares of another. *)
LEMMA SharesSum ==
    ASSUME NEW a \in Int, NEW b \in Int, NEW x \in Int, NEW y \in Int, NEW s \in Int, NEW t \in Int,
           Cong(a + b, s), Cong(x + y, t)
    PROVE  /\ addmod(a, x) \in Field /\ addmod(b, y) \in Field
           /\ Cong(addmod(a, x) + addmod(b, y), s + t)
<1> DEFINE u == addmod(a, x)
           v == addmod(b, y)
<1>1. u \in Field /\ u \in Int /\ Cong(u, a + x) /\ v \in Field /\ v \in Int /\ Cong(v, b + y)
    BY OpsCong, FieldInt
<1> HIDE DEF u, v
<1>2. a + x \in Int /\ b + y \in Int /\ a + b \in Int /\ x + y \in Int /\ s + t \in Int
      /\ u + v \in Int /\ (a + x) + (b + y) = (a + b) + (x + y) /\ (a + b) + (x + y) \in Int
    BY <1>1
<1>3. Cong(u + v, (a + x) + (b + y)) BY <1>1, <1>2, CongAdd
<1>4. Cong((a + b) + (x + y), s + t) BY <1>2, CongAdd
<1>5. Cong(u + v, (a + b) + (x + y)) BY <1>2, <1>3
<1>6. Cong(u + v, s + t) BY <1>2, <1>4, <1>5, CongTrans
<1> QED BY <1>1, <1>6 DEF u, v

(* The same for arrays. *)
LEMMA ArraySum ==
    ASSUME NEW n \in Nat, NEW a \in [1 .. n -> Field], NEW b \in [1 .. n -> Field],
           NEW x \in [1 .. n -> Field], NEW y \in [1 .. n -> Field],
           NEW i \in 1 .. n, NEW s \in Int, NEW t \in Int, Cong(a[i] + b[i], s), Cong(x[i] + y[i], t)
    PROVE  Cong(MPArray_addmod(a, x)[i] + MPArray_addmod(b, y)[i], s + t)
<1>1. a[i] \in Int /\ b[i] \in Int /\ x[i] \in Int /\ y[i] \in Int BY FieldInt
<1>2. Cong(addmod(a[i], x[i]) + addmod(b[i], y[i]), s + t) BY <1>1, SharesSum
<1> QED BY <1>2 DEF MPArray_addmod

-----------------------------------------------------------------------------
(* The inductive invariant *)

Count == [Id -> {0, 1}]

ServerType(w) == [data_shares : [1 .. NF(w) -> Field],
                  prg         : [seed : {Config[w].batch_id}, pos : Nat],
                  ledger      : Count]

SavedType(w) == [data_shares : [1 .. NF(w) -> Field], ledger : Count]

DiskType(w) == [st : [Server -> SavedType(w)], next : Nat, merged : SUBSET Worker]

FleetType ==
    /\ server = [w \in Worker |-> server[w]]
    /\ \A w \in Worker : server[w] \in [Server -> ServerType(w) \cup {Down}]
    /\ disk = [w \in Worker |-> disk[w]]
    /\ \A w \in Worker : disk[w] \in DiskType(w)
    /\ next \in [Worker -> Nat]
    /\ merged \subseteq Worker \ {Main}
    /\ ignored \subseteq Id
    /\ alone \subseteq Worker

(* Two servers, or what two servers saved, hold shares of the sum of what  *)
(* their ledgers count.                                                    *)
PairExact(w, A, B) ==
    /\ A.ledger = B.ledger
    /\ IsFiniteSet(CountedIn(A.ledger))
    /\ \A c \in CountedIn(A.ledger) : NF(c[1]) = NF(w)
    /\ \A i \in 1 .. NF(w) :
         Cong(A.data_shares[i] + B.data_shares[i], SetSum(FieldOf(i), CountedIn(A.ledger)))

(* A ledger counts only what comes before a place in the list, and what    *)
(* was merged.                                                             *)
Within(w, ledger, place, done) ==
    \A c \in CountedIn(ledger) : (c[1] = w /\ c[2] < place) \/ (w = Main /\ c[1] \in done)

RunningOk(w) ==
    Up(w) => /\ PairExact(w, server[w][PRIO_SERVER_A], server[w][PRIO_SERVER_B])
             /\ Within(w, server[w][PRIO_SERVER_A].ledger, next[w], merged)
             /\ w \notin alone =>
                  server[w][PRIO_SERVER_A].prg = server[w][PRIO_SERVER_B].prg

SavedOk(w) ==
    /\ PairExact(w, disk[w].st[PRIO_SERVER_A], disk[w].st[PRIO_SERVER_B])
    /\ Within(w, disk[w].st[PRIO_SERVER_A].ledger, disk[w].next, disk[w].merged)
    /\ disk[w].next <= next[w]
    /\ w = Main => disk[w].merged \subseteq merged

(* The caller is at the place it saved. *)
AtSaved(w) == disk[w].next = next[w] /\ (w = Main => disk[w].merged = merged)

(* A server that runs where it was saved has what it saved, and one whose  *)
(* peer has stopped is such a server.                                      *)
UnsavedOk(w) ==
    \A s \in Server : server[w][s] # Down =>
        /\ AtSaved(w) => PrioServer_write(server[w][s]) = disk[w].st[s]
        /\ ~Up(w) => AtSaved(w)

FleetInv ==
    /\ FleetType
    /\ \A w \in Worker : RunningOk(w) /\ SavedOk(w) /\ UnsavedOk(w)
    /\ \A w \in merged : NF(w) = NF(Main)
    /\ HonestNotIgnored

LEMMA NotDown ==
    ASSUME NEW w, NEW x \in ServerType(w)
    PROVE  x # Down
<1>1. "prg" \in DOMAIN x BY DEF ServerType
<1>2. "prg" \notin DOMAIN Down BY DEF Down
<1> QED BY <1>1, <1>2

LEMMA ServersTwo == PRIO_SERVER_A \in Server /\ PRIO_SERVER_B \in Server
    BY DEF Server

LEMMA FieldsNat ==
    ASSUME NEW w \in Worker
    PROVE  NF(w) \in Nat
    BY BatchAssumption DEF NF

(* PairExact is about the shares and the ledgers only. *)
LEMMA PairSame ==
    ASSUME NEW w, NEW A, NEW B, NEW P, NEW Q, PairExact(w, A, B),
           P.data_shares = A.data_shares, P.ledger = A.ledger,
           Q.data_shares = B.data_shares, Q.ledger = B.ledger
    PROVE  PairExact(w, P, Q)
    BY DEF PairExact

(* Drawing a point touches nothing but the PRG. *)
LEMMA DrawnIs ==
    ASSUME NEW w, NEW x \in ServerType(w)
    PROVE  LET y == [x EXCEPT !.prg.pos = @ + 1]
           IN  /\ y \in ServerType(w)
               /\ y.data_shares = x.data_shares /\ y.ledger = x.ledger
               /\ y.prg = [x.prg EXCEPT !.pos = @ + 1]
<1>1. /\ x = [data_shares |-> x.data_shares, prg |-> x.prg, ledger |-> x.ledger]
      /\ x.prg = [seed |-> x.prg.seed, pos |-> x.prg.pos]
      /\ x.prg.pos + 1 \in Nat
    BY DEF ServerType
<1> QED BY <1>1 DEF ServerType

LEMMA AggregateIs ==
    ASSUME NEW w \in Worker, NEW x \in ServerType(w), NEW s \in Server,
           NEW c \in Id, c[1] = w, x.ledger[c] = 0
    PROVE  LET y == PrioServer_aggregate(x, s, c)
           IN  /\ y \in ServerType(w)
               /\ y.data_shares = MPArray_addmod(x.data_shares, ShareOf(s, c))
               /\ y.ledger = [x.ledger EXCEPT ![c] = 1]
               /\ y.prg = x.prg
<1> DEFINE d == MPArray_addmod(x.data_shares, ShareOf(s, c))
           l == [x.ledger EXCEPT ![c] = 1]
<1>1. NF(w) \in Nat /\ ShareOf(s, c) \in [1 .. NF(w) -> Field] BY SubmissionIs
<1>2. x.data_shares \in [1 .. NF(w) -> Field] /\ x.ledger \in Count
      /\ x.prg \in [seed : {Config[w].batch_id}, pos : Nat]
    BY DEF ServerType
<1>3. d \in [1 .. NF(w) -> Field] BY <1>1, <1>2, ArrayAdds
<1>4. l \in Count BY <1>2 DEF Count
<1>5. x = [data_shares |-> x.data_shares, prg |-> x.prg, ledger |-> x.ledger] BY DEF ServerType
<1>6. PrioServer_aggregate(x, s, c)
        = [x EXCEPT !.data_shares = d, !.ledger = [x.ledger EXCEPT ![c] = x.ledger[c] + 1]]
    BY <1>5 DEF PrioServer_aggregate
<1>7. [x.ledger EXCEPT ![c] = x.ledger[c] + 1] = l
    <2>1. x.ledger[c] + 1 = 1 OBVIOUS
    <2> QED BY <2>1
<1> HIDE DEF d, l
<1>8. PrioServer_aggregate(x, s, c) = [data_shares |-> d, prg |-> x.prg, ledger |-> l]
    BY <1>5, <1>6, <1>7
<1> QED BY <1>2, <1>3, <1>4, <1>8 DEF ServerType, d, l

(* The two servers add their shares of a submission they had not counted. *)
LEMMA PairAggregates ==
    ASSUME NEW w \in Worker, NEW A \in ServerType(w), NEW B \in ServerType(w), PairExact(w, A, B),
           NEW c \in Id, c[1] = w, A.ledger[c] = 0
    PROVE  /\ PairExact(w, PrioServer_aggregate(A, PRIO_SERVER_A, c),
                           PrioServer_aggregate(B, PRIO_SERVER_B, c))
           /\ CountedIn(PrioServer_aggregate(A, PRIO_SERVER_A, c).ledger)
                = CountedIn(A.ledger) \cup {c}
<1> DEFINE P == PrioServer_aggregate(A, PRIO_SERVER_A, c)
           Q == PrioServer_aggregate(B, PRIO_SERVER_B, c)
           a == ShareOf(PRIO_SERVER_A, c)
           b == ShareOf(PRIO_SERVER_B, c)
           S == CountedIn(A.ledger)
<1>1. A.ledger = B.ledger /\ IsFiniteSet(S) /\ \A e \in S : NF(e[1]) = NF(w)
    BY DEF PairExact
<1>2. /\ P.data_shares = MPArray_addmod(A.data_shares, a) /\ P.ledger = [A.ledger EXCEPT ![c] = 1]
      /\ Q.data_shares = MPArray_addmod(B.data_shares, b) /\ Q.ledger = [B.ledger EXCEPT ![c] = 1]
    BY <1>1, ServersTwo, AggregateIs
<1> HIDE DEF P, Q
<1>3. P.ledger = Q.ledger BY <1>1, <1>2
<1>4. A.ledger \in Count BY DEF ServerType
<1>5. CountedIn(P.ledger) = S \cup {c} /\ c \notin S
    <2> DEFINE l == A.ledger
    <2>1. l \in Count /\ l[c] = 0 /\ P.ledger = [l EXCEPT ![c] = 1] BY <1>2, <1>4
    <2> HIDE DEF l
    <2>2. CountedIn(P.ledger) = CountedIn(l) \cup {c} /\ c \notin CountedIn(l)
        BY <2>1 DEF CountedIn, Count
    <2> QED BY <2>2 DEF l
<1>6. IsFiniteSet(S \cup {c}) BY <1>1, FS_AddElement
<1>7. \A e \in S \cup {c} : NF(e[1]) = NF(w) BY <1>1
<1>8. ASSUME NEW i \in 1 .. NF(w)
      PROVE  Cong(P.data_shares[i] + Q.data_shares[i], SetSum(FieldOf(i), S \cup {c}))
    <2>1. /\ NF(w) \in Nat /\ a \in [1 .. NF(w) -> Field] /\ b \in [1 .. NF(w) -> Field]
          /\ a[i] \in Int /\ b[i] \in Int /\ Value(c)[i] = addmod(a[i], b[i]) /\ Value(c)[i] \in Int
        BY SubmissionIs, ServersTwo
    <2>2. A.data_shares \in [1 .. NF(w) -> Field] /\ B.data_shares \in [1 .. NF(w) -> Field]
        BY DEF ServerType
    <2>3. Cong(a[i] + b[i], Value(c)[i])
        <3> DEFINE u == a[i]
                   v == b[i]
        <3>1. u \in Int /\ v \in Int BY <2>1
        <3> HIDE DEF u, v
        <3>2. addmod(u, v) \in Int /\ Cong(addmod(u, v), u + v) /\ u + v \in Int
            <4>1. addmod(u, v) \in Int /\ Cong(addmod(u, v), u + v) BY <3>1, OpsCong, FieldInt
            <4> QED BY <3>1, <4>1
        <3>3. Cong(u + v, addmod(u, v)) BY <3>2, CongSym
        <3> QED BY <2>1, <3>3 DEF u, v
    <2>4. \A e \in S \cup {c} : FieldOf(i)[e] \in Int BY FieldOfInt DEF CountedIn
    <2>5. SetSum(FieldOf(i), S) \in Int /\ Cong(A.data_shares[i] + B.data_shares[i],
                                                SetSum(FieldOf(i), S))
        BY <1>1, <2>4, SetSumPick DEF PairExact
    <2>6. SetSum(FieldOf(i), S \cup {c}) = FieldOf(i)[c] + SetSum(FieldOf(i), S)
        <3>1. (S \cup {c}) \ {c} = S BY <1>5
        <3> HIDE DEF S
        <3> QED BY <1>6, <2>4, <3>1, SetSumAny
    <2>7. FieldOf(i)[c] = Value(c)[i] BY DEF FieldOf
    <2> DEFINE t == Value(c)[i]
               z == SetSum(FieldOf(i), S)
    <2>8. Cong(P.data_shares[i] + Q.data_shares[i], z + t)
        <3> HIDE DEF S, a, b, t, z
        <3>1. t \in Int /\ z \in Int /\ Cong(a[i] + b[i], t)
              /\ Cong(A.data_shares[i] + B.data_shares[i], z)
            BY <2>1, <2>3, <2>5 DEF t, z
        <3>2. Cong(MPArray_addmod(A.data_shares, a)[i] + MPArray_addmod(B.data_shares, b)[i], z + t)
            BY <2>1, <2>2, <3>1, ArraySum, ZenonT(40)
        <3> QED BY <1>2, <3>2
    <2>9. z + t = SetSum(FieldOf(i), S \cup {c})
        <3>1. z \in Int /\ t \in Int /\ SetSum(FieldOf(i), S \cup {c}) = t + z
            BY <2>1, <2>5, <2>6, <2>7
        <3> HIDE DEF z, t
        <3> QED BY <3>1
    <2> QED BY <2>8, <2>9
<1>9. PairExact(w, P, Q) BY <1>3, <1>5, <1>6, <1>7, <1>8 DEF PairExact
<1> QED BY <1>5, <1>9 DEF P, Q

(* A worker that has counted none of the submissions of another takes over *)
(* what the other has counted.                                             *)
LEMMA MergeIs ==
    ASSUME NEW v \in Worker, NEW w \in Worker, NF(v) = NF(w),
           NEW x \in ServerType(v), NEW y \in ServerType(w),
           CountedIn(x.ledger) \cap CountedIn(y.ledger) = {}
    PROVE  LET z == PrioServer_merge(x, y)
           IN  /\ z \in ServerType(v)
               /\ z.data_shares = MPArray_addmod(x.data_shares, y.data_shares)
               /\ z.ledger = [c \in Id |-> x.ledger[c] + y.ledger[c]]
               /\ CountedIn(z.ledger) = CountedIn(x.ledger) \cup CountedIn(y.ledger)
               /\ z.prg = x.prg
<1> DEFINE d == MPArray_addmod(x.data_shares, y.data_shares)
           k == x.ledger
           m == y.ledger
           l == [c \in Id |-> k[c] + m[c]]
<1>1. /\ x.data_shares \in [1 .. NF(v) -> Field] /\ y.data_shares \in [1 .. NF(v) -> Field]
      /\ k \in Count /\ m \in Count /\ x.prg \in [seed : {Config[v].batch_id}, pos : Nat]
    BY DEF ServerType
<1>2. d \in [1 .. NF(v) -> Field] BY <1>1, FieldsNat, ArrayAdds
<1>3. l \in Count /\ CountedIn(l) = CountedIn(k) \cup CountedIn(m)
    <2>1. CountedIn(k) \cap CountedIn(m) = {} OBVIOUS
    <2> HIDE DEF k, m
    <2>2. ASSUME NEW c \in Id
          PROVE  /\ k[c] \in {0, 1} /\ m[c] \in {0, 1} /\ ~(k[c] = 1 /\ m[c] = 1)
        BY <1>1, <2>1 DEF Count, CountedIn
    <2>3. ASSUME NEW c \in Id
          PROVE  k[c] + m[c] \in {0, 1} /\ (k[c] + m[c] > 0 <=> k[c] > 0 \/ m[c] > 0)
        BY <2>2
    <2>4. l \in Count BY <2>3 DEF Count
    <2>5. \A c \in Id : l[c] = k[c] + m[c] OBVIOUS
    <2> HIDE DEF l
    <2> QED BY <2>3, <2>4, <2>5 DEF CountedIn
<1>4. x = [data_shares |-> x.data_shares, prg |-> x.prg, ledger |-> x.ledger] BY DEF ServerType
<1>5. PrioServer_merge(x, y) = [x EXCEPT !.data_shares = d, !.ledger = l]
    BY <1>4 DEF PrioServer_merge
<1>6. PrioServer_merge(x, y) = [data_shares |-> d, prg |-> x.prg, ledger |-> l]
    <2> HIDE DEF d, l
    <2> QED BY <1>4, <1>5
<1> HIDE DEF d, l
<1> QED BY <1>1, <1>2, <1>3, <1>6 DEF ServerType, d, l

LEMMA PairMerges ==
    ASSUME NEW v \in Worker, NEW w \in Worker, NF(v) = NF(w),
           NEW A \in ServerType(v), NEW B \in ServerType(v), PairExact(v, A, B),
           NEW C \in ServerType(w), NEW D \in ServerType(w), PairExact(w, C, D),
           CountedIn(A.ledger) \cap CountedIn(C.ledger) = {}
    PROVE  PairExact(v, PrioServer_merge(A, C), PrioServer_merge(B, D))
<1> DEFINE P == PrioServer_merge(A, C)
           Q == PrioServer_merge(B, D)
           S == CountedIn(A.ledger)
           T == CountedIn(C.ledger)
<1>1. /\ A.ledger = B.ledger /\ IsFiniteSet(S) /\ \A e \in S : NF(e[1]) = NF(v)
      /\ C.ledger = D.ledger /\ IsFiniteSet(T) /\ \A e \in T : NF(e[1]) = NF(w)
    BY DEF PairExact
<1>2. /\ P.data_shares = MPArray_addmod(A.data_shares, C.data_shares)
      /\ P.ledger = [c \in Id |-> A.ledger[c] + C.ledger[c]]
      /\ CountedIn(P.ledger) = S \cup T
      /\ Q.data_shares = MPArray_addmod(B.data_shares, D.data_shares)
      /\ Q.ledger = [c \in Id |-> B.ledger[c] + D.ledger[c]]
    BY <1>1, MergeIs
<1> HIDE DEF P, Q
<1>3. P.ledger = Q.ledger BY <1>1, <1>2
<1>4. IsFiniteSet(S \cup T) /\ \A e \in S \cup T : NF(e[1]) = NF(v) BY <1>1, FS_Union
<1>5. ASSUME NEW i \in 1 .. NF(v)
      PROVE  Cong(P.data_shares[i] + Q.data_shares[i], SetSum(FieldOf(i), S \cup T))
    <2> DEFINE s == SetSum(FieldOf(i), S)
               t == SetSum(FieldOf(i), T)
    <2>1. \A e \in S \cup T : FieldOf(i)[e] \in Int BY FieldOfInt DEF CountedIn
    <2>2. s \in Int /\ t \in Int BY <1>1, <2>1, SetSumPick
    <2>3. SetSum(FieldOf(i), S \cup T) = s + t
        <3> HIDE DEF S, T
        <3>1. S \cap T = {} BY DEF S, T
        <3> QED BY <1>1, <2>1, <3>1, SetSumUnion
    <2>4. /\ Cong(A.data_shares[i] + B.data_shares[i], s)
          /\ Cong(C.data_shares[i] + D.data_shares[i], t)
        BY DEF PairExact
    <2>5. /\ A.data_shares \in [1 .. NF(v) -> Field] /\ B.data_shares \in [1 .. NF(v) -> Field]
          /\ C.data_shares \in [1 .. NF(v) -> Field] /\ D.data_shares \in [1 .. NF(v) -> Field]
          /\ NF(v) \in Nat
        BY FieldsNat DEF ServerType
    <2> HIDE DEF s, t
    <2>6. Cong(MPArray_addmod(A.data_shares, C.data_shares)[i]
                 + MPArray_addmod(B.data_shares, D.data_shares)[i], s + t)
        BY <2>2, <2>4, <2>5, ArraySum
    <2> QED BY <1>2, <2>3, <2>6
<1>6. PairExact(v, P, Q) BY <1>2, <1>3, <1>4, <1>5 DEF PairExact
<1> QED BY <1>6 DEF P, Q

-----------------------------------------------------------------------------
(* The steps *)

WorkerOk(w) == RunningOk(w) /\ SavedOk(w) /\ UnsavedOk(w)

LEMMA ExceptIs ==
    ASSUME NEW D, NEW f, NEW g, NEW w \in D, NEW x,
           f = [v \in D |-> f[v]], g = [f EXCEPT ![w] = x]
    PROVE  g = [v \in D |-> g[v]] /\ g[w] = x /\ \A v \in D \ {w} : g[v] = f[v]
<1>1. g = [v \in D |-> IF v = w THEN x ELSE f[v]] OBVIOUS
<1> QED BY <1>1

(* A step that does not touch a worker leaves it as it was. *)
LEMMA Frame ==
    ASSUME NEW v, WorkerOk(v), server'[v] = server[v], disk'[v] = disk[v], next'[v] = next[v],
           v = Main => merged' = merged, v \notin alone' => v \notin alone
    PROVE  WorkerOk(v)'
<1>1. Up(v)' = Up(v) /\ AtSaved(v)' = AtSaved(v) BY DEF Up, AtSaved
<1>2. RunningOk(v)' BY <1>1 DEF WorkerOk, RunningOk, Within
<1>3. SavedOk(v)' BY DEF WorkerOk, SavedOk, Within
<1>4. UnsavedOk(v)' BY <1>1 DEF WorkerOk, UnsavedOk
<1> QED BY <1>2, <1>3, <1>4 DEF WorkerOk

(* The servers of a pair that is up. *)
LEMMA PairIs ==
    ASSUME NEW w \in Worker, FleetType, Up(w)
    PROVE  /\ \A s \in Server : server[w][s] \in ServerType(w)
           /\ server[w][PRIO_SERVER_A] \in ServerType(w)
           /\ server[w][PRIO_SERVER_B] \in ServerType(w)
<1>1. server[w] \in [Server -> ServerType(w) \cup {Down}] BY DEF FleetType
<1>2. \A s \in Server : server[w][s] \in ServerType(w) BY <1>1 DEF Up
<1> QED BY <1>2, ServersTwo

(* A new server. *)
LEMMA NewIs ==
    ASSUME NEW w \in Worker
    PROVE  LET x == PrioServer_new(Config[w])
           IN  /\ x \in ServerType(w)
               /\ x.data_shares = [i \in 1 .. NF(w) |-> 0]
               /\ x.ledger = NoneCounted
               /\ x.prg = PRG_new(Config[w])
               /\ CountedIn(x.ledger) = {}
<1> DEFINE d == [i \in 1 .. NF(w) |-> 0]
           g == PRG_new(Config[w])
<1>1. PrioServer_new(Config[w]) = [data_shares |-> d, prg |-> g, ledger |-> NoneCounted]
    BY DEF PrioServer_new, MPArray_new, NF
<1>2. d \in [1 .. NF(w) -> Field]
    <2>1. 0 \in Field BY ModulusAssumption DEF Field
    <2> QED BY <2>1
<1>3. g \in [seed : {Config[w].batch_id}, pos : Nat]
    BY DEF PRG_new, prg_seed_from_config_and_shared_secret
<1>4. NoneCounted \in Count /\ CountedIn(NoneCounted) = {} BY DEF NoneCounted, Count, CountedIn
<1> HIDE DEF d, g
<1> QED BY <1>1, <1>2, <1>3, <1>4 DEF ServerType, d, g

LEMMA PairNew ==
    ASSUME NEW w \in Worker, NEW A, NEW B,
           A.data_shares = [i \in 1 .. NF(w) |-> 0], A.ledger = NoneCounted,
           B.data_shares = [i \in 1 .. NF(w) |-> 0], B.ledger = NoneCounted
    PROVE  PairExact(w, A, B) /\ CountedIn(A.ledger) = {}
<1>1. CountedIn(A.ledger) = {} BY DEF NoneCounted, CountedIn
<1>2. IsFiniteSet({}) BY FS_EmptySet
<1>3. ASSUME NEW i \in 1 .. NF(w)
      PROVE  Cong(A.data_shares[i] + B.data_shares[i], SetSum(FieldOf(i), {}))
    <2>1. A.data_shares[i] + B.data_shares[i] = 0 OBVIOUS
    <2>2. SetSum(FieldOf(i), {}) = 0 BY <1>2, SetSumPick
    <2>3. Cong(0, 0) BY CongRefl
    <2> QED BY <2>1, <2>2, <2>3
<1> QED BY <1>1, <1>2, <1>3 DEF PairExact

(* What a server writes. *)
LEMMA SavedIs ==
    ASSUME NEW w, NEW x \in ServerType(w)
    PROVE  /\ PrioServer_write(x) \in SavedType(w)
           /\ PrioServer_write(x).data_shares = x.data_shares
           /\ PrioServer_write(x).ledger = x.ledger
    BY DEF PrioServer_write, ServerType, SavedType

LEMMA FleetInit ==
    ASSUME Init
    PROVE  FleetInv
<1> DEFINE new(w) == PrioServer_new(Config[w])
<1>1. /\ server = [w \in Worker |-> server[w]] /\ disk = [w \in Worker |-> disk[w]]
      /\ \A w \in Worker : server[w] = [s \in Server |-> new(w)]
      /\ \A w \in Worker : disk[w] = [st |-> [s \in Server |-> PrioServer_write(server[w][s])],
                                      next |-> 1, merged |-> {}]
      /\ next = [w \in Worker |-> 1]
      /\ merged = {} /\ ignored = {} /\ alone = {}
    BY DEF Init
<1>2. ASSUME NEW w \in Worker
      PROVE  /\ \A s \in Server : server[w][s] = new(w)
             /\ \A s \in Server : disk[w].st[s] = PrioServer_write(new(w))
             /\ disk[w].next = 1 /\ disk[w].merged = {} /\ next[w] = 1
    BY <1>1
<1>3. ASSUME NEW w \in Worker
      PROVE  /\ new(w) \in ServerType(w) /\ PrioServer_write(new(w)) \in SavedType(w)
             /\ new(w).data_shares = [i \in 1 .. NF(w) |-> 0]
             /\ PrioServer_write(new(w)).data_shares = [i \in 1 .. NF(w) |-> 0]
             /\ new(w).ledger = NoneCounted /\ PrioServer_write(new(w)).ledger = NoneCounted
    BY NewIs, SavedIs
<1>4. ASSUME NEW w \in Worker
      PROVE  /\ server[w] \in [Server -> ServerType(w) \cup {Down}]
             /\ disk[w] \in DiskType(w)
             /\ WorkerOk(w)
    <2> HIDE DEF new
    <2>1. server[w] \in [Server -> ServerType(w) \cup {Down}] BY <1>1, <1>3, ZenonT(30)
    <2>2. disk[w] \in DiskType(w)
        <3>1. [s \in Server |-> PrioServer_write(server[w][s])] \in [Server -> SavedType(w)]
            BY <1>2, <1>3
        <3> QED BY <1>1, <3>1 DEF DiskType
    <2>3. RunningOk(w)
        <3>1. /\ server[w][PRIO_SERVER_A] = new(w) /\ server[w][PRIO_SERVER_B] = new(w)
            BY <1>2, ServersTwo
        <3>2. PairExact(w, new(w), new(w)) /\ CountedIn(new(w).ledger) = {} BY <1>3, PairNew
        <3> QED BY <3>1, <3>2 DEF RunningOk, Within
    <2>4. SavedOk(w)
        <3> DEFINE p == PrioServer_write(new(w))
        <3>1. /\ disk[w].st[PRIO_SERVER_A] = p /\ disk[w].st[PRIO_SERVER_B] = p
            BY <1>2, ServersTwo
        <3>2. PairExact(w, p, p) /\ CountedIn(p.ledger) = {} BY <1>3, PairNew
        <3> HIDE DEF p
        <3> QED BY <1>2, <3>1, <3>2 DEF SavedOk, Within
    <2>5. UnsavedOk(w)
        <3>1. AtSaved(w) BY <1>1, <1>2 DEF AtSaved
        <3> QED BY <1>2, <3>1 DEF UnsavedOk
    <2> QED BY <2>1, <2>2, <2>3, <2>4, <2>5 DEF WorkerOk
<1>5. FleetType BY <1>1, <1>4, FleetAssumption DEF FleetType
<1> QED BY <1>1, <1>4, <1>5 DEF FleetInv, HonestNotIgnored, WorkerOk

(* The same for every server at once. *)
LEMMA AggregateAny ==
    ASSUME NEW w \in Worker, NEW c \in Id, c[1] = w
    PROVE  \A x \in ServerType(w), s \in Server : x.ledger[c] = 0 =>
               /\ PrioServer_aggregate(x, s, c) \in ServerType(w)
               /\ PrioServer_aggregate(x, s, c).prg = x.prg
<1> SUFFICES ASSUME NEW x \in ServerType(w), NEW s \in Server, x.ledger[c] = 0
             PROVE  /\ PrioServer_aggregate(x, s, c) \in ServerType(w)
                    /\ PrioServer_aggregate(x, s, c).prg = x.prg
    OBVIOUS
<1>1. PrioServer_aggregate(x, s, c) \in ServerType(w) BY AggregateIs
<1>2. PrioServer_aggregate(x, s, c).prg = x.prg
    <2>1. x = [data_shares |-> x.data_shares, prg |-> x.prg, ledger |-> x.ledger] BY DEF ServerType
    <2> QED BY <2>1 DEF PrioServer_aggregate
<1> QED BY <1>1, <1>2

(* Deciding a submission.  Nothing counts it yet: it is at the caller's    *)
(* place, and the submissions of the worker that are counted come before.  *)
LEMMA DecideInv ==
    ASSUME FleetInv, NEW w \in Worker, Decide(w)
    PROVE  FleetInv'
<1> DEFINE c == <<w, next[w]>>
           drawn == [s \in Server |-> [server[w][s] EXCEPT !.prg.pos = @ + 1]]
           same == server[w][PRIO_SERVER_A].prg = server[w][PRIO_SERVER_B].prg
           added == [s \in Server |-> PrioServer_aggregate(drawn[s], s, c)]
           A == server[w][PRIO_SERVER_A]
           B == server[w][PRIO_SERVER_B]
<1>1. /\ FleetType /\ \A v \in Worker : WorkerOk(v)
      /\ \A v \in merged : NF(v) = NF(Main)
      /\ HonestNotIgnored
    BY DEF FleetInv, WorkerOk
<1>2. /\ Up(w) /\ next[w] \in DOMAIN Batch[w]
      /\ next' = [next EXCEPT ![w] = @ + 1]
      /\ disk' = disk /\ merged' = merged /\ alone' = alone
      /\ \/ server' = [server EXCEPT ![w] = added] /\ ignored' = ignored
         \/ /\ ~(Batch[w][next[w]].honest /\ same)
            /\ server' = [server EXCEPT ![w] = drawn]
            /\ ignored' = ignored \cup {c}
    BY DEF Decide
<1>3. /\ \A s \in Server : server[w][s] \in ServerType(w)
      /\ A \in ServerType(w) /\ B \in ServerType(w)
    BY <1>1, <1>2, PairIs
<1>4. c \in Id /\ c[1] = w /\ c[2] = next[w] /\ next[w] \in Nat
    BY <1>1, <1>2 DEF Id, FleetType
<1>5. /\ PairExact(w, A, B) /\ Within(w, A.ledger, next[w], merged)
      /\ w \notin alone => same
      /\ disk[w].next <= next[w] /\ disk[w].next \in Nat
    <2>1. disk[w].next \in Nat BY <1>1 DEF FleetType, DiskType
    <2> QED BY <1>1, <1>2, <2>1 DEF WorkerOk, RunningOk, SavedOk
<1>6. A.ledger[c] = 0
    <2>1. A.ledger[c] \in {0, 1} BY <1>3, <1>4 DEF ServerType, Count
    <2>2. c \notin CountedIn(A.ledger)
        <3>1. ~(c[2] < next[w]) BY <1>4
        <3>2. ~(w = Main /\ c[1] \in merged) BY <1>1, <1>4 DEF FleetType
        <3> QED BY <1>5, <3>1, <3>2 DEF Within
    <2> QED BY <1>4, <2>1, <2>2 DEF CountedIn
(* The two servers have drawn. *)
<1>7. /\ \A s \in Server : drawn[s] \in ServerType(w)
      /\ \A s \in Server : drawn[s].data_shares = server[w][s].data_shares
                           /\ drawn[s].ledger = server[w][s].ledger
                           /\ drawn[s].prg = [server[w][s].prg EXCEPT !.pos = @ + 1]
    <2> SUFFICES ASSUME NEW s \in Server
                 PROVE  /\ drawn[s] \in ServerType(w)
                        /\ drawn[s].data_shares = server[w][s].data_shares
                        /\ drawn[s].ledger = server[w][s].ledger
                        /\ drawn[s].prg = [server[w][s].prg EXCEPT !.pos = @ + 1]
        OBVIOUS
    <2>1. drawn[s] = [server[w][s] EXCEPT !.prg.pos = @ + 1] OBVIOUS
    <2> HIDE DEF drawn
    <2> QED BY <1>3, <2>1, DrawnIs
<1> DEFINE P == drawn[PRIO_SERVER_A]
           Q == drawn[PRIO_SERVER_B]
<1> HIDE DEF drawn
<1>8. /\ P \in ServerType(w) /\ Q \in ServerType(w)
      /\ PairExact(w, P, Q) /\ P.ledger = A.ledger
      /\ same => P.prg = Q.prg
    <2>1. /\ P.data_shares = A.data_shares /\ P.ledger = A.ledger
          /\ Q.data_shares = B.data_shares /\ Q.ledger = B.ledger
          /\ P.prg = [A.prg EXCEPT !.pos = @ + 1] /\ Q.prg = [B.prg EXCEPT !.pos = @ + 1]
        BY <1>7, ServersTwo
    <2>2. PairExact(w, P, Q) BY <1>5, <2>1, PairSame
    <2> QED BY <1>7, <2>1, <2>2, ServersTwo
(* They have drawn and added their shares. *)
<1>9. /\ \A s \in Server : added[s] \in ServerType(w) /\ added[s].prg = drawn[s].prg
      /\ PairExact(w, added[PRIO_SERVER_A], added[PRIO_SERVER_B])
      /\ CountedIn(added[PRIO_SERVER_A].ledger) = CountedIn(A.ledger) \cup {c}
    <2>1. ASSUME NEW s \in Server PROVE drawn[s].ledger[c] = 0
        <3>1. A.ledger = B.ledger BY <1>5 DEF PairExact
        <3>2. server[w][s].ledger = A.ledger BY <3>1 DEF Server
        <3> QED BY <1>6, <1>7, <3>2
    <2>2. ASSUME NEW s \in Server PROVE added[s] \in ServerType(w) /\ added[s].prg = drawn[s].prg
        <3> DEFINE x == drawn[s]
        <3>1. added[s] = PrioServer_aggregate(x, s, c) OBVIOUS
        <3>2. x \in ServerType(w) /\ x.ledger[c] = 0 BY <1>7, <2>1
        <3> HIDE DEF added, c, x
        <3>3. /\ PrioServer_aggregate(x, s, c) \in ServerType(w)
              /\ PrioServer_aggregate(x, s, c).prg = x.prg
            BY <1>4, <3>2, AggregateAny
        <3> QED BY <3>1, <3>3 DEF x
    <2>3. /\ added[PRIO_SERVER_A] = PrioServer_aggregate(P, PRIO_SERVER_A, c)
          /\ added[PRIO_SERVER_B] = PrioServer_aggregate(Q, PRIO_SERVER_B, c)
        BY ServersTwo
    <2>4. P.ledger[c] = 0 BY <1>6, <1>8
    <2> HIDE DEF added, c, P, Q
    <2> QED BY <1>4, <1>8, <2>2, <2>3, <2>4, PairAggregates
<1> DEFINE now == server'[w]
<1>10. /\ server' = [v \in Worker |-> server'[v]]
       /\ \A v \in Worker \ {w} : server'[v] = server[v] /\ next'[v] = next[v]
       /\ next'[w] = next[w] + 1 /\ next' \in [Worker -> Nat]
       /\ \/ now = added /\ ignored' = ignored
          \/ now = drawn /\ ignored' = ignored \cup {c}
    <2>1. server = [v \in Worker |-> server[v]] /\ next \in [Worker -> Nat] BY <1>1 DEF FleetType
    <2> HIDE DEF added, c
    <2>2. /\ \A v \in Worker \ {w} : next'[v] = next[v]
          /\ next'[w] = next[w] + 1 /\ next' \in [Worker -> Nat]
        BY <1>2, <1>4, <2>1
    <2>3. CASE server' = [server EXCEPT ![w] = added] /\ ignored' = ignored
        BY <2>1, <2>2, <2>3, ExceptIs
    <2>4. CASE server' = [server EXCEPT ![w] = drawn] /\ ignored' = ignored \cup {c}
        BY <2>1, <2>2, <2>4, ExceptIs
    <2> QED BY <1>2, <2>3, <2>4
<1>11. now \in [Server -> ServerType(w)]
    <2>1. added \in [Server -> ServerType(w)] BY <1>9
    <2>2. drawn \in [Server -> ServerType(w)] BY <1>7 DEF drawn
    <2> QED BY <1>10, <2>1, <2>2
<1>12. /\ PairExact(w, now[PRIO_SERVER_A], now[PRIO_SERVER_B])
       /\ CountedIn(now[PRIO_SERVER_A].ledger) \subseteq CountedIn(A.ledger) \cup {c}
       /\ same => now[PRIO_SERVER_A].prg = now[PRIO_SERVER_B].prg
    <2>1. CASE now = added BY <1>8, <1>9, <2>1, ServersTwo
    <2>2. CASE now = drawn BY <1>8, <2>2
    <2> QED BY <1>10, <2>1, <2>2
<1> HIDE DEF added, now
<1>13. Up(w)' BY <1>11, NotDown DEF Up, now
<1>14. RunningOk(w)'
    <2>1. Within(w, now[PRIO_SERVER_A].ledger, next'[w], merged')
        <3> SUFFICES ASSUME NEW e \in CountedIn(now[PRIO_SERVER_A].ledger)
                     PROVE  (e[1] = w /\ e[2] < next'[w]) \/ (w = Main /\ e[1] \in merged')
            BY DEF Within
        <3>1. CASE e = c BY <1>4, <1>10, <3>1
        <3>2. CASE e \in CountedIn(A.ledger)
            <4>1. e \in Id BY <3>2 DEF CountedIn
            <4>2. e[2] \in Nat BY <4>1, SubmissionIs
            <4>3. (e[1] = w /\ e[2] < next[w]) \/ (w = Main /\ e[1] \in merged)
                BY <1>5, <3>2 DEF Within
            <4> QED BY <1>2, <1>4, <1>10, <4>2, <4>3
        <3> QED BY <1>12, <3>1, <3>2
    <2>2. w \notin alone' => now[PRIO_SERVER_A].prg = now[PRIO_SERVER_B].prg BY <1>2, <1>5, <1>12
    <2> QED BY <1>12, <2>1, <2>2 DEF RunningOk, now
<1>15. SavedOk(w)'
    <2>1. SavedOk(w) BY <1>1 DEF WorkerOk
    <2>2. disk[w].next <= next'[w] BY <1>4, <1>5, <1>10
    <2> QED BY <1>2, <2>1, <2>2 DEF SavedOk
<1>16. UnsavedOk(w)'
    <2>1. disk'[w].next # next'[w] BY <1>2, <1>4, <1>5, <1>10
    <2> QED BY <1>13, <2>1 DEF UnsavedOk, AtSaved
<1>17. \A v \in Worker : WorkerOk(v)'
    <2> SUFFICES ASSUME NEW v \in Worker, v # w PROVE WorkerOk(v)'
        BY <1>14, <1>15, <1>16 DEF WorkerOk
    <2> QED BY <1>1, <1>2, <1>10, Frame
<1>18. FleetType'
    <2>1. \A v \in Worker : server'[v] \in [Server -> ServerType(v) \cup {Down}]
        <3> SUFFICES ASSUME NEW v \in Worker
                     PROVE  server'[v] \in [Server -> ServerType(v) \cup {Down}]
            OBVIOUS
        <3>1. CASE v = w BY <1>11, <3>1 DEF now
        <3>2. CASE v # w BY <1>1, <1>10, <3>2 DEF FleetType
        <3> QED BY <3>1, <3>2
    <2>2. ignored' \subseteq Id BY <1>1, <1>4, <1>10 DEF FleetType
    <2> QED BY <1>1, <1>2, <1>10, <2>1, <2>2 DEF FleetType
<1>19. HonestNotIgnored'
    <2> SUFFICES ASSUME NEW e \in ignored', Batch[e[1]][e[2]].honest PROVE e[1] \in alone'
        BY DEF HonestNotIgnored
    <2>1. CASE e \in ignored BY <1>1, <1>2, <2>1 DEF HonestNotIgnored
    <2>2. CASE e \notin ignored
        <3>1. e = c /\ ~(Batch[w][next[w]].honest /\ same) BY <1>2, <2>2
        <3> QED BY <1>2, <1>4, <1>5, <3>1
    <2> QED BY <2>1, <2>2
<1> QED BY <1>1, <1>2, <1>17, <1>18, <1>19 DEF FleetInv, WorkerOk

(* Saving the state of both servers and the caller's place. *)
LEMMA SaveInv ==
    ASSUME FleetInv, NEW w \in Worker, Save(w)
    PROVE  FleetInv'
<1> DEFINE A == server[w][PRIO_SERVER_A]
           B == server[w][PRIO_SERVER_B]
           saved == [st     |-> [s \in Server |-> PrioServer_write(server[w][s])],
                     next   |-> next[w],
                     merged |-> IF w = Main THEN merged ELSE {}]
<1>1. /\ FleetType /\ \A v \in Worker : WorkerOk(v)
      /\ \A v \in merged : NF(v) = NF(Main)
      /\ HonestNotIgnored
    BY DEF FleetInv, WorkerOk
<1>2. /\ Up(w) /\ disk' = [disk EXCEPT ![w] = saved]
      /\ server' = server /\ next' = next /\ merged' = merged /\ alone' = alone
      /\ ignored' = ignored
    BY DEF Save
<1>3. /\ \A s \in Server : server[w][s] \in ServerType(w)
      /\ A \in ServerType(w) /\ B \in ServerType(w)
    BY <1>1, <1>2, PairIs
<1>4. /\ disk' = [v \in Worker |-> disk'[v]] /\ disk'[w] = saved
      /\ \A v \in Worker \ {w} : disk'[v] = disk[v]
    <2>1. disk = [v \in Worker |-> disk[v]] BY <1>1 DEF FleetType
    <2> HIDE DEF saved
    <2> QED BY <1>2, <2>1, ExceptIs
<1>5. /\ \A s \in Server : saved.st[s] = PrioServer_write(server[w][s])
      /\ saved.next = next[w] /\ (w = Main => saved.merged = merged)
      /\ saved \in DiskType(w)
    <2>1. [s \in Server |-> PrioServer_write(server[w][s])] \in [Server -> SavedType(w)]
        BY <1>3, SavedIs
    <2>2. next[w] \in Nat /\ (IF w = Main THEN merged ELSE {}) \subseteq Worker
        BY <1>1 DEF FleetType
    <2> QED BY <2>1, <2>2 DEF DiskType
<1> HIDE DEF saved
<1>6. /\ PairExact(w, A, B) /\ Within(w, A.ledger, next[w], merged)
    BY <1>1, <1>2 DEF WorkerOk, RunningOk
<1>7. RunningOk(w)'
    <2>1. RunningOk(w) /\ Up(w)' = Up(w) BY <1>1, <1>2 DEF WorkerOk, Up
    <2> QED BY <1>2, <2>1 DEF RunningOk, Within
<1>8. SavedOk(w)'
    <2> DEFINE P == saved.st[PRIO_SERVER_A]
               Q == saved.st[PRIO_SERVER_B]
    <2>1. /\ P.data_shares = A.data_shares /\ P.ledger = A.ledger
          /\ Q.data_shares = B.data_shares /\ Q.ledger = B.ledger
        BY <1>3, <1>5, ServersTwo, SavedIs
    <2> HIDE DEF P, Q, A, B
    <2>2. PairExact(w, P, Q) BY <1>6, <2>1, PairSame
    <2>3. Within(w, P.ledger, saved.next, saved.merged)
        BY <1>5, <1>6, <2>1 DEF Within
    <2>4. saved.next <= next[w] BY <1>1, <1>5 DEF FleetType
    <2> QED BY <1>2, <1>4, <1>5, <2>2, <2>3, <2>4 DEF SavedOk, P, Q
<1>9. UnsavedOk(w)'
    <2>1. Up(w)' BY <1>2 DEF Up
    <2>2. \A s \in Server : PrioServer_write(server'[w][s]) = disk'[w].st[s] BY <1>2, <1>4, <1>5
    <2> QED BY <2>1, <2>2 DEF UnsavedOk
<1>10. \A v \in Worker : WorkerOk(v)'
    <2> SUFFICES ASSUME NEW v \in Worker, v # w PROVE WorkerOk(v)'
        BY <1>7, <1>8, <1>9 DEF WorkerOk
    <2> QED BY <1>1, <1>2, <1>4, Frame
<1>11. FleetType' BY <1>1, <1>2, <1>4, <1>5 DEF FleetType
<1>12. HonestNotIgnored' BY <1>1, <1>2 DEF HonestNotIgnored
<1> QED BY <1>1, <1>2, <1>10, <1>11, <1>12 DEF FleetInv, WorkerOk

(* Servers stop.  If one goes on alone, it has nothing that was not saved. *)
LEMMA CrashInv ==
    ASSUME FleetInv, NEW w \in Worker, Crash(w)
    PROVE  FleetInv'
<1>1. /\ FleetType /\ \A v \in Worker : WorkerOk(v)
      /\ \A v \in merged : NF(v) = NF(Main)
      /\ HonestNotIgnored
    BY DEF FleetInv, WorkerOk
<1>2. /\ Up(w) /\ disk' = disk /\ next' = next /\ merged' = merged /\ alone' = alone
      /\ ignored' = ignored
    BY DEF Crash
<1>3. PICK S \in CrashSets :
           /\ S # Server => AtSaved(w)
           /\ server' = [server EXCEPT ![w] =
                             [s \in Server |-> IF s \in S THEN Down ELSE server[w][s]]]
    BY DEF Crash, AtSaved
<1>4. \A s \in Server : server[w][s] \in ServerType(w) BY <1>1, <1>2, PairIs
<1> DEFINE left == [s \in Server |-> IF s \in S THEN Down ELSE server[w][s]]
<1>5. /\ server' = [v \in Worker |-> server'[v]] /\ server'[w] = left
      /\ \A v \in Worker \ {w} : server'[v] = server[v]
    <2>1. server = [v \in Worker |-> server[v]] BY <1>1 DEF FleetType
    <2>2. server' = [server EXCEPT ![w] = left] BY <1>3
    <2> HIDE DEF left
    <2> QED BY <2>1, <2>2, ExceptIs
<1>6. AtSaved(w)' = AtSaved(w) BY <1>2 DEF AtSaved
<1>7. \A s \in Server : server'[w][s] # Down => server'[w][s] = server[w][s] /\ s \notin S
    BY <1>5
<1>8. RunningOk(w)'
    <2> SUFFICES ASSUME Up(w)' PROVE server'[w] = server[w]
        BY <1>1, <1>2 DEF WorkerOk, RunningOk, Within
    <2>1. \A s \in Server : left[s] = server[w][s] BY <1>5, <1>7 DEF Up
    <2>2. server[w] \in [Server -> ServerType(w) \cup {Down}] BY <1>1 DEF FleetType
    <2> QED BY <1>5, <2>1, <2>2
<1>9. SavedOk(w)' BY <1>1, <1>2 DEF WorkerOk, SavedOk, Within
<1>10. UnsavedOk(w)'
    <2> SUFFICES ASSUME NEW s \in Server, server'[w][s] # Down
                 PROVE  /\ AtSaved(w)' => PrioServer_write(server'[w][s]) = disk'[w].st[s]
                        /\ AtSaved(w)'
        BY DEF UnsavedOk
    <2>1. server'[w][s] = server[w][s] /\ s \notin S BY <1>7
    <2>2. AtSaved(w)' BY <1>3, <1>6, <2>1
    <2>3. PrioServer_write(server[w][s]) = disk[w].st[s]
        BY <1>1, <1>6, <2>1, <2>2 DEF WorkerOk, UnsavedOk
    <2> QED BY <1>2, <2>1, <2>2, <2>3
<1>11. \A v \in Worker : WorkerOk(v)'
    <2> SUFFICES ASSUME NEW v \in Worker, v # w PROVE WorkerOk(v)'
        BY <1>8, <1>9, <1>10 DEF WorkerOk
    <2> QED BY <1>1, <1>2, <1>5, Frame
<1>12. FleetType'
    <2>1. left \in [Server -> ServerType(w) \cup {Down}] BY <1>4
    <2>2. \A v \in Worker : server'[v] \in [Server -> ServerType(v) \cup {Down}]
        BY <1>1, <1>5, <2>1 DEF FleetType
    <2> QED BY <1>1, <1>2, <1>5, <2>2 DEF FleetType
<1>13. HonestNotIgnored' BY <1>1, <1>2 DEF HonestNotIgnored
<1> QED BY <1>1, <1>2, <1>11, <1>12, <1>13 DEF FleetInv, WorkerOk

(* A server made anew that reads what was saved. *)
LEMMA ReadIs ==
    ASSUME NEW w \in Worker, NEW p \in SavedType(w)
    PROVE  LET x == PrioServer_read(PrioServer_new(Config[w]), p)
           IN  x \in ServerType(w) /\ PrioServer_write(x) = p /\ x.prg = PRG_new(Config[w])
<1> DEFINE x == PrioServer_new(Config[w])
           g == PRG_new(Config[w])
           a == p.data_shares
           l == p.ledger
<1>1. x \in ServerType(w) /\ x.prg = g BY NewIs
<1>2. p = [data_shares |-> a, ledger |-> l] /\ a \in [1 .. NF(w) -> Field] /\ l \in Count
    BY DEF SavedType
<1>3. PrioServer_read(x, p) = [x EXCEPT !.data_shares = a, !.ledger = l] BY DEF PrioServer_read
<1> HIDE DEF x, g, a, l
<1>4. x = [data_shares |-> x.data_shares, prg |-> x.prg, ledger |-> x.ledger]
      /\ x.prg \in [seed : {Config[w].batch_id}, pos : Nat]
    BY <1>1 DEF ServerType
<1>5. PrioServer_read(x, p) = [data_shares |-> a, prg |-> x.prg, ledger |-> l] BY <1>3, <1>4
<1> QED BY <1>1, <1>2, <1>4, <1>5 DEF ServerType, PrioServer_write, x, g

(* Stopped servers are restored.  A server that went on has not counted    *)
(* anything since, so that the pair has what was saved.                    *)
LEMMA RestoreInv ==
    ASSUME FleetInv, NEW w \in Worker, Restore(w)
    PROVE  FleetInv'
<1> DEFINE new(s) == PrioServer_read(PrioServer_new(Config[w]), disk[w].st[s])
           back == [s \in Server |-> IF server[w][s] = Down THEN new(s) ELSE server[w][s]]
           A == back[PRIO_SERVER_A]
           B == back[PRIO_SERVER_B]
           P == disk[w].st[PRIO_SERVER_A]
           Q == disk[w].st[PRIO_SERVER_B]
<1>1. /\ FleetType /\ \A v \in Worker : WorkerOk(v)
      /\ \A v \in merged : NF(v) = NF(Main)
      /\ HonestNotIgnored
    BY DEF FleetInv, WorkerOk
<1>2. /\ ~Up(w) /\ server' = [server EXCEPT ![w] = back]
      /\ next' = [next EXCEPT ![w] = disk[w].next]
      /\ merged' = IF w = Main THEN disk[w].merged ELSE merged
      /\ ignored' \subseteq ignored
      /\ alone' = IF \E s \in Server : server[w][s] # Down THEN alone \cup {w} ELSE alone
      /\ disk' = disk
    BY DEF Restore
<1>3. disk[w] \in DiskType(w) /\ \A s \in Server : disk[w].st[s] \in SavedType(w)
    BY <1>1 DEF FleetType, DiskType
<1>4. /\ server' = [v \in Worker |-> server'[v]] /\ server'[w] = back
      /\ \A v \in Worker \ {w} : server'[v] = server[v] /\ next'[v] = next[v]
      /\ next'[w] = disk[w].next /\ next' \in [Worker -> Nat]
    <2>1. server = [v \in Worker |-> server[v]] /\ next \in [Worker -> Nat] BY <1>1 DEF FleetType
    <2>2. disk[w].next \in Nat BY <1>3 DEF DiskType
    <2> HIDE DEF back
    <2>3. /\ server' = [v \in Worker |-> server'[v]] /\ server'[w] = back
          /\ \A v \in Worker \ {w} : server'[v] = server[v]
        BY <1>2, <2>1, ExceptIs
    <2> QED BY <1>2, <2>1, <2>2, <2>3
<1>5. ASSUME NEW s \in Server
      PROVE  back[s] \in ServerType(w) /\ PrioServer_write(back[s]) = disk[w].st[s]
    <2>1. CASE server[w][s] = Down
        <3>1. back[s] = new(s) BY <2>1
        <3> QED BY <1>3, <3>1, ReadIs
    <2>2. CASE server[w][s] # Down
        <3>1. back[s] = server[w][s] BY <2>2
        <3>2. server[w][s] \in ServerType(w) BY <1>1, <2>2 DEF FleetType
        <3>3. PrioServer_write(server[w][s]) = disk[w].st[s]
            BY <1>1, <1>2, <2>2 DEF WorkerOk, UnsavedOk
        <3> QED BY <3>1, <3>2, <3>3
    <2> QED BY <2>1, <2>2
<1>6. w \notin alone' => A.prg = B.prg
    <2> SUFFICES ASSUME w \notin alone' PROVE A.prg = B.prg OBVIOUS
    <2>1. \A s \in Server : server[w][s] = Down BY <1>2
    <2>2. A = new(PRIO_SERVER_A) /\ B = new(PRIO_SERVER_B) BY <2>1, ServersTwo
    <2>3. \A s \in Server : new(s).prg = PRG_new(Config[w]) BY <1>3, ReadIs
    <2>4. A.prg = PRG_new(Config[w]) /\ B.prg = PRG_new(Config[w])
        <3> HIDE DEF A, B, new
        <3> QED BY <2>2, <2>3, ServersTwo
    <2> QED BY <2>4
<1> HIDE DEF back
<1>7. /\ A.data_shares = P.data_shares /\ A.ledger = P.ledger
      /\ B.data_shares = Q.data_shares /\ B.ledger = Q.ledger
    BY <1>5, ServersTwo, SavedIs
<1>8. SavedOk(w) BY <1>1 DEF WorkerOk
<1>9. disk[w].next \in Nat /\ (w = Main => merged' = disk[w].merged /\ disk[w].merged \subseteq merged)
    BY <1>2, <1>3, <1>8 DEF DiskType, SavedOk
<1>10. RunningOk(w)'
    <2>1. PairExact(w, P, Q) /\ Within(w, P.ledger, disk[w].next, disk[w].merged)
        BY <1>8 DEF SavedOk
    <2> HIDE DEF A, B, P, Q
    <2>2. PairExact(w, A, B) BY <1>7, <2>1, PairSame
    <2>3. Within(w, A.ledger, next'[w], merged') BY <1>4, <1>7, <1>9, <2>1 DEF Within
    <2> QED BY <1>4, <1>6, <2>2, <2>3 DEF RunningOk, A, B
<1>11. SavedOk(w)'
    <2>1. disk'[w].next <= next'[w] BY <1>2, <1>4, <1>9
    <2> QED BY <1>2, <1>8, <1>9, <2>1 DEF SavedOk
<1>12. UnsavedOk(w)'
    <2>1. Up(w)' BY <1>4, <1>5, NotDown DEF Up
    <2>2. \A s \in Server : PrioServer_write(server'[w][s]) = disk'[w].st[s] BY <1>2, <1>4, <1>5
    <2> QED BY <2>1, <2>2 DEF UnsavedOk
<1>13. \A v \in Worker : WorkerOk(v)'
    <2> SUFFICES ASSUME NEW v \in Worker, v # w PROVE WorkerOk(v)'
        BY <1>10, <1>11, <1>12 DEF WorkerOk
    <2>1. v = Main => merged' = merged BY <1>2
    <2>2. v \notin alone' => v \notin alone BY <1>2
    <2> QED BY <1>1, <1>2, <1>4, <2>1, <2>2, Frame
<1>14. FleetType'
    <2>1. back \in [Server -> ServerType(w)] BY <1>5 DEF back
    <2>2. \A v \in Worker : server'[v] \in [Server -> ServerType(v) \cup {Down}]
        BY <1>1, <1>4, <2>1 DEF FleetType
    <2>3. merged' \subseteq Worker \ {Main} BY <1>1, <1>2, <1>9 DEF FleetType
    <2>4. ignored' \subseteq Id /\ alone' \subseteq Worker BY <1>1, <1>2 DEF FleetType
    <2> QED BY <1>1, <1>2, <1>4, <2>2, <2>3, <2>4 DEF FleetType
<1>15. HonestNotIgnored' BY <1>1, <1>2 DEF HonestNotIgnored
<1>16. \A v \in merged' : NF(v) = NF(Main) BY <1>1, <1>2, <1>9
<1> QED BY <1>13, <1>14, <1>15, <1>16 DEF FleetInv, WorkerOk

LEMMA MergeAny ==
    ASSUME NEW v \in Worker, NEW w \in Worker, NF(v) = NF(w)
    PROVE  \A x \in ServerType(v), y \in ServerType(w) :
               CountedIn(x.ledger) \cap CountedIn(y.ledger) = {} =>
                   /\ PrioServer_merge(x, y) \in ServerType(v)
                   /\ CountedIn(PrioServer_merge(x, y).ledger)
                        = CountedIn(x.ledger) \cup CountedIn(y.ledger)
                   /\ PrioServer_merge(x, y).prg = x.prg
<1> SUFFICES ASSUME NEW x \in ServerType(v), NEW y \in ServerType(w),
                    CountedIn(x.ledger) \cap CountedIn(y.ledger) = {}
             PROVE  /\ PrioServer_merge(x, y) \in ServerType(v)
                    /\ CountedIn(PrioServer_merge(x, y).ledger)
                         = CountedIn(x.ledger) \cup CountedIn(y.ledger)
                    /\ PrioServer_merge(x, y).prg = x.prg
    OBVIOUS
<1>1. PrioServer_merge(x, y) \in ServerType(v) BY MergeIs
<1>2. /\ PrioServer_merge(x, y).ledger = [c \in Id |-> x.ledger[c] + y.ledger[c]]
      /\ CountedIn(PrioServer_merge(x, y).ledger) = CountedIn(x.ledger) \cup CountedIn(y.ledger)
    BY MergeIs
<1>3. PrioServer_merge(x, y).prg = x.prg
    <2>1. x = [data_shares |-> x.data_shares, prg |-> x.prg, ledger |-> x.ledger] BY DEF ServerType
    <2> QED BY <2>1 DEF PrioServer_merge
<1> QED BY <1>1, <1>2, <1>3

(* Merging a worker.  Main has counted none of its submissions: those it   *)
(* counts are its own or of workers merged before.                         *)
LEMMA MergeInv ==
    ASSUME FleetInv, NEW w \in Worker, Merge(w)
    PROVE  FleetInv'
<1> DEFINE sum == [s \in Server |-> PrioServer_merge(server[Main][s], server[w][s])]
           A == server[Main][PRIO_SERVER_A]
           B == server[Main][PRIO_SERVER_B]
           C == server[w][PRIO_SERVER_A]
           D == server[w][PRIO_SERVER_B]
<1>1. /\ FleetType /\ \A v \in Worker : WorkerOk(v)
      /\ \A v \in merged : NF(v) = NF(Main)
      /\ HonestNotIgnored /\ Main \in Worker
    BY FleetAssumption DEF FleetInv, WorkerOk
<1>2. /\ w # Main /\ w \notin merged /\ Up(Main) /\ Up(w)
      /\ disk' = disk /\ next' = next /\ ignored' = ignored /\ alone' = alone
    BY DEF Merge
<1>3. HonestNotIgnored' BY <1>1, <1>2 DEF HonestNotIgnored
<1>4. CASE server' = server /\ merged' = merged
    <2>1. \A v \in Worker : WorkerOk(v)' BY <1>1, <1>2, <1>4, Frame
    <2>2. FleetType' BY <1>1, <1>2, <1>4 DEF FleetType
    <2> QED BY <1>1, <1>3, <1>4, <2>1, <2>2 DEF FleetInv, WorkerOk
<1>5. CASE /\ server_eq(Config[Main], Config[w])
           /\ server' = [server EXCEPT ![Main] = sum] /\ merged' = merged \cup {w}
    <2>1. NF(w) = NF(Main) BY <1>5 DEF server_eq, NF
    <2>2. /\ \A s \in Server : server[Main][s] \in ServerType(Main)
          /\ \A s \in Server : server[w][s] \in ServerType(w)
          /\ A \in ServerType(Main) /\ B \in ServerType(Main)
          /\ C \in ServerType(w) /\ D \in ServerType(w)
        BY <1>1, <1>2, PairIs
    <2>3. /\ PairExact(Main, A, B) /\ Within(Main, A.ledger, next[Main], merged)
          /\ Main \notin alone => A.prg = B.prg
          /\ PairExact(w, C, D) /\ Within(w, C.ledger, next[w], merged)
        BY <1>1, <1>2 DEF WorkerOk, RunningOk
    <2>4. CountedIn(A.ledger) \cap CountedIn(C.ledger) = {}
        <3> SUFFICES ASSUME NEW c \in CountedIn(A.ledger), c \in CountedIn(C.ledger) PROVE FALSE
            OBVIOUS
        <3>1. c[1] = Main \/ c[1] \in merged BY <2>3 DEF Within
        <3>2. c[1] = w BY <1>2, <2>3 DEF Within
        <3> QED BY <1>2, <3>1, <3>2
    <2>5. A.ledger = B.ledger /\ C.ledger = D.ledger BY <2>3 DEF PairExact
    <2>6. ASSUME NEW s \in Server
          PROVE  /\ sum[s] \in ServerType(Main) /\ sum[s].prg = server[Main][s].prg
                 /\ CountedIn(sum[s].ledger) = CountedIn(A.ledger) \cup CountedIn(C.ledger)
        <3> DEFINE x == server[Main][s]
                   y == server[w][s]
        <3>1. /\ x \in ServerType(Main) /\ y \in ServerType(w)
              /\ x.ledger = A.ledger /\ y.ledger = C.ledger
              /\ CountedIn(x.ledger) \cap CountedIn(y.ledger) = {}
            BY <2>2, <2>4, <2>5 DEF Server
        <3>2. sum[s] = PrioServer_merge(x, y) OBVIOUS
        <3> HIDE DEF x, y, sum, A, C
        <3>3. /\ PrioServer_merge(x, y) \in ServerType(Main)
              /\ CountedIn(PrioServer_merge(x, y).ledger)
                   = CountedIn(x.ledger) \cup CountedIn(y.ledger)
              /\ PrioServer_merge(x, y).prg = x.prg
            <4>1. Main \in Worker /\ NF(Main) = NF(w) BY <1>1, <2>1
            <4>2. \A X \in ServerType(Main), Y \in ServerType(w) :
                     CountedIn(X.ledger) \cap CountedIn(Y.ledger) = {} =>
                       /\ PrioServer_merge(X, Y) \in ServerType(Main)
                       /\ CountedIn(PrioServer_merge(X, Y).ledger)
                            = CountedIn(X.ledger) \cup CountedIn(Y.ledger)
                       /\ PrioServer_merge(X, Y).prg = X.prg
                BY <4>1, MergeAny, Zenon
            <4> QED BY <3>1, <4>2
        <3> QED BY <3>1, <3>2, <3>3 DEF x
    <2>7. PairExact(Main, sum[PRIO_SERVER_A], sum[PRIO_SERVER_B])
        <3>1. /\ sum[PRIO_SERVER_A] = PrioServer_merge(A, C)
              /\ sum[PRIO_SERVER_B] = PrioServer_merge(B, D)
            BY ServersTwo
        <3> HIDE DEF A, B, C, D, sum
        <3> QED BY <1>1, <2>1, <2>2, <2>3, <2>4, <3>1, PairMerges
    <2>8. /\ server' = [v \in Worker |-> server'[v]] /\ server'[Main] = sum
          /\ \A v \in Worker \ {Main} : server'[v] = server[v]
        <3>1. server = [v \in Worker |-> server[v]] BY <1>1 DEF FleetType
        <3> HIDE DEF sum
        <3> QED BY <1>1, <1>5, <3>1, ExceptIs
    <2>9. sum \in [Server -> ServerType(Main)] BY <2>6
    <2> HIDE DEF sum
    <2>10. RunningOk(Main)'
        <3>1. Within(Main, sum[PRIO_SERVER_A].ledger, next[Main], merged \cup {w})
            <4> SUFFICES ASSUME NEW c \in CountedIn(A.ledger) \cup CountedIn(C.ledger)
                         PROVE  \/ c[1] = Main /\ c[2] < next[Main]
                                \/ c[1] \in merged \cup {w}
                BY <2>6, ServersTwo DEF Within
            <4>1. CASE c \in CountedIn(A.ledger) BY <2>3, <4>1 DEF Within
            <4>2. CASE c \in CountedIn(C.ledger) BY <1>2, <2>3, <4>2 DEF Within
            <4> QED BY <4>1, <4>2
        <3>2. Main \notin alone => sum[PRIO_SERVER_A].prg = sum[PRIO_SERVER_B].prg
            <4>1. sum[PRIO_SERVER_A].prg = A.prg /\ sum[PRIO_SERVER_B].prg = B.prg
                BY <2>6, ServersTwo
            <4> QED BY <2>3, <4>1
        <3> QED BY <1>2, <1>5, <2>7, <2>8, <3>1, <3>2 DEF RunningOk
    <2>11. SavedOk(Main) BY <1>1 DEF WorkerOk
    <2>12. SavedOk(Main)' BY <1>2, <1>5, <2>11 DEF SavedOk
    <2>13. UnsavedOk(Main)'
        <3>1. Up(Main)' BY <1>1, <2>8, <2>9, NotDown DEF Up
        <3>2. disk'[Main].merged # merged' BY <1>2, <1>5, <2>11 DEF SavedOk
        <3> QED BY <3>1, <3>2 DEF UnsavedOk, AtSaved
    <2>14. \A v \in Worker : WorkerOk(v)'
        <3> SUFFICES ASSUME NEW v \in Worker, v # Main PROVE WorkerOk(v)'
            BY <2>10, <2>12, <2>13 DEF WorkerOk
        <3> QED BY <1>1, <1>2, <2>8, Frame
    <2>15. FleetType'
        <3>1. \A v \in Worker : server'[v] \in [Server -> ServerType(v) \cup {Down}]
            BY <1>1, <2>8, <2>9 DEF FleetType
        <3> QED BY <1>1, <1>2, <1>5, <2>8, <3>1 DEF FleetType
    <2> QED BY <1>1, <1>3, <1>5, <2>1, <2>14, <2>15 DEF FleetInv, WorkerOk
<1> QED BY <1>4, <1>5 DEF Merge

(* Every step, and a stutter. *)
LEMMA FleetStep ==
    ASSUME FleetInv, [Next]_vars
    PROVE  FleetInv'
<1>1. CASE UNCHANGED vars
    <2>1. /\ server' = server /\ disk' = disk /\ next' = next /\ merged' = merged
          /\ ignored' = ignored /\ alone' = alone
        BY <1>1 DEF vars
    <2>2. /\ FleetType /\ \A v \in Worker : WorkerOk(v)
          /\ \A v \in merged : NF(v) = NF(Main)
          /\ HonestNotIgnored
        BY DEF FleetInv, WorkerOk
    <2>3. \A v \in Worker : WorkerOk(v)' BY <2>1, <2>2, Frame
    <2>4. FleetType' BY <2>1, <2>2 DEF FleetType
    <2>5. HonestNotIgnored' BY <2>1, <2>2 DEF HonestNotIgnored
    <2> QED BY <2>1, <2>2, <2>3, <2>4, <2>5 DEF FleetInv, WorkerOk
<1>2. ASSUME NEW w \in Worker, Decide(w) \/ Save(w) \/ Crash(w) \/ Restore(w) \/ Merge(w)
      PROVE  FleetInv'
    BY <1>2, DecideInv, SaveInv, CrashInv, RestoreInv, MergeInv
<1> QED BY <1>1, <1>2 DEF Next, Done

-----------------------------------------------------------------------------
(* The theorems *)

LEMMA FleetInvHolds == Spec => []FleetInv
<1>1. Init => FleetInv BY FleetInit
<1>2. FleetInv /\ [Next]_vars => FleetInv' BY FleetStep
<1> QED BY <1>1, <1>2, PTL DEF Spec

LEMMA SumCountedIs ==
    ASSUME NEW ledger, NEW n \in Nat, \A i \in 1 .. n : SumAt(ledger, i) \in Int
    PROVE  SumCounted(ledger, n) = [i \in 1 .. n |-> SumAt(ledger, i) % Modulus]
<1> DEFINE f == [i \in 1 .. n |-> SumAt(ledger, i) % Modulus]
<1>1. SumCounted(ledger, n) = <<>> \o f BY DEF SumCounted, SumAt, Array
<1>2. f \in [1 .. n -> Int]
    <2>1. \A i \in 1 .. n : SumAt(ledger, i) % Modulus \in Field BY DivMod
    <2> QED BY <2>1, FieldInt
<1> HIDE DEF f
<1>3. f \in Seq(Int) BY <1>2
<1>4. <<>> \o f = f BY <1>3
<1> QED BY <1>1, <1>4 DEF f

(* The invariant says that the two servers of a pair hold shares of what   *)
(* their ledger counts.                                                    *)
LEMMA FleetPairs ==
    ASSUME FleetInv
    PROVE  PairsExact
<1> SUFFICES ASSUME NEW w \in Worker, Up(w)
             PROVE  LET A == server[w][PRIO_SERVER_A]
                        B == server[w][PRIO_SERVER_B]
                    IN  /\ A.ledger = B.ledger
                        /\ \A c \in Id : A.ledger[c] <= 1
                        /\ MPArray_addmod(A.data_shares, B.data_shares)
                             = SumCounted(A.ledger, Config[w].num_data_fields)
    BY DEF PairsExact
<1> DEFINE A == server[w][PRIO_SERVER_A]
           B == server[w][PRIO_SERVER_B]
           l == A.ledger
           a == A.data_shares
           b == B.data_shares
           S == CountedIn(l)
<1>1. FleetType /\ RunningOk(w) BY DEF FleetInv
<1>2. A \in ServerType(w) /\ B \in ServerType(w) BY <1>1, PairIs
<1>3. l \in Count /\ a \in [1 .. NF(w) -> Field] /\ b \in [1 .. NF(w) -> Field]
    BY <1>2 DEF ServerType
<1>4. PairExact(w, A, B) BY <1>1 DEF RunningOk
<1>5. l = B.ledger /\ IsFiniteSet(S) /\ \A c \in S : NF(c[1]) = NF(w)
    BY <1>4 DEF PairExact
<1>6. \A i \in 1 .. NF(w) : Cong(a[i] + b[i], SetSum(FieldOf(i), S)) BY <1>4 DEF PairExact
<1> HIDE DEF A, B, l, a, b, S
<1>7. \A c \in Id : l[c] <= 1 BY <1>3 DEF Count
<1>8. NF(w) \in Nat BY FieldsNat
<1>9. ASSUME NEW i \in 1 .. NF(w)
      PROVE  SumAt(l, i) \in Int /\ SumAt(l, i) % Modulus = addmod(a[i], b[i])
    <2>1. \A c \in CountedIn(l) : i \in 1 .. NF(c[1]) /\ Value(c)[i] \in Int
        BY <1>5, SubmissionIs DEF S, CountedIn
    <2>2. SumAt(l, i) = SetSum(FieldOf(i), S) BY <1>3, <2>1, CountedSum DEF Count, S
    <2>3. SumAt(l, i) \in Int
        <3>1. \A c \in S : FieldOf(i)[c] \in Int BY FieldOfInt DEF S, CountedIn
        <3> QED BY <1>5, <2>2, <3>1, SetSumPick
    <2>4. a[i] + b[i] \in Int
        <3>1. a[i] \in Int /\ b[i] \in Int BY <1>3, FieldInt
        <3> QED BY <3>1
    <2>5. (a[i] + b[i]) % Modulus = SumAt(l, i) % Modulus
        <3>1. Cong(a[i] + b[i], SumAt(l, i)) BY <1>6, <2>2
        <3> QED BY <2>3, <2>4, <3>1, CongEq
    <2> QED BY <2>3, <2>5 DEF addmod
<1>10. SumCounted(l, NF(w)) = [i \in 1 .. NF(w) |-> SumAt(l, i) % Modulus]
    BY <1>8, <1>9, SumCountedIs
<1>11. MPArray_addmod(a, b) = SumCounted(l, NF(w))
    <2>1. MPArray_addmod(a, b) = [i \in 1 .. NF(w) |-> addmod(a[i], b[i])]
        BY <1>3 DEF MPArray_addmod
    <2> QED BY <1>9, <1>10, <2>1
<1> QED BY <1>5, <1>7, <1>11 DEF A, B, l, a, b, NF

(* However many workers there are, whenever their state is saved, lost and *)
(* restored and in whatever order they are merged: two servers of a pair   *)
(* that are up hold shares of the sum of the submissions their ledger      *)
(* counts, the same at both, each counted once.                            *)
THEOREM PairsExactHolds == Spec => []PairsExact
<1>1. FleetInv => PairsExact BY FleetPairs
<1> QED BY <1>1, FleetInvHolds, PTL

(* Both servers draw the same points as long as neither is restored alone, *)
(* so that no honest submission is ignored.                                *)
THEOREM HonestNotIgnoredHolds == Spec => []HonestNotIgnored
<1>1. FleetInv => HonestNotIgnored BY DEF FleetInv
<1> QED BY <1>1, FleetInvHolds, PTL

(* A worker that is merged compared equal with Main and one that is        *)
(* refused did not, and what a crash takes back from the merged workers    *)
(* leaves the others merged.                                               *)
MergedEqual ==
    /\ \A w \in merged : server_eq(Config[Main], Config[w])
    /\ refused \subseteq Worker
    /\ \A w \in refused : ~server_eq(Config[Main], Config[w])

LEMMA MergedStep ==
    ASSUME FleetInv, MergedEqual, [Next]_vars
    PROVE  MergedEqual'
<1>1. FleetType BY DEF FleetInv
<1>2. CASE UNCHANGED vars BY <1>2 DEF vars, MergedEqual
<1>3. ASSUME NEW w \in Worker, Decide(w) \/ Save(w) \/ Crash(w)
      PROVE  MergedEqual'
    <2>1. merged' = merged /\ refused' = refused BY <1>3 DEF Decide, Save, Crash
    <2> QED BY <2>1 DEF MergedEqual
<1>4. ASSUME NEW w \in Worker, Restore(w)
      PROVE  MergedEqual'
    <2>1. SavedOk(w) BY DEF FleetInv
    <2>2. merged' \subseteq merged /\ refused' = refused BY <1>4, <2>1 DEF Restore, SavedOk
    <2> QED BY <2>2 DEF MergedEqual
<1>5. ASSUME NEW w \in Worker, Merge(w)
      PROVE  MergedEqual'
    <2>1. \/ /\ server_eq(Config[Main], Config[w])
             /\ merged' = merged \cup {w} /\ refused' = refused
          \/ /\ ~server_eq(Config[Main], Config[w])
             /\ merged' = merged /\ refused' = refused \cup {w}
        BY <1>5 DEF Merge
    <2> QED BY <2>1 DEF MergedEqual
<1> QED BY <1>2, <1>3, <1>4, <1>5 DEF Next, Done

LEMMA MergedEqualHolds == Spec => []MergedEqual
<1>1. Init => MergedEqual BY DEF Init, MergedEqual
<1>2. FleetInv /\ MergedEqual /\ [Next]_vars => MergedEqual' BY MergedStep
<1> QED BY <1>1, <1>2, FleetInvHolds, PTL DEF Spec

(* strncmp tells two batch ids apart: after a zero both are zeros.         *)
LEMMA BatchIdsCompared ==
    ASSUME NEW a \in Seq(Nat), NEW b \in Seq(Nat), ZeroFilled(a), ZeroFilled(b),
           Len(a) = Len(b), strncmp_eq(a, b)
    PROVE  a = b
<1>1. DOMAIN a = 1 .. Len(a) /\ DOMAIN b = 1 .. Len(a) OBVIOUS
<1>2. ASSUME NEW i \in 1 .. Len(a)
      PROVE  a[i] = b[i]
    <2>1. CASE \E j \in 1 .. i - 1 : a[j] = 0 /\ b[j] = 0
        <3>1. PICK j \in 1 .. i - 1 : a[j] = 0 /\ b[j] = 0 BY <2>1
        <3>2. j \in 1 .. Len(a) /\ j < i BY <3>1
        <3>3. a[i] = 0 /\ b[i] = 0 BY <1>1, <3>1, <3>2 DEF ZeroFilled
        <3> QED BY <3>3
    <2> QED BY <1>1, <2>1 DEF strncmp_eq
<1> QED BY <1>1, <1>2

(* The first zero octet that two keys have in common. *)
LEMMA FirstZero ==
    ASSUME NEW K \in Nat, NEW a, NEW b, NEW n \in 1 .. K, a[n] = 0 /\ b[n] = 0
    PROVE  \E k \in 1 .. K : /\ a[k] = 0 /\ b[k] = 0
                             /\ \A j \in 1 .. k - 1 : ~(a[j] = 0 /\ b[j] = 0)
<1> DEFINE Z(k) == a[k] = 0 /\ b[k] = 0
           First == \E k \in 1 .. K : Z(k) /\ \A j \in 1 .. k - 1 : ~Z(j)
           P == {m \in Nat : m \in 1 .. K /\ Z(m) => First}
<1> HIDE DEF Z
<1>1. ASSUME NEW m \in Nat, \A i \in 0 .. m - 1 : i \in P PROVE m \in P
    <2>1. ASSUME m \in 1 .. K, Z(m) PROVE First
        <3>1. CASE \E j \in 1 .. m - 1 : Z(j)
            <4>1. PICK j \in 1 .. m - 1 : Z(j) BY <3>1
            <4>2. j \in 0 .. m - 1 /\ j \in 1 .. K BY <2>1, <4>1
            <4> QED BY <1>1, <4>1, <4>2
        <3>2. CASE \A j \in 1 .. m - 1 : ~Z(j) BY <2>1, <3>2
        <3> QED BY <3>1, <3>2
    <2> QED BY <2>1
<1>2. n \in Nat /\ Z(n) BY DEF Z
<1> HIDE DEF P, First
<1>3. n \in P BY <1>1, <1>2, NatStrongInduct
<1>4. First BY <1>2, <1>3 DEF P
<1> QED BY <1>4 DEF First, Z

LEMMA SameUpToZeroSym ==
    ASSUME NEW a \in PublicKey, NEW b \in PublicKey
    PROVE  SameUpToZero(a, b) <=> SameUpToZero(b, a)
<1>1. ASSUME NEW x \in PublicKey, NEW y \in PublicKey, SameUpToZero(x, y)
      PROVE  SameUpToZero(y, x)
    <2>1. CASE x = y BY <2>1 DEF SameUpToZero
    <2>2. ASSUME NEW k \in DOMAIN x \cap DOMAIN y, x[k] = 0, \A i \in 1 .. k : x[i] = y[i]
          PROVE  SameUpToZero(y, x)
        <3>1. x # <<>>
            <4>1. DOMAIN <<>> = {} OBVIOUS
            <4> QED BY <2>2, <4>1
        <3>2. k \in 1 .. k BY <2>2, <3>1, KeyLenAssumption DEF PublicKey
        <3> QED BY <2>2, <3>2 DEF SameUpToZero
    <2> QED BY <1>1, <2>1, <2>2 DEF SameUpToZero
<1> QED BY <1>1

(* public_key_cmp takes two keys for the same just when they are equal or  *)
(* equal up to a zero octet of both: a key is not zero-filled as a batch   *)
(* id is, and what follows its first zero is not compared.                 *)
LEMMA KeysCompared ==
    ASSUME NEW a \in PublicKey, NEW b \in PublicKey
    PROVE  public_key_eq(a, b) <=> SameUpToZero(a, b)
<1> DEFINE K == CURVE25519_KEY_LEN
<1>1. CASE a = <<>> \/ b = <<>>
    <2>1. ASSUME SameUpToZero(a, b) PROVE a = b
        <3>1. DOMAIN <<>> = {} OBVIOUS
        <3> QED BY <1>1, <2>1, <3>1 DEF SameUpToZero
    <2> QED BY <1>1, <2>1 DEF public_key_eq, SameUpToZero
<1>2. CASE a # <<>> /\ b # <<>>
    <2>1. a \in [1 .. K -> 0 .. 255] /\ b \in [1 .. K -> 0 .. 255] BY <1>2 DEF PublicKey
    <2>2. DOMAIN a = 1 .. K /\ DOMAIN b = 1 .. K BY <2>1
    <2>3. public_key_eq(a, b) <=> strncmp_eq(a, b) BY <1>2 DEF public_key_eq
    <2>4. ASSUME strncmp_eq(a, b), a # b PROVE SameUpToZero(a, b)
        <3>1. PICK i \in 1 .. K : a[i] # b[i]
            <4>1. a = [i \in 1 .. K |-> a[i]] /\ b = [i \in 1 .. K |-> b[i]] BY <2>1
            <4>2. (\A i \in 1 .. K : a[i] = b[i]) => a = b BY <4>1, Zenon
            <4> QED BY <2>4, <4>2
        <3>2. PICK m \in 1 .. i - 1 : a[m] = 0 /\ b[m] = 0 BY <2>2, <2>4, <3>1 DEF strncmp_eq
        <3>3. m \in 1 .. K /\ K \in Nat BY <3>1, <3>2, KeyLenAssumption
        <3>4. PICK k \in 1 .. K : /\ a[k] = 0 /\ b[k] = 0
                                  /\ \A j \in 1 .. k - 1 : ~(a[j] = 0 /\ b[j] = 0)
            <4> HIDE DEF K
            <4> QED BY <3>2, <3>3, FirstZero
        <3>5. ASSUME NEW j \in 1 .. k PROVE a[j] = b[j]
            <4>1. j \in 1 .. K /\ \A l \in 1 .. j - 1 : l \in 1 .. k - 1
                BY KeyLenAssumption
            <4>2. a[j] = b[j] \/ \E l \in 1 .. j - 1 : a[l] = 0 /\ b[l] = 0
                BY <2>2, <2>4, <4>1 DEF strncmp_eq
            <4> QED BY <3>4, <4>1, <4>2
        <3> QED BY <2>2, <3>4, <3>5 DEF SameUpToZero
    <2>5. ASSUME NEW k \in 1 .. K, a[k] = 0, \A i \in 1 .. k : a[i] = b[i]
          PROVE  strncmp_eq(a, b)
        <3>1. ASSUME NEW i \in 1 .. K, a[i] # b[i]
              PROVE  \E j \in 1 .. i - 1 : a[j] = 0 /\ b[j] = 0
            <4>1. k \in 1 .. i - 1 /\ k \in 1 .. k BY <2>5, <3>1, KeyLenAssumption
            <4>2. b[k] = 0 BY <2>5, <4>1
            <4> QED BY <2>5, <4>1, <4>2
        <3> QED BY <2>2, <3>1 DEF strncmp_eq
    <2>6. a = b => strncmp_eq(a, b) BY DEF strncmp_eq
    <2>7. SameUpToZero(a, b) => strncmp_eq(a, b) BY <2>2, <2>5, <2>6 DEF SameUpToZero
    <2>8. a = b => SameUpToZero(a, b) BY DEF SameUpToZero
    <2> QED BY <2>3, <2>4, <2>7, <2>8
<1> QED BY <1>1, <1>2

(* Whatever is saved, lost and restored, a worker that is merged into Main *)
(* was given the same number of fields, the same modulus and the same      *)
(* batch id, and keys that are the same or differ only after a zero octet  *)
(* of both; one that is refused was not.                                   *)
THEOREM MergedSameConfigHolds == Spec => []MergedSameConfig
<1>1. ASSUME FleetInv, MergedEqual
      PROVE  MergedSameConfig
    <2>1. merged \subseteq Worker /\ Main \in Worker
        BY <1>1, FleetAssumption DEF FleetInv, FleetType
    <2>2. ASSUME NEW w \in Worker
          PROVE  server_eq(Config[Main], Config[w]) <=> SameConfigButKeyTails(Config[w], Config[Main])
        <3> DEFINE c == Config[Main]
                   d == Config[w]
        <3>1. /\ c.server_a_pub \in PublicKey /\ c.server_b_pub \in PublicKey
              /\ d.server_a_pub \in PublicKey /\ d.server_b_pub \in PublicKey
              /\ c.batch_id \in Seq(Nat) /\ d.batch_id \in Seq(Nat)
              /\ ZeroFilled(c.batch_id) /\ ZeroFilled(d.batch_id)
            BY <2>1, ConfigAssumption
        <3> HIDE DEF c, d
        <3>2. /\ public_key_eq(c.server_a_pub, d.server_a_pub)
                   <=> SameUpToZero(d.server_a_pub, c.server_a_pub)
              /\ public_key_eq(c.server_b_pub, d.server_b_pub)
                   <=> SameUpToZero(d.server_b_pub, c.server_b_pub)
            <4>1. /\ SameUpToZero(c.server_a_pub, d.server_a_pub)
                       <=> SameUpToZero(d.server_a_pub, c.server_a_pub)
                  /\ SameUpToZero(c.server_b_pub, d.server_b_pub)
                       <=> SameUpToZero(d.server_b_pub, c.server_b_pub)
                BY <3>1, SameUpToZeroSym
            <4> QED BY <3>1, <4>1, KeysCompared
        <3>3. /\ Len(c.batch_id) = Len(d.batch_id) /\ strncmp_eq(c.batch_id, d.batch_id)
              <=> d.batch_id = c.batch_id
            <4>1. c.batch_id = d.batch_id
                    => Len(c.batch_id) = Len(d.batch_id) /\ strncmp_eq(c.batch_id, d.batch_id)
                BY DEF strncmp_eq
            <4> QED BY <3>1, <4>1, BatchIdsCompared
        <3>4. server_eq(c, d) <=> SameConfigButKeyTails(d, c)
            BY <3>2, <3>3 DEF server_eq, SameConfigButKeyTails
        <3> QED BY <3>4 DEF c, d
    <2> QED BY <1>1, <2>1, <2>2 DEF MergedEqual, MergedSameConfig
<1> QED BY <1>1, FleetInvHolds, MergedEqualHolds, PTL

=============================================================================
