----------------------------- MODULE CloudProofs -----------------------------
(***************************************************************************)
(* The cloud storages, for any callers, keys, scenarios, part and page     *)
(* sizes and answers of the provider.  A listing misses nothing that was   *)
(* there all the while, a download stream reads the object it was opened   *)
(* on, and an object put together from the parts of an upload stream is    *)
(* what was written.                                                       *)
(***************************************************************************)
EXTENDS CloudStorage, SequenceTheorems, FiniteSetTheorems, WellFoundedInduction, TLAPS

-----------------------------------------------------------------------------
(* Numbers, sets and sequences.                                            *)

LEMMA LeastNat == ASSUME NEW S \in SUBSET Nat, S # {} PROVE \E m \in S : \A x \in Nat : x < m => x \notin S
<1>1. PICK m \in S : \A x \in S : ~ (<<x, m>> \in OpToRel(<, Nat)) BY NatLessThanWellFounded, WFMin
<1>2. \A x \in S : x < m => <<x, m>> \in OpToRel(<, Nat) BY DEF OpToRel
<1>3. \A x \in S : ~ (x < m) BY <1>1, <1>2, Zenon
<1>4. QED BY <1>3

LEMMA GreatestNat ==
  ASSUME NEW S \in SUBSET Nat, S # {}, NEW n \in Nat, \A x \in S : x <= n PROVE \E m \in S : \A x \in S : m >= x
<1> DEFINE B == {k \in Nat : \A x \in S : x <= k}
<1>1. n \in B OBVIOUS
<1>2. PICK m \in B : \A x \in Nat : x < m => x \notin B BY <1>1, LeastNat
<1>3. m \in S
  <2>1. SUFFICES ASSUME m \notin S PROVE FALSE OBVIOUS
  <2>2. \A x \in S : x < m BY <1>2, <2>1
  <2>3. m # 0
    <3>1. PICK y \in S : TRUE OBVIOUS
    <3>2. y \in Nat /\ y < m BY <2>2, <3>1
    <3>3. QED BY <1>2, <3>2
  <2>4. m - 1 \in B BY <1>2, <2>2, <2>3
  <2>5. QED BY <1>2, <2>4
<1>4. QED BY <1>2, <1>3

Sorts(s, S) == s \in [1..Cardinality(S) -> S] /\ \A i, j \in 1..Cardinality(S) : i < j => s[i] < s[j]

LEMMA SortExists == ASSUME NEW k \in Nat, NEW S \in SUBSET (1..k) PROVE \E s : Sorts(s, S)
<1> DEFINE B == {n \in Nat : \E T \in SUBSET (1..n) : \A s : ~Sorts(s, T)}
<1>1. SUFFICES ASSUME B # {} PROVE FALSE OBVIOUS
<1>2. PICK n \in B : \A x \in Nat : x < n => x \notin B BY <1>1, LeastNat
<1>3. PICK T \in SUBSET (1..n) : \A s : ~Sorts(s, T) BY <1>2
<1>4. CASE n = 0
  <2>0. T = {} BY <1>3, <1>4
  <2>1. T = {} /\ Cardinality(T) = 0 BY <2>0, FS_EmptySet
  <2>2. Sorts([i \in {} |-> i], T) BY <2>1 DEF Sorts
  <2>3. QED BY <1>3, <2>2
<1>5. CASE n # 0 /\ n \notin T
  <2>1. n - 1 \in Nat /\ T \in SUBSET (1..(n - 1)) BY <1>3, <1>5
  <2>2. n - 1 \in B BY <1>3, <2>1
  <2>3. QED BY <1>2, <2>2
<1>6. CASE n # 0 /\ n \in T
  <2> DEFINE U == T \ {n}
  <2>1. n - 1 \in Nat /\ U \in SUBSET (1..(n - 1)) BY <1>3, <1>6
  <2>2. n - 1 \notin B BY <1>2, <1>6
  <2>3. PICK t : Sorts(t, U) BY <2>1, <2>2
  <2>0. IsFiniteSet(1..n) BY <1>2, FS_Interval
  <2>4. IsFiniteSet(T) BY <1>3, <2>0, FS_Subset
  <2>5. Cardinality(U) = Cardinality(T) - 1 /\ Cardinality(T) \in Nat /\ Cardinality(U) \in Nat
    BY <1>6, <2>4, FS_RemoveElement, FS_CardinalityType
  <2> DEFINE c == Cardinality(T)
  <2> DEFINE s == [i \in 1..c |-> IF i = c THEN n ELSE t[i]]
  <2>a. Cardinality(U) = c - 1 /\ c \in Nat /\ c # 0 BY <2>5
  <2>6. c \in Nat \ {0} /\ t \in [1..(c - 1) -> U] /\ \A i, j \in 1..(c - 1) : i < j => t[i] < t[j]
    BY <2>3, <2>a DEF Sorts
  <2> HIDE DEF c
  <2>7. s \in [1..c -> T] BY <1>6, <2>6
  <2>b. \A u \in U : u \in Nat /\ u < n BY <2>1
  <2>8. \A i \in 1..(c - 1) : t[i] < n BY <2>b, <2>6
  <2>9. \A i, j \in 1..c : i < j => s[i] < s[j] BY <2>6, <2>8
  <2>10. Sorts(s, T) BY <2>7, <2>9 DEF Sorts, c
  <2>11. QED BY <1>3, <2>10
<1>7. QED BY <1>4, <1>5, <1>6

LEMMA SortedSorts == ASSUME NEW k \in Nat, NEW S \in SUBSET (1..k) PROVE Sorts(Sorted(S), S)
<1>1. PICK s : Sorts(s, S) BY SortExists
<1>2. \E t \in [1..Cardinality(S) -> S] : \A i, j \in DOMAIN t : i < j => t[i] < t[j] BY <1>1 DEF Sorts
<1>3. /\ Sorted(S) \in [1..Cardinality(S) -> S]
      /\ \A i, j \in DOMAIN Sorted(S) : i < j => Sorted(S)[i] < Sorted(S)[j]
  BY <1>2 DEF Sorted
<1>4. QED BY <1>3 DEF Sorts

LEMMA SortedInterval == ASSUME NEW n \in Nat PROVE Sorted(1..n) = [i \in 1..n |-> i]
<1> DEFINE s == Sorted(1..n)
<1>1. Cardinality(1..n) = n BY FS_Interval
<1>2. s \in [1..n -> 1..n] /\ \A i, j \in 1..n : i < j => s[i] < s[j] BY <1>1, SortedSorts DEF Sorts
<1> HIDE DEF s
<1>3. ASSUME NEW i \in 1..n, s[i] < i PROVE FALSE
  <2> DEFINE B == {x \in 1..n : s[x] < x}
  <2>0. B \in SUBSET Nat /\ B # {} BY <1>3
  <2>1. PICK m \in B : \A x \in Nat : x < m => x \notin B BY <2>0, LeastNat
  <2>2. CASE m = 1 BY <1>2, <2>1, <2>2
  <2>3. CASE m # 1
    <3>1. m - 1 \in 1..n /\ m - 1 \notin B BY <2>1, <2>3
    <3>2. s[m - 1] >= m - 1 /\ s[m - 1] < s[m] /\ s[m] < m BY <1>2, <2>1, <3>1
    <3>3. QED BY <1>2, <2>1, <3>1, <3>2
  <2>4. QED BY <2>2, <2>3
<1>4. ASSUME NEW i \in 1..n, s[i] > i PROVE FALSE
  <2> DEFINE B == {x \in 1..n : s[x] > x}
  <2>0. B \in SUBSET Nat /\ B # {} /\ \A x \in B : x <= n BY <1>4
  <2>1. PICK m \in B : \A x \in B : m >= x BY <2>0, GreatestNat
  <2>2. CASE m = n BY <1>2, <2>1, <2>2
  <2>3. CASE m # n
    <3>1. m + 1 \in 1..n /\ m + 1 \notin B BY <2>1, <2>3
    <3>2. s[m + 1] <= m + 1 /\ s[m] < s[m + 1] /\ s[m] > m BY <1>2, <2>1, <3>1
    <3>3. QED BY <1>2, <2>1, <3>1, <3>2
  <2>4. QED BY <2>2, <2>3
<1>5. \A i \in 1..n : s[i] = i BY <1>2, <1>3, <1>4
<1>6. s = [i \in 1..n |-> i] BY <1>2, <1>5
<1>7. QED BY <1>6 DEF s

\* The recursion of FlattenSeq.
Flattens(f, ss, n) == f = [i \in 1..n |-> IF i = 1 THEN ss[i] ELSE f[i - 1] \o ss[i]]

LEMMA FlattenExists ==
  ASSUME NEW S, NEW n \in Nat, NEW ss \in [1..n -> Seq(S)] PROVE \E f \in [1..n -> Seq(S)] : Flattens(f, ss, n)
<1> DEFINE B == {k \in 0..n : \A f \in [1..k -> Seq(S)] : ~Flattens(f, ss, k)}
<1>1. SUFFICES ASSUME n \in B PROVE FALSE OBVIOUS
<1>0. B \in SUBSET Nat /\ B # {} BY <1>1
<1>2. PICK k \in B : \A x \in Nat : x < k => x \notin B BY <1>0, LeastNat
<1>3. CASE k = 0
  <2> DEFINE e == [i \in {} |-> <<>>]
  <2>1. e \in [1..0 -> Seq(S)] /\ Flattens(e, ss, 0) BY DEF Flattens
  <2>2. QED BY <1>2, <1>3, <2>1
<1>4. CASE k # 0
  <2>1. k - 1 \in 0..n /\ k - 1 \notin B
    <3>1. k \in 1..n BY <1>2, <1>4
    <3>2. k - 1 \in 0..n /\ k - 1 \in Nat /\ k - 1 < k BY <3>1
    <3>3. QED BY <1>2, <3>2
  <2>2. PICK f \in [1..(k - 1) -> Seq(S)] : Flattens(f, ss, k - 1) BY <2>1
  <2> DEFINE last == IF k = 1 THEN ss[k] ELSE f[k - 1] \o ss[k]
  <2> DEFINE g == [i \in 1..k |-> IF i = k THEN last ELSE f[i]]
  <2>3. last \in Seq(S)
    <3>1. ss[k] \in Seq(S) /\ (k # 1 => f[k - 1] \in Seq(S)) BY <1>2, <1>4, <2>2
    <3>2. QED BY <3>1, ConcatProperties
  <2>4. g \in [1..k -> Seq(S)] BY <2>2, <2>3, <1>2
  <2>5. \A i \in 1..(k - 1) : f[i] = IF i = 1 THEN ss[i] ELSE f[i - 1] \o ss[i] BY <2>2 DEF Flattens
  <2>6. \A i \in 1..k : g[i] = IF i = 1 THEN ss[i] ELSE g[i - 1] \o ss[i]
    <3>1. TAKE i \in 1..k
    <3>2. CASE i = k
      <4>1. g[i] = last BY <3>2
      <4>2. i # 1 => g[i - 1] = f[i - 1] BY <1>2, <3>2
      <4>3. QED BY <3>2, <4>1, <4>2
    <3>3. CASE i # k
      <4>1. i \in 1..(k - 1) /\ g[i] = f[i] BY <1>2, <3>3
      <4>2. i # 1 => g[i - 1] = f[i - 1] BY <1>2, <4>1
      <4>3. QED BY <2>5, <4>1, <4>2
    <3>4. QED BY <3>2, <3>3
  <2>7. Flattens(g, ss, k) BY <2>6 DEF Flattens
  <2>8. QED BY <1>2, <2>4, <2>7
<1>5. QED BY <1>3, <1>4

LEMMA FlattenedBy ==
  ASSUME NEW S, NEW n \in Nat \ {0}, NEW ss \in [1..n -> Seq(S)]
  PROVE  \E f \in [1..n -> Seq(S)] : Flattens(f, ss, n) /\ FlattenSeq(ss) = f[n]
<1>1. Len(ss) = n /\ n # 0 OBVIOUS
<1> DEFINE f == CHOOSE h : h = [i \in 1..n |-> IF i = 1 THEN ss[i] ELSE h[i - 1] \o ss[i]]
<1>2. FlattenSeq(ss) = f[n] BY <1>1 DEF FlattenSeq
<1>0. \E h : h = [i \in 1..n |-> IF i = 1 THEN ss[i] ELSE h[i - 1] \o ss[i]]
  <2>1. PICK h \in [1..n -> Seq(S)] : Flattens(h, ss, n) BY FlattenExists
  <2>2. QED BY <2>1 DEF Flattens
<1>3. Flattens(f, ss, n) BY <1>0, Zenon DEF Flattens
<1> HIDE DEF f
<1>4. \A i \in 1..n : f[i] = IF i = 1 THEN ss[i] ELSE f[i - 1] \o ss[i] BY <1>3 DEF Flattens
<1>5. ASSUME NEW i \in 1..n, f[i] \notin Seq(S) PROVE FALSE
  <2> DEFINE B == {x \in 1..n : f[x] \notin Seq(S)}
  <2>a. i \in B BY <1>5
  <2>b. 1..n \subseteq Nat OBVIOUS
  <2>c. B \subseteq 1..n OBVIOUS
  <2> HIDE DEF B
  <2>0. B \in SUBSET Nat /\ B # {} BY <2>a, <2>b, <2>c
  <2> USE DEF B
  <2>1. PICK m \in B : \A x \in Nat : x < m => x \notin B BY <2>0, LeastNat
  <2>2. CASE m = 1 BY <1>4, <2>1, <2>2
  <2>3. CASE m # 1
    <3>1. m - 1 \in 1..n /\ m - 1 \notin B BY <2>1, <2>3
    <3>2. f[m - 1] \in Seq(S) /\ ss[m] \in Seq(S) /\ f[m] = f[m - 1] \o ss[m] BY <1>4, <2>1, <2>3, <3>1
    <3>3. f[m - 1] \o ss[m] \in Seq(S) BY <3>2, ConcatProperties
    <3>4. QED BY <2>1, <3>2, <3>3
  <2>4. QED BY <2>2, <2>3
<1>6. f \in [1..n -> Seq(S)]
  <2>1. f = [i \in 1..n |-> f[i]] BY <1>3 DEF Flattens
  <2>2. QED BY <1>5, <2>1
<1>7. QED BY <1>2, <1>3, <1>6

LEMMA FlattenType == ASSUME NEW S, NEW n \in Nat, NEW ss \in [1..n -> Seq(S)] PROVE FlattenSeq(ss) \in Seq(S)
<1>1. CASE n = 0
  <2>1. Len(ss) = 0 /\ FlattenSeq(ss) = ss BY <1>1 DEF FlattenSeq
  <2>2. ss \in Seq(S) BY <1>1
  <2>3. QED BY <2>1, <2>2
<1>2. CASE n # 0
  <2>1. n \in Nat \ {0} BY <1>2
  <2>2. PICK f \in [1..n -> Seq(S)] : FlattenSeq(ss) = f[n] BY <2>1, FlattenedBy
  <2>3. QED BY <2>1, <2>2
<1>3. QED BY <1>1, <1>2

Piece == (Callers \cup {"old"}) \X Nat
Data  == Seq(Piece)
Maps(S) == UNION {[D -> Data] : D \in SUBSET S}

Places == {"idle", "access", "load", "open", "token", "send", "head", "stub", "pretend", "check", "end", "save",
           "read", "user", "fill", "slot", "tail", "waitall", "commit", "undo", "join"}
Results == {"none", "done", "failed", "signed", "made up", "copied", "empty", "stored", "got", "missing",
            "deleted", "yes", "no", "composed", "listed", "saved", "read", "opened", "written",
            "write failed", "closed", "aborted"}
CallRecords ==
  [op : CallNames \cup {"none"}, key : Nat, to : Nat, pc : Places, n : Nat, todo : Nat, res : Results,
   next : {"user", "join"}, got : Data, seen : SUBSET Nat]

StreamPlaces == {"user", "fill", "slot", "tail", "waitall", "commit", "undo", "join"}
Uploads == {"upload", "upload_file", "stream"}

CallHolds(x) ==
  /\ x.op \in CallNames \ {"connect", "disconnect", "presign"} => x.key \in Keys /\ x.to \in Keys
  /\ x.pc \in StreamPlaces \cup {"open", "load"} => x.op \in Uploads
  /\ x.pc \in {"head", "read"} => x.op = "read"
CallType == call \in [Callers -> CallRecords] /\ \A c \in Callers : CallHolds(call[c])

LEMMA Constants ==
  /\ Keys \subseteq Nat \ {0} /\ IsFiniteSet(Keys) /\ Cardinality(Keys) \in Nat /\ PartSize \in Nat \ {0} /\ PageSize \in Nat \ {0}
  /\ Threshold \in Nat /\ Scenarios \subseteq ScenarioType /\ BufferSizes \subseteq Nat \ {0} /\ MaxUnits \in Nat
  /\ Keys = 1..Cardinality(Keys)
BY FS_CardinalityType, StreamAssumption, StorageAssumption

LEMMA EmptyData == <<>> \in Data
BY DEF Data

\* The results and places a call is given are of the type.
LEMMA EndsType ==
  ASSUME CallType, NEW c \in Callers, NEW r \in Results, EndsWith(c, r) PROVE CallType'
<1>1. call[c] \in CallRecords /\ CallHolds(call[c]) BY DEF CallType
<1> DEFINE y == [call[c] EXCEPT !.pc = "end", !.res = r]
<1>0. "end" \in Places /\ "end" \notin StreamPlaces \cup {"open", "load"} \cup {"head", "read"}
  BY DEF Places, StreamPlaces
<1>2. y \in CallRecords /\ CallHolds(y) BY <1>0, <1>1 DEF CallRecords, CallHolds
<1>3. call' = [call EXCEPT ![c] = y] BY DEF EndsWith, CallType
<1> HIDE DEF y
<1>4. QED BY <1>2, <1>3 DEF CallType

LEMMA GoType ==
  ASSUME CallType, NEW c \in Callers, NEW p \in Places, Go(c, p),
         p \in StreamPlaces \cup {"open", "load"} => call[c].op \in Uploads, p \in {"head", "read"} => call[c].op = "read"
  PROVE  CallType'
<1>1. call[c] \in CallRecords /\ CallHolds(call[c]) BY DEF CallType
<1> DEFINE y == [call[c] EXCEPT !.pc = p]
<1>2. y \in CallRecords /\ CallHolds(y) BY <1>1 DEF CallRecords, CallHolds
<1>3. call' = [call EXCEPT ![c] = y] BY DEF Go, CallType
<1> HIDE DEF y
<1>4. QED BY <1>2, <1>3 DEF CallType

LEMMA NoCallType == NoCall \in CallRecords /\ CallHolds(NoCall)
BY EmptyData, Constants DEF NoCall, CallRecords, CallHolds, Places, Results, StreamPlaces, CallNames

-----------------------------------------------------------------------------
(* Maps from keys or numbers to data. *)
LEMMA MapParts ==
  ASSUME NEW S, NEW m \in Maps(S) PROVE DOMAIN m \subseteq S /\ m \in [DOMAIN m -> Data] /\ \A k \in DOMAIN m : m[k] \in Data
BY DEF Maps

LEMMA StoreMap ==
  ASSUME NEW S, NEW m \in Maps(S), NEW k \in S, NEW d \in Data
  PROVE  [j \in DOMAIN m \cup {k} |-> IF j = k THEN d ELSE m[j]] \in Maps(S)
<1>1. DOMAIN m \cup {k} \subseteq S /\ \A j \in DOMAIN m : m[j] \in Data BY MapParts
<1> DEFINE x == [j \in DOMAIN m \cup {k} |-> IF j = k THEN d ELSE m[j]]
<1>2. x \in [DOMAIN m \cup {k} -> Data] BY <1>1
<1> HIDE DEF x
<1>3. x \in Maps(S) BY <1>1, <1>2 DEF Maps
<1>4. QED BY <1>3 DEF x

LEMMA RestrictMap ==
  ASSUME NEW S, NEW m \in Maps(S), NEW D \in SUBSET (DOMAIN m) PROVE [j \in D |-> m[j]] \in Maps(S)
<1>1. D \subseteq S /\ \A j \in D : m[j] \in Data BY MapParts
<1> DEFINE x == [j \in D |-> m[j]]
<1>2. x \in [D -> Data] BY <1>1
<1> HIDE DEF x
<1>3. x \in Maps(S) BY <1>1, <1>2 DEF Maps
<1>4. QED BY <1>3 DEF x

LEMMA EmptyMap == ASSUME NEW S PROVE <<>> \in Maps(S)
<1>1. <<>> \in [{} -> Data] OBVIOUS
<1>2. {} \in SUBSET S OBVIOUS
<1>3. QED BY <1>1, <1>2 DEF Maps

LEMMA JoinedType ==
  ASSUME NEW S, NEW m \in Maps(S), NEW n \in Nat, NEW nums \in [1..n -> DOMAIN m] PROVE Joined(m, nums) \in Data
<1>1. \A i \in 1..n : m[nums[i]] \in Data BY MapParts
<1> DEFINE ss == [i \in 1..n |-> m[nums[i]]]
<1>2. ss \in [1..n -> Seq(Piece)] BY <1>1 DEF Data
<1>3. Joined(m, nums) = FlattenSeq(ss) BY DEF Joined
<1> HIDE DEF ss
<1>4. QED BY <1>2, <1>3, FlattenType DEF Data

LEMMA UnitsType == ASSUME NEW c \in Callers \cup {"old"}, NEW n \in Nat PROVE Units(c, n) \in Data
<1>1. \A i \in 1..n : <<c, i>> \in Piece BY DEF Piece
<1>2. QED BY <1>1 DEF Units, Data

-----------------------------------------------------------------------------
(* Streams. *)
Etag    == {"own", "real"}
Pending == [data : Data, st : {"run", "ok", "fail", "taken"}, etag : Etag]
Lists   == UNION {[D -> Pending] : D \in SUBSET Nat}
Streams ==
  [buf : Data, written : Nat, cur : Nat \ {0}, pend : Lists, done : SUBSET [num : Nat, etag : Etag], ids : Seq(Nat),
   fin : BOOLEAN, abt : BOOLEAN, id : {"none", "own", "real"}, took : Data, bad : BOOLEAN, shared : BOOLEAN]

StreamHolds(s) ==
  /\ Len(s.buf) <= PartSize
  /\ \A n \in DOMAIN s.pend : n \in 1..(s.cur - 1)
  /\ \A p \in s.done : p.num \in 1..s.cur
IsStream(s) == s \in Streams /\ StreamHolds(s)

LEMMA ListParts ==
  ASSUME NEW l \in Lists PROVE DOMAIN l \in SUBSET Nat /\ l \in [DOMAIN l -> Pending] /\ \A n \in DOMAIN l : l[n] \in Pending
BY DEF Lists

LEMMA ListIs ==
  ASSUME NEW D \in SUBSET Nat, NEW l, l = [n \in D |-> l[n]], \A n \in D : l[n] \in Pending PROVE l \in Lists
<1>1. l \in [D -> Pending] OBVIOUS
<1>2. QED BY <1>1 DEF Lists

LEMMA EmptyList == <<>> \in Lists
<1>1. <<>> \in [{} -> Pending] OBVIOUS
<1>2. {} \in SUBSET Nat OBVIOUS
<1>3. QED BY <1>1, <1>2 DEF Lists

LEMMA NewStreamType == IsStream(NewStream)
<1>1. NewStream \in Streams
  <2>1. <<>> \in Data /\ <<>> \in Lists /\ <<>> \in Seq(Nat) BY EmptyData, EmptyList
  <2>2. QED BY <2>1 DEF NewStream, Streams
<1>2. StreamHolds(NewStream)
  <2>1. Len(<<>>) = 0 /\ DOMAIN <<>> = {} OBVIOUS
  <2>2. QED BY <2>1, Constants DEF NewStream, StreamHolds
<1>3. QED BY <1>1, <1>2 DEF IsStream

LEMMA FirstFailedIs ==
  ASSUME NEW s \in Streams
  PROVE  /\ FirstFailed(s) \in Nat /\ FirstFailed(s) \in In(s, "fail") \cup {s.cur}
         /\ \A n \in In(s, "fail") \cup {s.cur} : FirstFailed(s) <= n
<1> DEFINE F == In(s, "fail") \cup {s.cur}
<1>1. F \in SUBSET Nat /\ F # {}
  <2>1. s.pend \in Lists /\ s.cur \in Nat BY DEF Streams
  <2>2. DOMAIN s.pend \in SUBSET Nat BY <2>1, ListParts
  <2>3. QED BY <2>1, <2>2 DEF In
<1> HIDE DEF F
<1>2. PICK m \in F : \A x \in Nat : x < m => x \notin F BY <1>1, LeastNat
<1>3. \A x \in F : m <= x BY <1>1, <1>2
<1>4. Min(F) \in F /\ \A x \in F : Min(F) <= x BY <1>3 DEF Min
<1>5. QED BY <1>1, <1>4 DEF FirstFailed, F

LEMMA EtagsType ==
  ASSUME NEW s \in Streams, StreamHolds(s)
  PROVE  Etags(s) \in SUBSET [num : Nat, etag : Etag] /\ \A p \in Etags(s) : p.num \in 1..s.cur
<1>1. s.pend \in Lists /\ s.cur \in Nat BY DEF Streams
<1>2. \A n \in DOMAIN s.pend : s.pend[n].etag \in Etag /\ n \in Nat BY <1>1, ListParts DEF Pending
<1>3. \A n \in DOMAIN s.pend : n \in 1..s.cur BY <1>1, <1>2 DEF StreamHolds
<1>4. QED BY <1>2, <1>3 DEF Etags, In

LEMMA CollectedType == ASSUME NEW s, IsStream(s) PROVE IsStream(Collected(s))
<1>0. s \in Streams /\ StreamHolds(s) BY DEF IsStream
<1> DEFINE f == FirstFailed(s)
<1> DEFINE D == In(s, "run") \cup {m \in DOMAIN s.pend : m >= f}
<1> DEFINE l == [n \in D |-> IF n = f THEN [s.pend[n] EXCEPT !.st = "taken"] ELSE s.pend[n]]
<1> DEFINE d == s.done \cup Etags(s)
<1>1. s.pend \in Lists /\ s.done \in SUBSET [num : Nat, etag : Etag] BY <1>0 DEF Streams
<1>2. D \in SUBSET (DOMAIN s.pend) /\ D \in SUBSET Nat BY <1>1, ListParts DEF In
<1>3. \A n \in D : s.pend[n] \in Pending BY <1>1, <1>2, ListParts
<1>4. \A n \in D : [s.pend[n] EXCEPT !.st = "taken"] \in Pending BY <1>3 DEF Pending
<1>5. l \in Lists
  <2>1. \A n \in D : l[n] \in Pending BY <1>3, <1>4
  <2>2. l = [n \in D |-> l[n]] OBVIOUS
  <2> HIDE DEF l, D
  <2>3. QED BY <1>2, <2>1, <2>2, ListIs
<1>6. d \in SUBSET [num : Nat, etag : Etag] /\ \A p \in d : p.num \in 1..s.cur BY <1>0, <1>1, EtagsType DEF StreamHolds
<1>7. Collected(s) = [s EXCEPT !.pend = l, !.done = d] BY DEF Collected
<1>8. DOMAIN l \subseteq DOMAIN s.pend BY <1>2
<1> HIDE DEF l, d
<1> DEFINE y == [s EXCEPT !.pend = l, !.done = d]
<1>9. y \in Streams BY <1>0, <1>5, <1>6 DEF Streams
<1>10. y.buf = s.buf /\ y.pend = l /\ y.cur = s.cur /\ y.done = d BY <1>0 DEF Streams
<1> HIDE DEF y
<1>11. StreamHolds(y) BY <1>0, <1>6, <1>8, <1>10 DEF StreamHolds
<1>12. QED BY <1>7, <1>9, <1>11 DEF IsStream, y

LEMMA WaitedType == ASSUME NEW s, IsStream(s) PROVE IsStream(Waited(s))
<1>0. s \in Streams /\ StreamHolds(s) BY DEF IsStream
<1> DEFINE f == FirstFailed(s)
<1> DEFINE D == IF AnyFailed(s) THEN DOMAIN s.pend ELSE {}
<1> DEFINE l == [n \in D |-> IF n <= f THEN [s.pend[n] EXCEPT !.st = "taken"] ELSE s.pend[n]]
<1> DEFINE d == s.done \cup Etags(s)
<1>1. s.pend \in Lists /\ s.done \in SUBSET [num : Nat, etag : Etag] BY <1>0 DEF Streams
<1>2. D \in SUBSET (DOMAIN s.pend) /\ D \in SUBSET Nat BY <1>1, ListParts DEF In
<1>3. \A n \in D : s.pend[n] \in Pending BY <1>1, <1>2, ListParts
<1>4. \A n \in D : [s.pend[n] EXCEPT !.st = "taken"] \in Pending BY <1>3 DEF Pending
<1>5. l \in Lists
  <2>1. \A n \in D : l[n] \in Pending BY <1>3, <1>4
  <2>2. l = [n \in D |-> l[n]] OBVIOUS
  <2> HIDE DEF l, D
  <2>3. QED BY <1>2, <2>1, <2>2, ListIs
<1>6. d \in SUBSET [num : Nat, etag : Etag] /\ \A p \in d : p.num \in 1..s.cur BY <1>0, <1>1, EtagsType DEF StreamHolds
<1>7. Waited(s) = [s EXCEPT !.pend = l, !.done = d] BY DEF Waited
<1>8. DOMAIN l \subseteq DOMAIN s.pend BY <1>2
<1> HIDE DEF l, d
<1> DEFINE y == [s EXCEPT !.pend = l, !.done = d]
<1>9. y \in Streams BY <1>0, <1>5, <1>6 DEF Streams
<1>10. y.buf = s.buf /\ y.pend = l /\ y.cur = s.cur /\ y.done = d BY <1>0 DEF Streams
<1> HIDE DEF y
<1>11. StreamHolds(y) BY <1>0, <1>6, <1>8, <1>10 DEF StreamHolds
<1>12. QED BY <1>7, <1>9, <1>11 DEF IsStream, y

LEMMA FailedType == ASSUME NEW s, IsStream(s) PROVE IsStream(Failed(s))
<1>1. Failed(s) \in Streams BY DEF IsStream, Failed, Streams
<1>2. Failed(s).buf = s.buf /\ Failed(s).pend = s.pend /\ Failed(s).cur = s.cur /\ Failed(s).done = s.done
  BY DEF IsStream, Failed, Streams
<1>3. QED BY <1>1, <1>2 DEF IsStream, StreamHolds

LEMMA SubmittedType == ASSUME NEW s, IsStream(s) PROVE IsStream(Submitted(s))
<1>0. s \in Streams /\ StreamHolds(s) BY DEF IsStream
<1> DEFINE p == [data |-> s.buf, st |-> "run", etag |-> "own"]
<1> DEFINE D == DOMAIN s.pend \cup {s.cur}
<1> DEFINE l == [n \in D |-> IF n = s.cur THEN p ELSE s.pend[n]]
<1> DEFINE k == s.cur + 1
<1> DEFINE e == <<>>
<1>1. s.pend \in Lists /\ s.buf \in Data /\ s.cur \in Nat \ {0} BY <1>0 DEF Streams
<1>2. p \in Pending BY <1>1 DEF Pending, Etag
<1>3. D \in SUBSET Nat /\ \A n \in DOMAIN s.pend : s.pend[n] \in Pending BY <1>1, ListParts
<1>4. \A n \in D : n \in 1..s.cur BY <1>0, <1>1 DEF StreamHolds
<1> HIDE DEF p
<1>5. l \in Lists
  <2>1. \A n \in D : l[n] \in Pending BY <1>2, <1>3
  <2>2. l = [n \in D |-> l[n]] OBVIOUS
  <2> HIDE DEF l, D
  <2>3. QED BY <1>3, <2>1, <2>2, ListIs
<1>6. Submitted(s) = [s EXCEPT !.pend = l, !.cur = k, !.buf = e] BY <1>0 DEF Submitted, StoreIn, p, Streams
<1>7. DOMAIN l = D /\ k \in Nat \ {0} /\ k - 1 = s.cur BY <1>1
<1>8. e \in Data /\ Len(e) = 0 BY EmptyData
<1> HIDE DEF l, k, e, D
<1> DEFINE y == [s EXCEPT !.pend = l, !.cur = k, !.buf = e]
<1>9. y \in Streams BY <1>0, <1>5, <1>7, <1>8 DEF Streams
<1>10. y.buf = e /\ y.pend = l /\ y.cur = k /\ y.done = s.done BY <1>0 DEF Streams
<1> HIDE DEF y
<1>11. \A q \in s.done : q.num \in 1..k
  <2>1. \A q \in s.done : q.num \in 1..s.cur BY <1>0 DEF StreamHolds
  <2>2. QED BY <1>1, <1>7, <2>1
<1>12. StreamHolds(y) BY <1>4, <1>7, <1>8, <1>10, <1>11, Constants DEF StreamHolds
<1>13. QED BY <1>6, <1>9, <1>12 DEF IsStream, y

-----------------------------------------------------------------------------
(* The types, step by step. *)
UploadRecords == [open : BOOLEAN, parts : Maps(Nat)]
Types ==
  /\ conf \in ScenarioType /\ bucket \in Maps(Keys) /\ blocks \in [Keys -> Maps(Nat)]
  /\ uploads \in [Callers -> UploadRecords]
  /\ DOMAIN strm = Callers /\ strm = [c \in Callers |-> strm[c]] /\ \A c \in Callers : IsStream(strm[c])
  /\ CallType

LEMMA ConfParts ==
  ASSUME conf \in ScenarioType
  PROVE  /\ conf.keys \subseteq Keys /\ conf.sizes \subseteq Nat /\ conf.full \subseteq Keys /\ conf.calls \subseteq CallNames
         /\ conf.provider \in Providers
BY DEF ScenarioType

LEMMA CallParts ==
  ASSUME CallType, NEW c \in Callers
  PROVE  /\ call[c] \in CallRecords /\ CallHolds(call[c])
         /\ call[c].key \in Nat /\ call[c].to \in Nat /\ call[c].n \in Nat /\ call[c].todo \in Nat /\ call[c].got \in Data
         /\ call[c].seen \in SUBSET Nat /\ call[c].op \in CallNames \cup {"none"} /\ call[c].pc \in Places
         /\ call[c].next \in {"user", "join"} /\ call[c].res \in Results
<1>1. call[c] \in CallRecords /\ CallHolds(call[c]) BY DEF CallType
<1>2. QED BY <1>1 DEF CallRecords

LEMMA CallUpdate ==
  ASSUME CallType, NEW c \in Callers, NEW y \in CallRecords, CallHolds(y), call' = [call EXCEPT ![c] = y] PROVE CallType'
BY DEF CallType

LEMMA OnlyCallTypes ==
  ASSUME Types, CallType', UNCHANGED <<conf, bucket, blocks, uploads, strm>> PROVE Types'
BY DEF Types

LEMMA StreamUpdate ==
  ASSUME Types, NEW c \in Callers, NEW t, IsStream(t), strm' = [strm EXCEPT ![c] = t]
  PROVE  DOMAIN strm' = Callers /\ strm' = [d \in Callers |-> strm'[d]] /\ \A d \in Callers : IsStream(strm'[d])
BY DEF Types

LEMMA ReturnsType ==
  ASSUME CallType, NEW c \in Callers, NEW r \in Results, Returns(c, r), call[c].op \in Uploads PROVE CallType'
<1>1. call[c] \in CallRecords /\ CallHolds(call[c]) BY CallParts
<1> DEFINE y == [call[c] EXCEPT !.pc = "user", !.res = r]
<1>0. "user" \in Places /\ "user" \notin {"head", "read"} BY DEF Places
<1>2. y \in CallRecords /\ CallHolds(y) BY <1>0, <1>1 DEF CallRecords, CallHolds
<1>3. call' = [call EXCEPT ![c] = y] BY DEF Returns, CallType
<1> HIDE DEF y
<1>4. QED BY <1>2, <1>3, CallUpdate

LEMMA FailsType == ASSUME CallType, NEW c \in Callers, Fails(c) PROVE CallType'
BY EndsType DEF Fails, Results

\* Where a call goes on to.
LEMMA SomePlaces ==
  /\ {"send", "token", "pretend", "stub", "check", "end", "save", "access"} \subseteq Places
  /\ {"send", "token", "pretend", "stub", "check", "end", "save", "access"} \cap (StreamPlaces \cup {"open", "load", "head", "read"}) = {}
  /\ {"open", "load", "head", "read"} \cup StreamPlaces \subseteq Places
  /\ StreamPlaces \cap {"open", "load", "head", "read"} = {}
BY DEF Places, StreamPlaces

LEMMA UploadGoesTo ==
  ASSUME conf \in ScenarioType, NEW n \in Nat PROVE UploadGoes(n) \in {"open", "send", "token", "pretend"}
<1>1. Is("s3") \/ Is("gcs") \/ Is("azure") BY ConfParts DEF Is, Providers
<1>2. QED BY <1>1 DEF UploadGoes, By

LEMMA NextKeyType == ASSUME CallType, NEW c \in Callers, NEW gone \in SUBSET Nat, NextKey(c, gone) PROVE CallType'
<1>1. call[c] \in CallRecords /\ CallHolds(call[c]) /\ call[c].todo \in Nat /\ call[c].seen \in SUBSET Nat BY CallParts
<1> DEFINE t == call[c].todo + 1
<1> DEFINE s == call[c].seen \cup gone
<1>2. t \in Nat /\ s \in SUBSET Nat
  <2>1. t \in Nat BY <1>1
  <2>2. s \in SUBSET Nat BY <1>1
  <2>3. QED BY <2>1, <2>2
<1> HIDE DEF t, s
<1> DEFINE c1 == [call[c] EXCEPT !.todo = t, !.seen = s]
<1>3. c1 \in CallRecords /\ CallHolds(c1) BY <1>1, <1>2 DEF CallRecords, CallHolds
<1> HIDE DEF c1
<1> DEFINE y == IF t >= Cardinality(Keys) THEN [c1 EXCEPT !.pc = "end", !.res = "done"] ELSE [c1 EXCEPT !.pc = "check"]
<1>4. "done" \in Results BY DEF Results
<1>5. [c1 EXCEPT !.pc = "end", !.res = "done"] \in CallRecords /\ CallHolds([c1 EXCEPT !.pc = "end", !.res = "done"])
  BY <1>3, <1>4, SomePlaces DEF CallRecords, CallHolds
<1>6. [c1 EXCEPT !.pc = "check"] \in CallRecords /\ CallHolds([c1 EXCEPT !.pc = "check"])
  BY <1>3, SomePlaces DEF CallRecords, CallHolds
<1>7. y \in CallRecords /\ CallHolds(y) BY <1>5, <1>6
<1>8. c1.todo = t BY <1>1 DEF c1, CallRecords
<1>9. call' = [call EXCEPT ![c] = y] BY <1>8 DEF NextKey, t, s, c1
<1> HIDE DEF y
<1>10. QED BY <1>7, <1>9, CallUpdate

LEMMA GoesTo ==
  ASSUME conf \in ScenarioType, NEW op \in CallNames \ {"connect", "disconnect", "presign"}, NEW n \in Nat
  PROVE  /\ Goes(op, n) \in {"open", "send", "token", "pretend", "load", "head", "stub", "check"}
         /\ Goes(op, n) \in {"open", "load"} => op \in Uploads
         /\ Goes(op, n) = "head" => op = "read"
<1>1. UploadGoes(n) \in {"open", "send", "token", "pretend"} BY UploadGoesTo
<1>2. QED BY <1>1 DEF Goes, Uploads, CallNames

LEMMA BeginType == ASSUME Types, NEW c \in Callers, Begin(c) PROVE Types'
<1>1. conf \in ScenarioType /\ CallType BY DEF Types
<1>2. PICK op \in conf.calls : Begins(c, op) BY DEF Begin
<1>3. op \in CallNames BY <1>1, <1>2, ConfParts
<1>4. ASSUME op = "connect", Connecting(c) PROVE CallType'
  <2> DEFINE y == [NoCall EXCEPT !.op = "connect", !.pc = "access"]
  <2>1. y \in CallRecords /\ CallHolds(y)
    BY NoCallType, SomePlaces DEF CallRecords, CallHolds, NoCall, CallNames
  <2>2. call' = [call EXCEPT ![c] = y] BY <1>4 DEF Connecting
  <2> HIDE DEF y
  <2>3. QED BY <1>1, <2>1, <2>2, CallUpdate
<1>5. ASSUME op = "presign", call' = [call EXCEPT ![c] = [NoCall EXCEPT !.op = op, !.pc = "end",
                                                            !.res = IF Presigns THEN "signed" ELSE "failed"]]
      PROVE  CallType'
  <2> DEFINE r == IF Presigns THEN "signed" ELSE "failed"
  <2>0. r \in Results BY DEF Results
  <2> HIDE DEF r
  <2> DEFINE y == [NoCall EXCEPT !.op = op, !.pc = "end", !.res = r]
  <2>1. y \in CallRecords /\ CallHolds(y)
    BY <1>3, <1>5, <2>0, NoCallType, SomePlaces DEF CallRecords, CallHolds, NoCall
  <2>2. call' = [call EXCEPT ![c] = y] BY <1>5 DEF r
  <2> HIDE DEF y
  <2>3. QED BY <1>1, <2>1, <2>2, CallUpdate
<1>6. ASSUME op \notin {"connect", "disconnect", "presign"},
             NEW k \in conf.keys, NEW j \in IF op \in {"copy", "compose"} THEN conf.keys ELSE {1},
             NEW n \in IF op \in {"upload", "upload_file"} THEN conf.sizes ELSE {0},
             call' = [call EXCEPT ![c] = [NoCall EXCEPT !.op = op, !.key = k, !.to = j, !.n = n, !.pc = Goes(op, n)]]
      PROVE  CallType'
  <2>1. k \in Keys /\ k \in Nat /\ j \in Nat /\ n \in Nat BY <1>1, ConfParts, Constants
  <2>2. j \in Keys BY <1>1, <2>1, ConfParts, Constants
  <2> DEFINE p == Goes(op, n)
  <2>3. /\ p \in Places /\ op \in CallNames
        /\ p \in StreamPlaces \cup {"open", "load"} => op \in Uploads
        /\ p \in {"head", "read"} => op = "read"
    BY <1>1, <1>3, <1>6, <2>1, GoesTo, SomePlaces
  <2> HIDE DEF p
  <2> DEFINE y == [NoCall EXCEPT !.op = op, !.key = k, !.to = j, !.n = n, !.pc = p]
  <2>4. y \in CallRecords /\ CallHolds(y)
    BY <2>1, <2>2, <2>3, NoCallType DEF CallRecords, CallHolds, NoCall
  <2>5. call' = [call EXCEPT ![c] = y] BY <1>6 DEF p
  <2> HIDE DEF y
  <2>6. QED BY <1>1, <2>4, <2>5, CallUpdate
<1>7. call' = call => CallType' BY <1>1 DEF CallType
<1>8. CallType' BY <1>2, <1>4, <1>5, <1>6, <1>7 DEF Begins, Disconnect
<1>9. QED BY <1>8, OnlyCallTypes DEF Begin

LEMMA LoadFileType == ASSUME Types, NEW c \in Callers, LoadFile(c) PROVE Types'
<1>1. conf \in ScenarioType /\ CallType BY DEF Types
<1>2. CASE Fails(c) BY <1>1, <1>2, FailsType, OnlyCallTypes DEF LoadFile, OnlyCall
<1>3. CASE Go(c, UploadGoes(call[c].n))
  <2>1. call[c].n \in Nat /\ call[c].op \in Uploads
    BY <1>1, CallParts, SomePlaces DEF LoadFile, At, CallHolds
  <2>2. UploadGoes(call[c].n) \in {"open", "send", "token", "pretend"} BY <1>1, <2>1, UploadGoesTo
  <2>3. UploadGoes(call[c].n) \in Places /\ UploadGoes(call[c].n) \notin {"head", "read"} BY <2>2, SomePlaces
  <2>4. CallType' BY <1>1, <1>3, <2>1, <2>3, GoType
  <2>5. QED BY <2>4, OnlyCallTypes DEF LoadFile, OnlyCall
<1>4. QED BY <1>2, <1>3 DEF LoadFile

\* Steps that end a call or send it to a place that asks nothing of its operation.
LEMMA PlainGo ==
  ASSUME CallType, NEW c \in Callers, NEW p \in {"send", "token", "pretend", "stub", "check", "end", "save", "access"}, Go(c, p)
  PROVE  CallType'
<1>1. p \in Places /\ p \notin StreamPlaces \cup {"open", "load"} /\ p \notin {"head", "read"} BY SomePlaces
<1>2. QED BY <1>1, GoType

LEMMA TokenForType == ASSUME Types, NEW c \in Callers, TokenFor(c) PROVE Types'
<1>1. CallType BY DEF Types
<1>2. TokenFails(c) => CallType'
  <2>1. NextKey(c, {}) => CallType' BY <1>1, NextKeyType
  <2>2. Fails(c) => CallType' BY <1>1, FailsType
  <2>3. QED BY <2>1, <2>2 DEF TokenFails
<1>3. Go(c, "send") => CallType' BY <1>1, PlainGo
<1>4. CallType' BY <1>2, <1>3 DEF TokenFor
<1>5. QED BY <1>4, OnlyCallTypes DEF TokenFor

LEMMA SmallStepsType ==
  ASSUME Types, NEW c \in Callers, AzurePretends(c) \/ StubStream(c) \/ Connect(c) \/ CheckAgain(c) \/ SaveFile(c) \/ End(c)
  PROVE  Types'
<1>1. CallType BY DEF Types
<1>2. ASSUME NEW r \in {"copied", "made up", "empty", "done", "saved"}, EndsWith(c, r) PROVE CallType'
  <2>1. r \in Results BY DEF Results
  <2>2. QED BY <1>1, <1>2, <2>1, EndsType
<1>3. CASE AzurePretends(c)
  <2>1. EndsWith(c, "copied") \/ EndsWith(c, "made up") BY <1>3 DEF AzurePretends
  <2>2. CallType' BY <1>2, <2>1
  <2>3. QED BY <1>3, <2>2, OnlyCallTypes DEF AzurePretends, OnlyCall
<1>4. CASE StubStream(c) BY <1>2, <1>4, OnlyCallTypes DEF StubStream, OnlyCall
<1>5. CASE Connect(c) BY <1>2, <1>5, OnlyCallTypes DEF Connect
<1>6. CASE CheckAgain(c)
  <2>1. NextKey(c, {}) => CallType' BY <1>1, NextKeyType
  <2>2. Fails(c) => CallType' BY <1>1, FailsType
  <2>3. Go(c, "send") \/ Go(c, "token") => CallType' BY <1>1, PlainGo
  <2>4. CallType' BY <1>6, <2>1, <2>2, <2>3 DEF CheckAgain
  <2>5. QED BY <1>6, <2>4, OnlyCallTypes DEF CheckAgain, OnlyCall
<1>7. CASE SaveFile(c)
  <2>1. CallType' BY <1>1, <1>2, <1>7, FailsType DEF SaveFile
  <2>2. QED BY <1>7, <2>1, OnlyCallTypes DEF SaveFile, OnlyCall
<1>8. CASE End(c)
  <2>1. CallType' BY <1>1, <1>8, NoCallType, CallUpdate DEF End
  <2>2. QED BY <1>8, <2>1, OnlyCallTypes DEF End, OnlyCall
<1>9. QED BY <1>3, <1>4, <1>5, <1>6, <1>7, <1>8

LEMMA BucketParts ==
  ASSUME bucket \in Maps(Keys)
  PROVE  DOMAIN bucket \subseteq Keys /\ DOMAIN bucket \subseteq Nat /\ \A k \in DOMAIN bucket : bucket[k] \in Data
BY MapParts, Constants

LEMMA PutType == ASSUME bucket \in Maps(Keys), NEW k \in Keys, NEW d \in Data PROVE Put(k, d) \in Maps(Keys)
BY StoreMap DEF Put

LEMMA WithoutType == ASSUME bucket \in Maps(Keys), NEW k PROVE Without(k) \in Maps(Keys)
<1>1. DOMAIN bucket \ {k} \in SUBSET (DOMAIN bucket) OBVIOUS
<1>2. QED BY <1>1, RestrictMap DEF Without

LEMMA MaxIs ==
  ASSUME NEW p \in SUBSET Nat, NEW n \in Nat, \A x \in p : x <= n
  PROVE  Max(p \cup {0}) \in p \cup {0} /\ \A x \in p \cup {0} : Max(p \cup {0}) >= x
<1> DEFINE S == p \cup {0}
<1>1. S \in SUBSET Nat /\ S # {} /\ \A x \in S : x <= n OBVIOUS
<1> HIDE DEF S
<1>2. \E m \in S : \A x \in S : m >= x BY <1>1, GreatestNat
<1>3. Max(S) \in S /\ \A x \in S : Max(S) >= x BY <1>2 DEF Max
<1>4. QED BY <1>3 DEF S

LEMMA ListMax ==
  ASSUME bucket \in Maps(Keys), NEW p \in SUBSET (DOMAIN bucket)
  PROVE  Max(p \cup {0}) \in Nat /\ \A x \in p : Max(p \cup {0}) >= x
<1>1. Keys = 1..Cardinality(Keys) /\ Cardinality(Keys) \in Nat BY Constants
<1>2. DOMAIN bucket \subseteq Keys /\ DOMAIN bucket \subseteq Nat BY BucketParts
<1>3. p \in SUBSET Nat /\ \A x \in p : x <= Cardinality(Keys) BY <1>1, <1>2
<1>4. Max(p \cup {0}) \in p \cup {0} /\ \A x \in p \cup {0} : Max(p \cup {0}) >= x BY <1>1, <1>3, MaxIs
<1>5. QED BY <1>3, <1>4

\* What the request of a call does to the bucket and to the call.
SendTypes == bucket' \in Maps(Keys) /\ CallType'

LEMMA ProviderIs == ASSUME conf \in ScenarioType PROVE Is("s3") \/ Is("gcs") \/ Is("azure")
BY ConfParts DEF Is, Providers

LEMMA PutObjectType == ASSUME Types, NEW c \in Callers, NEW f \in Fates, PutObject(c, f) PROVE SendTypes
<1>1. CallType /\ bucket \in Maps(Keys) BY DEF Types
<1>2. call[c].key \in Keys BY <1>1, CallParts DEF CallHolds, PutObject, CallNames
<1>3. Units(c, call[c].n) \in Data BY <1>1, CallParts, UnitsType
<1>4. bucket' \in Maps(Keys) BY <1>1, <1>2, <1>3, PutType DEF PutObject
<1> DEFINE r == IF Is("s3") THEN S3Upload(f) ELSE GcsUpload(f)
<1>5. r \in Results BY DEF S3Upload, GcsUpload, Answered, Results
<1>6. EndsWith(c, r) BY DEF PutObject
<1> HIDE DEF r
<1>7. QED BY <1>1, <1>4, <1>5, <1>6, EndsType DEF SendTypes

LEMMA GetObjectType == ASSUME Types, NEW c \in Callers, NEW f \in Fates, GetObject(c, f) PROVE SendTypes
<1>1. CallType /\ bucket \in Maps(Keys) /\ conf \in ScenarioType BY DEF Types
<1> DEFINE k == call[c].key
<1> DEFINE r == By(S3Download(k, f), GcsDownload(k, f), AzureDownload(k, f))
<1>2. r \in {"got", "missing", "failed"} /\ (r = "got" => k \in DOMAIN bucket)
  BY <1>1, ProviderIs DEF By, S3Download, GcsDownload, AzureDownload, Answered, There
<1>3. r \in Results BY <1>2 DEF Results
<1> DEFINE g == IF r = "got" THEN bucket[k] ELSE <<>>
<1>4. g \in Data BY <1>1, <1>2, BucketParts, EmptyData
<1> DEFINE p == IF r = "got" /\ call[c].op = "download_file" THEN "save" ELSE "end"
<1>5. p \in {"save", "end"} OBVIOUS
<1>6. call' = [call EXCEPT ![c].got = g, ![c].res = r, ![c].pc = p] BY DEF GetObject
<1> HIDE DEF r, g, p
<1> DEFINE y == [call[c] EXCEPT !.got = g, !.res = r, !.pc = p]
<1>7. y \in CallRecords /\ CallHolds(y) BY <1>1, <1>3, <1>4, <1>5, CallParts, SomePlaces DEF CallRecords, CallHolds
<1>8. call' = [call EXCEPT ![c] = y] BY <1>1, <1>6 DEF CallType
<1> HIDE DEF y
<1>9. QED BY <1>1, <1>7, <1>8, CallUpdate DEF SendTypes, GetObject

LEMMA DeleteObjectType == ASSUME Types, NEW c \in Callers, NEW f \in Fates, DeleteObject(c, f) PROVE SendTypes
<1>1. CallType /\ bucket \in Maps(Keys) /\ conf \in ScenarioType BY DEF Types
<1> DEFINE r == Deletes(call[c].key, f)
<1>2. r \in Results BY <1>1, ProviderIs DEF Deletes, By, S3Delete, GcsDelete, AzureDelete, Answered, Results
<1>3. EndsWith(c, r) BY DEF DeleteObject
<1>4. bucket' \in Maps(Keys) BY <1>1, WithoutType DEF DeleteObject
<1> HIDE DEF r
<1>5. QED BY <1>1, <1>2, <1>3, <1>4, EndsType DEF SendTypes

LEMMA DeleteNextType == ASSUME Types, NEW c \in Callers, NEW f \in Fates, DeleteNext(c, f) PROVE SendTypes
<1>1. CallType /\ bucket \in Maps(Keys) BY DEF Types
<1> DEFINE k == call[c].todo + 1
<1>2. k \in Nat BY <1>1, CallParts
<1>3. bucket' \in Maps(Keys) BY <1>1, WithoutType DEF DeleteNext
<1> DEFINE g == IF Deletes(k, f) = "deleted" THEN {k} ELSE {}
<1>4. g \in SUBSET Nat /\ NextKey(c, g) BY <1>2 DEF DeleteNext
<1> HIDE DEF g
<1>5. QED BY <1>1, <1>3, <1>4, NextKeyType DEF SendTypes

LEMMA AsksType == ASSUME Types, NEW c \in Callers, NEW f \in Fates, Exists(c, f) \/ GetMetadata(c, f) PROVE SendTypes
<1>1. CallType /\ bucket \in Maps(Keys) /\ conf \in ScenarioType BY DEF Types
<1> DEFINE k == call[c].key
<1>2. CASE Exists(c, f)
  <2> DEFINE r == By(S3Exists(k, f), GcsExists(k, f), AzureExists(k, f))
  <2>1. r \in Results BY <1>1, ProviderIs DEF By, S3Exists, GcsExists, AzureExists, Answered, Results
  <2>2. EndsWith(c, r) BY <1>2 DEF Exists
  <2> HIDE DEF r
  <2>3. QED BY <1>1, <1>2, <2>1, <2>2, EndsType DEF SendTypes, Exists
<1>3. CASE GetMetadata(c, f)
  <2> DEFINE r == By(S3Metadata(k, f), GcsMetadata(k, f), AzureMetadata(k, f))
  <2>1. r \in Results BY <1>1, ProviderIs DEF By, S3Metadata, GcsMetadata, AzureMetadata, Answered, Results
  <2>2. EndsWith(c, r) BY <1>3 DEF GetMetadata
  <2> HIDE DEF r
  <2>3. QED BY <1>1, <1>3, <2>1, <2>2, EndsType DEF SendTypes, GetMetadata
<1>4. QED BY <1>2, <1>3

LEMMA CopyObjectType == ASSUME Types, NEW c \in Callers, NEW f \in Fates, CopyObject(c, f) PROVE SendTypes
<1>1. CallType /\ bucket \in Maps(Keys) BY DEF Types
<1>2. call[c].to \in Keys BY <1>1, CallParts DEF CallHolds, CopyObject, CallNames
<1> DEFINE k == call[c].key
<1>3. There(k) => bucket[k] \in Data BY <1>1, BucketParts DEF There
<1>4. bucket' \in Maps(Keys) BY <1>1, <1>2, <1>3, PutType DEF CopyObject
<1> DEFINE r == IF Is("s3") THEN S3Copy(k, f) ELSE GcsCopy(k, f)
<1>5. r \in Results BY DEF S3Copy, GcsCopy, Answered, Results
<1>6. EndsWith(c, r) BY DEF CopyObject
<1> HIDE DEF r
<1>7. QED BY <1>1, <1>4, <1>5, <1>6, EndsType DEF SendTypes

LEMMA ComposeType == ASSUME Types, NEW c \in Callers, NEW f \in Fates, ComposeObjects(c, f) PROVE SendTypes
<1>1. CallType /\ bucket \in Maps(Keys) BY DEF Types
<1> DEFINE k == call[c].key
<1> DEFINE j == call[c].to
<1>2. j \in Keys BY <1>1, CallParts DEF CallHolds, ComposeObjects, CallNames
<1>3. There(k) /\ There(j) => bucket[j] \o bucket[k] \in Data
  <2>1. There(k) /\ There(j) => bucket[j] \in Seq(Piece) /\ bucket[k] \in Seq(Piece) BY <1>1, BucketParts DEF There, Data
  <2>2. QED BY <2>1, ConcatProperties DEF Data
<1>4. bucket' \in Maps(Keys) BY <1>1, <1>2, <1>3, PutType DEF ComposeObjects
<1> DEFINE r == Answered(f, There(k) /\ There(j), "composed", "failed")
<1>5. r \in Results BY DEF Answered, Results
<1>6. EndsWith(c, r) BY Zenon DEF ComposeObjects
<1> HIDE DEF r
<1>7. QED BY <1>1, <1>4, <1>5, <1>6, EndsType DEF SendTypes

LEMMA ListObjectsType == ASSUME Types, NEW c \in Callers, NEW f \in Fates, ListObjects(c, f) PROVE SendTypes
<1>1. CallType /\ bucket \in Maps(Keys) BY DEF Types
<1>2. CASE Fails(c) BY <1>1, <1>2, FailsType DEF SendTypes, ListObjects
<1>3. ASSUME NEW p \in Pages(c),
             call' = [call EXCEPT ![c] =
                        LET c1 == [call[c] EXCEPT !.seen = @ \cup p, !.todo = Max(p \cup {0})]
                        IN IF Truncated(c, p) THEN [c1 EXCEPT !.pc = "check"] ELSE [c1 EXCEPT !.pc = "end", !.res = "listed"]]
      PROVE  CallType'
  <2>1. p \in SUBSET (DOMAIN bucket) /\ p \in SUBSET Nat BY <1>1, BucketParts DEF Pages, RestOfList
  <2> DEFINE t == Max(p \cup {0})
  <2> DEFINE s == call[c].seen \cup p
  <2>2. t \in Nat /\ s \in SUBSET Nat BY <1>1, <2>1, ListMax, CallParts
  <2> DEFINE trunc == Truncated(c, p)
  <2> HIDE DEF t, s, trunc
  <2> DEFINE c1 == [call[c] EXCEPT !.seen = s, !.todo = t]
  <2>3. c1 \in CallRecords /\ CallHolds(c1) BY <1>1, <2>2, CallParts DEF CallRecords, CallHolds
  <2>4. call' = [call EXCEPT ![c] = IF trunc THEN [c1 EXCEPT !.pc = "check"] ELSE [c1 EXCEPT !.pc = "end", !.res = "listed"]]
    BY <1>1, <1>3, CallParts DEF t, s, trunc, CallRecords
  <2> HIDE DEF c1
  <2>5. "listed" \in Results BY DEF Results
  <2>6. [c1 EXCEPT !.pc = "check"] \in CallRecords /\ CallHolds([c1 EXCEPT !.pc = "check"])
    BY <2>3, SomePlaces DEF CallRecords, CallHolds
  <2>7. [c1 EXCEPT !.pc = "end", !.res = "listed"] \in CallRecords /\ CallHolds([c1 EXCEPT !.pc = "end", !.res = "listed"])
    BY <2>3, <2>5, SomePlaces DEF CallRecords, CallHolds
  <2>8. QED BY <1>1, <2>4, <2>6, <2>7, CallUpdate
<1>4. QED BY <1>1, <1>2, <1>3, Zenon DEF SendTypes, ListObjects

LEMMA SendType == ASSUME Types, NEW c \in Callers, Send(c) PROVE Types'
<1>1. PICK f \in Fates :
        /\ Requests(Signed, f)
        /\ \/ PutObject(c, f) \/ GetObject(c, f) \/ DeleteObject(c, f) \/ DeleteNext(c, f)
           \/ Exists(c, f) \/ GetMetadata(c, f) \/ CopyObject(c, f) \/ ComposeObjects(c, f)
           \/ ListObjects(c, f)
  BY DEF Send
<1>2. SendTypes
  BY <1>1, PutObjectType, GetObjectType, DeleteObjectType, DeleteNextType, AsksType, CopyObjectType, ComposeType, ListObjectsType
<1>3. QED BY <1>1, <1>2 DEF SendTypes, Types, Requests

LEMMA OpenDownloadType == ASSUME Types, NEW c \in Callers, OpenDownload(c) PROVE Types'
<1>1. CallType /\ bucket \in Maps(Keys) BY DEF Types
<1>2. PICK f \in Fates :
          /\ Requests(AzureDownloadSigned, f) /\ UNCHANGED bucket
          /\ IF f = "served" /\ There(call[c].key)
             THEN call' = [call EXCEPT ![c].pc = "read", ![c].n = Len(bucket[call[c].key])]
             ELSE Fails(c)
  BY DEF OpenDownload
<1>3. CallType'
  <2>1. CASE Fails(c) BY <1>1, <2>1, FailsType
  <2>2. CASE There(call[c].key) /\ call' = [call EXCEPT ![c].pc = "read", ![c].n = Len(bucket[call[c].key])]
    <3> DEFINE n == Len(bucket[call[c].key])
    <3>1. n \in Nat
      <4>1. bucket[call[c].key] \in Seq(Piece) BY <1>1, <2>2, BucketParts DEF There, Data
      <4>2. QED BY <4>1, LenProperties
    <3> HIDE DEF n
    <3> DEFINE y == [call[c] EXCEPT !.pc = "read", !.n = n]
    <3>2. call[c].op = "read" BY <1>1, CallParts DEF CallHolds, OpenDownload, At
    <3>3. y \in CallRecords /\ CallHolds(y) BY <1>1, <3>1, <3>2, CallParts, SomePlaces, Zenon DEF CallRecords, CallHolds
    <3>4. call' = [call EXCEPT ![c] = y] BY <1>1, <2>2 DEF CallType, n
    <3> HIDE DEF y
    <3>5. QED BY <1>1, <3>3, <3>4, CallUpdate
  <2>3. QED BY <1>2, <2>1, <2>2
<1>4. QED BY <1>2, <1>3, OnlyCallTypes DEF Requests

LEMMA MinTwo == ASSUME NEW a \in Int, NEW b \in Int PROVE Min({a, b}) = IF a <= b THEN a ELSE b
<1>1. \E x \in {a, b} : \A y \in {a, b} : x =< y OBVIOUS
<1>2. Min({a, b}) \in {a, b} /\ \A y \in {a, b} : Min({a, b}) =< y BY <1>1 DEF Min
<1>3. QED BY <1>2

\* What a served range adds: from what was read to its end.
LEMMA FetchGives ==
  ASSUME NEW o \in Data, NEW start \in Nat, NEW size \in Nat \ {0}, NEW n \in Nat, start < n, start < Len(o)
  PROVE  LET e    == Min({RangeEnd(start, size, n), Len(o) - 1})
             data == SubSeq(o, start + 1, e + 1)
         IN /\ e \in Nat /\ start <= e /\ e < n /\ e < Len(o)
            /\ data \in Data /\ Len(data) = e - start + 1 /\ SubSeq(data, 1, Min({Len(data), size})) = data
<1> DEFINE l == Len(o)
<1>1. o \in Seq(Piece) /\ l \in Nat BY LenProperties DEF Data
<1> HIDE DEF l
<1>2. start + size - 1 \in Int /\ n - 1 \in Int /\ l - 1 \in Int BY <1>1
<1>3. RangeEnd(start, size, n) = IF start + size - 1 <= n - 1 THEN start + size - 1 ELSE n - 1
  BY <1>2, MinTwo DEF RangeEnd
<1> DEFINE r == RangeEnd(start, size, n)
<1>4. r \in Int /\ r <= n - 1 /\ r >= start /\ r <= start + size - 1 BY <1>2, <1>3
<1> HIDE DEF r
<1> DEFINE e == Min({r, l - 1})
<1>5. e \in Nat /\ start <= e /\ e < n /\ e < l /\ e <= start + size - 1
  <2>1. e = IF r <= l - 1 THEN r ELSE l - 1 BY <1>2, <1>4, MinTwo
  <2>2. QED BY <1>1, <1>4, <2>1 DEF l
<1> HIDE DEF e
<1> DEFINE data == SubSeq(o, start + 1, e + 1)
<1>6. start + 1 \in 1..(l + 1) /\ e + 1 \in (start + 1) - 1 .. l BY <1>1, <1>5
<1>7. data \in Seq(Piece) /\ Len(data) = (e + 1) - (start + 1) + 1 BY <1>1, <1>6, SubSeqProperties DEF l
<1> HIDE DEF data
<1>8. Len(data) = e - start + 1 /\ Len(data) <= size /\ Len(data) \in Nat BY <1>5, <1>7
<1>9. Min({Len(data), size}) = Len(data) BY <1>8, MinTwo
<1>10. SubSeq(data, 1, Len(data)) = data
  <2>1. 1 \in 1..(Len(data) + 1) /\ Len(data) \in 1 - 1 .. Len(data) BY <1>8
  <2> DEFINE z == SubSeq(data, 1, Len(data))
  <2>2. z \in Seq(Piece) /\ Len(z) = Len(data) /\ \A i \in 1..Len(data) : z[i] = data[i]
    BY <1>7, <1>8, <2>1, SubSeqProperties
  <2> HIDE DEF z
  <2>3. z = data BY <1>7, <2>2, SeqEqual, Zenon
  <2>4. QED BY <2>3 DEF z
<1>11. QED BY <1>5, <1>7, <1>8, <1>9, <1>10 DEF e, r, l, data, Data

LEMMA ReadRangeType == ASSUME Types, NEW c \in Callers, ReadRange(c) PROVE Types'
<1>1. CallType /\ bucket \in Maps(Keys) BY DEF Types
<1> DEFINE k == call[c].key
<1> DEFINE start == Len(call[c].got)
<1>2. call[c].got \in Seq(Piece) /\ start \in Nat /\ call[c].n \in Nat BY <1>1, CallParts, LenProperties DEF Data
<1>3. CASE start >= call[c].n /\ EndsWith(c, "read") /\ OnlyCall
  <2>1. "read" \in Results BY DEF Results
  <2>2. CallType' BY <1>1, <1>3, <2>1, EndsType
  <2>3. QED BY <1>3, <2>2, OnlyCallTypes DEF OnlyCall
<1>4. ASSUME start < call[c].n, NEW f \in Fates, NEW size \in BufferSizes,
             Requests(AzureDownloadSigned, f), UNCHANGED bucket,
             LET data == FetchRange(c, start, Min({RangeEnd(start, size, call[c].n), Len(bucket[k]) - 1}))
             IN IF f = "served" /\ There(k) /\ start < Len(bucket[k])
                THEN call' = [call EXCEPT ![c].got = @ \o SubSeq(data, 1, Min({Len(data), size}))]
                ELSE Fails(c)
      PROVE  Types'
  <2>1. CASE Fails(c)
    <3>1. CallType' BY <1>1, <2>1, FailsType
    <3>2. QED BY <1>4, <3>1, OnlyCallTypes DEF Requests
  <2>2. CASE There(k) /\ start < Len(bucket[k]) /\ ~Fails(c)
    <3> DEFINE o == bucket[k]
    <3> DEFINE e == Min({RangeEnd(start, size, call[c].n), Len(o) - 1})
    <3> DEFINE data == SubSeq(o, start + 1, e + 1)
    <3>1. o \in Data BY <1>1, <2>2, BucketParts DEF There
    <3>2. size \in Nat \ {0} BY Constants
    <3>3. data \in Data /\ SubSeq(data, 1, Min({Len(data), size})) = data BY <1>2, <1>4, <2>2, <3>1, <3>2, FetchGives, Zenon
    <3>4. FetchRange(c, start, e) = data BY DEF FetchRange
    <3> DEFINE g == call[c].got \o data
    <3>5. g \in Data BY <1>2, <3>3, ConcatProperties DEF Data
    <3>6. call' = [call EXCEPT ![c].got = g] BY <1>4, <2>2, <3>3, <3>4, Zenon
    <3> HIDE DEF g
    <3> DEFINE y == [call[c] EXCEPT !.got = g]
    <3>7. y \in CallRecords /\ CallHolds(y) BY <1>1, <3>5, CallParts DEF CallRecords, CallHolds
    <3>8. call' = [call EXCEPT ![c] = y] BY <1>1, <3>6 DEF CallType
    <3> HIDE DEF y
    <3>9. CallType' BY <1>1, <3>7, <3>8, CallUpdate
    <3>10. QED BY <1>4, <3>9, OnlyCallTypes DEF Requests
  <2>3. QED BY <1>4, <2>1, <2>2
<1>5. QED BY <1>3, <1>4, Zenon DEF ReadRange

-----------------------------------------------------------------------------
(* The streams' steps keep the types. *)
StreamsType == DOMAIN strm = Callers /\ strm = [c \in Callers |-> strm[c]] /\ \A c \in Callers : IsStream(strm[c])

LEMMA StreamsUpdate ==
  ASSUME StreamsType, NEW c \in Callers, NEW t, IsStream(t), strm' = [strm EXCEPT ![c] = t] PROVE StreamsType'
BY DEF StreamsType

LEMMA CallAndStreamTypes ==
  ASSUME Types, CallType', StreamsType', UNCHANGED <<conf, bucket, blocks, uploads>> PROVE Types'
BY DEF Types, StreamsType

LEMMA AtStream == ASSUME CallType, NEW c \in Callers, call[c].pc \in StreamPlaces \cup {"open"} PROVE call[c].op \in Uploads /\ call[c].key \in Keys
<1>1. CallHolds(call[c]) /\ call[c].op \in Uploads BY CallParts DEF CallHolds
<1>2. QED BY <1>1 DEF CallHolds, Uploads, CallNames

LEMMA OpenStreamType == ASSUME Types, NEW c \in Callers, OpenStream(c) PROVE Types'
<1>1. CallType /\ StreamsType /\ uploads \in [Callers -> UploadRecords] /\ conf \in ScenarioType BY DEF Types, StreamsType
<1>2. CASE state # "connected"
  <2>1. CallType' BY <1>1, <1>2, NoCallType, CallUpdate DEF OpenStream
  <2>2. QED BY <1>2, <2>1, OnlyCallTypes DEF OpenStream
<1>3. CASE state = "connected"
  <2>1. CallType'
    <3>1. call[c].op \in Uploads BY <1>1, AtStream DEF OpenStream, At
    <3>2. Returns(c, "opened") /\ "opened" \in Results BY <1>3 DEF OpenStream, Results
    <3>3. QED BY <1>1, <3>1, <3>2, ReturnsType
  <2>2. UNCHANGED <<conf, bucket, blocks>> BY DEF OpenStream
  <2>3. CASE \E f \in Fates : S3InitiateMultipart(c, f)
    <3>1. PICK f \in Fates : S3InitiateMultipart(c, f) BY <2>3
    <3> DEFINE open == conf.endpoint /\ Acts(f)
    <3> DEFINE id == IF ~conf.endpoint \/ Lost(f) THEN "own" ELSE IF f = "served" THEN "real" ELSE "none"
    <3>2. open \in BOOLEAN /\ id \in {"own", "real", "none"} BY <1>1 DEF Acts, ScenarioType
    <3> DEFINE t == [NewStream EXCEPT !.id = id]
    <3> DEFINE u == [NoUpload EXCEPT !.open = open]
    <3>3. strm' = [strm EXCEPT ![c] = t] /\ uploads' = [uploads EXCEPT ![c] = u]
      BY <3>1 DEF S3InitiateMultipart, SetStream
    <3> HIDE DEF open, id
    <3>4. t \in Streams /\ t.buf = NewStream.buf /\ t.pend = NewStream.pend /\ t.cur = NewStream.cur /\ t.done = NewStream.done
      BY <3>2, NewStreamType DEF IsStream, Streams
    <3>5. IsStream(t) BY <3>4, NewStreamType DEF IsStream, StreamHolds
    <3>6. <<>> \in Maps(Nat) BY EmptyMap
    <3>7. u \in UploadRecords BY <3>2, <3>6 DEF NoUpload, UploadRecords
    <3> HIDE DEF t, u
    <3>8. StreamsType' BY <1>1, <3>3, <3>5, StreamsUpdate
    <3>9. uploads' \in [Callers -> UploadRecords] BY <1>1, <3>3, <3>7
    <3>10. QED BY <2>1, <2>2, <3>8, <3>9 DEF Types, StreamsType
  <2>4. CASE SetStream(c, NewStream) /\ UNCHANGED uploads
    <3>1. StreamsType' BY <1>1, <2>4, NewStreamType, StreamsUpdate DEF SetStream
    <3>2. QED BY <2>1, <2>2, <2>4, <3>1, CallAndStreamTypes
  <2>5. CASE AzureOpen(c) /\ UNCHANGED uploads
    <3> DEFINE others == {d \in Callers \ {c} : Streaming(d) /\ call[d].key = call[c].key}
    <3> DEFINE new(d) == IF d = c THEN [NewStream EXCEPT !.shared = others # {}] ELSE [strm[d] EXCEPT !.shared = @ \/ d \in others]
    <3>1. strm' = [d \in Callers |-> new(d)] BY <2>5 DEF AzureOpen
    <3>2. ASSUME NEW s, IsStream(s), NEW b \in BOOLEAN PROVE IsStream([s EXCEPT !.shared = b])
      <4> DEFINE t == [s EXCEPT !.shared = b]
      <4>1. t \in Streams /\ t.buf = s.buf /\ t.pend = s.pend /\ t.cur = s.cur /\ t.done = s.done
        BY <3>2 DEF IsStream, Streams
      <4> HIDE DEF t
      <4>2. IsStream(t) BY <3>2, <4>1 DEF IsStream, StreamHolds
      <4>3. QED BY <4>2 DEF t
    <3>3. ASSUME NEW d \in Callers PROVE IsStream(new(d))
      <4> DEFINE b == strm[d].shared \/ d \in others
      <4>1. b \in BOOLEAN /\ (others # {}) \in BOOLEAN OBVIOUS
      <4>2. IsStream(strm[d]) BY <1>1 DEF StreamsType
      <4>3. [strm[d] EXCEPT !.shared = @ \/ d \in others] = [strm[d] EXCEPT !.shared = b] OBVIOUS
      <4> HIDE DEF others, b
      <4>4. IsStream([strm[d] EXCEPT !.shared = b]) BY <3>2, <4>1, <4>2
      <4>5. IsStream([NewStream EXCEPT !.shared = others # {}]) BY <3>2, <4>1, NewStreamType
      <4>6. QED BY <4>3, <4>4, <4>5
    <3> HIDE DEF new
    <3>4. StreamsType' BY <3>1, <3>3 DEF StreamsType
    <3>5. QED BY <2>1, <2>2, <2>5, <3>4, CallAndStreamTypes
  <2>6. QED BY <1>3, <2>3, <2>4, <2>5 DEF OpenStream
<1>4. QED BY <1>2, <1>3

\* The steps of a stream's owner that change its call only.
LEMMA WriteType == ASSUME Types, NEW c \in Callers, Write(c) PROVE Types'
<1>1. CallType BY DEF Types
<1>2. call[c].op \in Uploads BY <1>1, AtStream DEF Write, Does, At, StreamPlaces
<1>3. CASE Returns(c, "closed")
  <2>1. "closed" \in Results BY DEF Results
  <2>2. CallType' BY <1>1, <1>2, <1>3, <2>1, ReturnsType
  <2>3. QED BY <2>2, OnlyCallTypes DEF Write
<1>4. ASSUME NEW n \in IF call[c].op # "stream" THEN {call[c].n} ELSE 1..MaxUnits,
             call' = [call EXCEPT ![c].pc = "fill", ![c].n = n, ![c].todo = n]
      PROVE  Types'
  <2>1. n \in Nat BY <1>1, CallParts, Constants
  <2> DEFINE y == [call[c] EXCEPT !.pc = "fill", !.n = n, !.todo = n]
  <2>2. "fill" \in Places /\ "fill" \notin {"head", "read"} BY DEF Places
  <2>3. y \in CallRecords /\ CallHolds(y) BY <1>1, <1>2, <2>1, <2>2, CallParts DEF CallRecords, CallHolds
  <2>4. call' = [call EXCEPT ![c] = y] BY <1>1, <1>4 DEF CallType
  <2> HIDE DEF y
  <2>5. CallType' BY <1>1, <2>3, <2>4, CallUpdate
  <2>6. QED BY <2>5, OnlyCallTypes DEF Write
<1>5. QED BY <1>3, <1>4 DEF Write

\* A stream is sent to another place.
LEMMA StreamGo ==
  ASSUME CallType, NEW c \in Callers, NEW p \in StreamPlaces, Go(c, p), call[c].op \in Uploads PROVE CallType'
<1>1. p \in Places /\ p \notin {"head", "read"} BY SomePlaces
<1>2. QED BY <1>1, GoType

LEMMA GoesWithType ==
  ASSUME CallType, NEW c \in Callers, NEW p \in StreamPlaces, NEW r \in Results, NEW q \in {"user", "join"},
         call' = [call EXCEPT ![c].pc = p, ![c].res = r, ![c].next = q], call[c].op \in Uploads
  PROVE  CallType'
<1>1. call[c] \in CallRecords /\ CallHolds(call[c]) BY CallParts
<1> DEFINE y == [call[c] EXCEPT !.pc = p, !.res = r, !.next = q]
<1>0. p \in Places /\ p \notin {"head", "read"} BY SomePlaces
<1>2. y \in CallRecords /\ CallHolds(y) BY <1>0, <1>1 DEF CallRecords, CallHolds
<1>3. call' = [call EXCEPT ![c] = y] BY DEF CallType
<1> HIDE DEF y
<1>4. QED BY <1>2, <1>3, CallUpdate

LEMMA WriteFailsType ==
  ASSUME CallType, StreamsType, NEW c \in Callers, WriteFails(c), call[c].op \in Uploads PROVE CallType' /\ StreamsType'
<1>1. "write failed" \in Results BY DEF Results
<1>2. CallType' BY <1>1, ReturnsType DEF WriteFails
<1>3. IsStream(Failed(Collected(strm[c]))) BY CollectedType, FailedType DEF StreamsType
<1>4. StreamsType' BY <1>3, StreamsUpdate DEF WriteFails, SetStream
<1>5. QED BY <1>2, <1>4

LEMMA WaitForSlotType == ASSUME Types, NEW c \in Callers, WaitForSlot(c) PROVE Types'
<1>1. CallType /\ StreamsType BY DEF Types, StreamsType
<1>2. call[c].op \in Uploads BY <1>1, AtStream DEF WaitForSlot, At, StreamPlaces
<1>3. CASE WriteFails(c) BY <1>1, <1>2, <1>3, WriteFailsType, CallAndStreamTypes DEF WaitForSlot
<1>4. CASE SetStream(c, Collected(strm[c])) /\ UNCHANGED call
  <2>1. IsStream(Collected(strm[c])) BY <1>1, CollectedType DEF StreamsType
  <2>2. StreamsType' BY <1>1, <1>4, <2>1, StreamsUpdate DEF SetStream
  <2>3. CallType' BY <1>1, <1>4 DEF CallType
  <2>4. QED BY <2>2, <2>3, CallAndStreamTypes DEF WaitForSlot
<1>5. QED BY <1>3, <1>4 DEF WaitForSlot

\* What Fill makes of a stream.
LEMMA FillIs ==
  ASSUME Types, NEW c \in Callers, Fill(c)
  PROVE  LET s == strm[c]
             k == Min({call[c].todo, PartSize - Len(s.buf)})
             new == [i \in 1..k |-> <<c, Len(s.took) + i>>]
         IN /\ k \in Nat /\ k <= call[c].todo /\ k <= PartSize - Len(s.buf) /\ (k = call[c].todo \/ k = PartSize - Len(s.buf))
            /\ new \in Data /\ Len(new) = k
            /\ s.buf \o new \in Data /\ Len(s.buf \o new) = Len(s.buf) + k
            /\ s.took \o new \in Data /\ Len(s.took \o new) = Len(s.took) + k
<1> DEFINE s == strm[c]
<1>1. s \in Streams /\ StreamHolds(s) /\ call[c].todo \in Nat BY CallParts DEF Types, IsStream
<1>2. s.buf \in Seq(Piece) /\ s.took \in Seq(Piece) BY <1>1 DEF Streams, Data
<1> DEFINE b == Len(s.buf)
<1> DEFINE m == Len(s.took)
<1>3. b \in Nat /\ m \in Nat /\ b <= PartSize BY <1>1, <1>2, LenProperties DEF StreamHolds
<1> HIDE DEF b, m
<1> DEFINE k == Min({call[c].todo, PartSize - b})
<1>4. k = IF call[c].todo <= PartSize - b THEN call[c].todo ELSE PartSize - b BY <1>1, <1>3, Constants, MinTwo
<1>5. k \in Nat /\ k <= call[c].todo /\ k <= PartSize - b /\ (k = call[c].todo \/ k = PartSize - b) BY <1>1, <1>3, <1>4, Constants
<1> HIDE DEF k
<1> DEFINE new == [i \in 1..k |-> <<c, m + i>>]
<1>6. new \in Seq(Piece) /\ Len(new) = k
  <2>1. \A i \in 1..k : <<c, m + i>> \in Piece BY <1>3, <1>5 DEF Piece
  <2>2. new \in [1..k -> Piece] BY <2>1
  <2>3. QED BY <1>5, <2>2, SMTT(30)
<1> HIDE DEF new
<1>7. s.buf \o new \in Seq(Piece) /\ Len(s.buf \o new) = b + k BY <1>2, <1>6, ConcatProperties DEF b
<1>8. s.took \o new \in Seq(Piece) /\ Len(s.took \o new) = m + k BY <1>2, <1>6, ConcatProperties DEF m
<1>9. QED BY <1>5, <1>6, <1>7, <1>8 DEF new, k, b, m, Data

LEMMA FillType == ASSUME Types, NEW c \in Callers, Fill(c) PROVE Types'
<1>1. CallType /\ StreamsType BY DEF Types, StreamsType
<1>2. call[c].op \in Uploads BY <1>1, AtStream DEF Fill, At, StreamPlaces
<1> DEFINE s == strm[c]
<1> DEFINE k == Min({call[c].todo, PartSize - Len(s.buf)})
<1> DEFINE new == [i \in 1..k |-> <<c, Len(s.took) + i>>]
<1> DEFINE full == Len(s.buf) + k >= PartSize
<1> DEFINE over == ~full /\ k = call[c].todo
<1> DEFINE b == s.buf \o new
<1> DEFINE m == s.took \o new
<1> DEFINE w == IF over THEN s.written + call[c].n ELSE s.written
<1>3. s \in Streams /\ StreamHolds(s) BY <1>1 DEF StreamsType, IsStream
<1>4. /\ k \in Nat /\ k <= call[c].todo /\ k <= PartSize - Len(s.buf)
      /\ b \in Data /\ Len(b) = Len(s.buf) + k /\ m \in Data
  BY FillIs
<1>5. Len(b) <= PartSize
  <2>1. Len(s.buf) \in Nat BY <1>3, LenProperties DEF Streams, Data
  <2> HIDE DEF b, k
  <2>2. QED BY <1>4, <2>1, Constants
<1>6. w \in Nat BY <1>1, <1>3, CallParts DEF Streams
<1>7. call[c].todo - k \in Nat BY <1>1, <1>4, CallParts
<1>8. strm' = [strm EXCEPT ![c] = [s EXCEPT !.buf = b, !.took = m, !.written = w]] BY DEF Fill, SetStream
<1> DEFINE d == call[c].todo - k
<1> DEFINE p == IF full THEN "slot" ELSE "user"
<1> DEFINE r == IF over THEN "written" ELSE call[c].res
<1>9. call' = [call EXCEPT ![c].todo = d, ![c].pc = p, ![c].res = r] BY DEF Fill
<1>10. p \in {"slot", "user"} /\ p \in Places /\ p \notin {"head", "read"} BY DEF Places
<1>11. r \in Results BY <1>1, CallParts DEF Results
<1>12. StreamsType'
  <2> HIDE DEF b, m, w
  <2> DEFINE t == [s EXCEPT !.buf = b, !.took = m, !.written = w]
  <2>1. t \in Streams /\ t.buf = b /\ t.pend = s.pend /\ t.cur = s.cur /\ t.done = s.done
    BY <1>3, <1>4, <1>6 DEF Streams
  <2> HIDE DEF t
  <2>2. IsStream(t) BY <1>3, <1>5, <2>1 DEF IsStream, StreamHolds
  <2>3. QED BY <1>1, <1>8, <2>2, StreamsUpdate DEF t
<1>13. CallType'
  <2> HIDE DEF d, p, r
  <2> DEFINE y == [call[c] EXCEPT !.todo = d, !.pc = p, !.res = r]
  <2>0. d \in Nat BY <1>7 DEF d
  <2>1. y \in CallRecords /\ CallHolds(y) BY <1>1, <1>2, <1>10, <1>11, <2>0, CallParts DEF CallRecords, CallHolds
  <2>2. call' = [call EXCEPT ![c] = y] BY <1>1, <1>9 DEF CallType
  <2> HIDE DEF y
  <2>3. QED BY <1>1, <2>1, <2>2, CallUpdate
<1>14. QED BY <1>12, <1>13, CallAndStreamTypes DEF Fill

LEMMA SubmitType == ASSUME Types, NEW c \in Callers, Submit(c) PROVE Types'
<1>1. CallType /\ StreamsType /\ conf \in ScenarioType BY DEF Types, StreamsType
<1>2. call[c].op \in Uploads BY <1>1, AtStream DEF Submit, At, StreamPlaces
<1> DEFINE s == Collected(strm[c])
<1> DEFINE t == CASE Is("s3")    -> UploadPartAsync(s)
                  [] Is("gcs")   -> UploadChunkAsync(s)
                  [] Is("azure") -> UploadBlockAsync(s)
<1> DEFINE over == call[c].todo = 0
<1>3. CASE WriteFails(c) BY <1>1, <1>2, <1>3, WriteFailsType, CallAndStreamTypes DEF Submit
<1>4. CASE ~CollectFails(strm[c])
  <2>1. SetStream(c, [t EXCEPT !.written = IF over THEN @ + call[c].n ELSE @])
    BY <1>4 DEF Submit
  <2>2. IF over THEN Returns(c, "written") ELSE Go(c, "fill") BY <1>4 DEF Submit
  <2>3. CallType'
    <3>1. "written" \in Results /\ "fill" \in StreamPlaces BY DEF Results, StreamPlaces
    <3>2. QED BY <1>1, <1>2, <2>2, <3>1, ReturnsType, StreamGo
  <2>4. IsStream(s) BY <1>1, CollectedType DEF StreamsType
  <2>5. IsStream(t)
    <3>1. IsStream(Submitted(s)) BY <2>4, SubmittedType
    <3>2. s.cur \in Nat BY <2>4 DEF IsStream, Streams
    <3> HIDE DEF s
    <3> DEFINE z == Submitted(s)
    <3> HIDE DEF z
    <3> DEFINE j == Append(z.ids, s.cur)
    <3>3. z \in Streams /\ StreamHolds(z) BY <3>1 DEF IsStream, z
    <3>4. j \in Seq(Nat) BY <3>2, <3>3, AppendProperties DEF Streams
    <3> HIDE DEF j
    <3> DEFINE v == [z EXCEPT !.ids = j]
    <3>5. v \in Streams /\ v.buf = z.buf /\ v.pend = z.pend /\ v.cur = z.cur /\ v.done = z.done BY <3>3, <3>4 DEF Streams
    <3> HIDE DEF v
    <3>6. IsStream(v) BY <3>3, <3>5 DEF IsStream, StreamHolds
    <3>7. UploadBlockAsync(s) = v BY DEF UploadBlockAsync, z, j, v
    <3>8. QED BY <1>1, <3>1, <3>6, <3>7, ProviderIs DEF UploadPartAsync, UploadChunkAsync
  <2> HIDE DEF t
  <2> DEFINE w == IF over THEN t.written + call[c].n ELSE t.written
  <2>6. w \in Nat BY <1>1, <2>5, CallParts DEF IsStream, Streams
  <2>7. strm' = [strm EXCEPT ![c] = [t EXCEPT !.written = w]] BY <2>1 DEF SetStream
  <2> HIDE DEF w
  <2> DEFINE v == [t EXCEPT !.written = w]
  <2>8. v \in Streams /\ v.buf = t.buf /\ v.pend = t.pend /\ v.cur = t.cur /\ v.done = t.done
    BY <2>5, <2>6 DEF IsStream, Streams
  <2> HIDE DEF v
  <2>9. IsStream(v) BY <2>5, <2>8 DEF IsStream, StreamHolds
  <2>10. StreamsType' BY <1>1, <2>7, <2>9, StreamsUpdate DEF v
  <2>11. QED BY <2>3, <2>10, CallAndStreamTypes DEF Submit
<1>5. QED BY <1>3, <1>4 DEF Submit

LEMMA SendsType ==
  ASSUME Types, NEW c \in Callers, NEW num \in Nat, NEW data \in Data, NEW f \in Fates,
         call[c].key \in Keys, Sends(c, num, data, f, Result(c, f))
  PROVE  /\ uploads' \in [Callers -> UploadRecords] /\ blocks' \in [Keys -> Maps(Nat)]
         /\ Result(c, f).st \in {"ok", "fail"} /\ Result(c, f).etag \in Etag
<1>1. conf \in ScenarioType /\ uploads \in [Callers -> UploadRecords] /\ blocks \in [Keys -> Maps(Nat)] BY DEF Types
<1> DEFINE k == call[c].key
<1>2. uploads[c] \in UploadRecords /\ uploads[c].parts \in Maps(Nat) /\ blocks[k] \in Maps(Nat) BY <1>1 DEF UploadRecords
<1>3. Result(c, f).st \in {"ok", "fail"} /\ Result(c, f).etag \in Etag
  BY <1>1, ProviderIs DEF Result, S3PartResult, AzureBlockResult, GcsChunkResult, Etag
<1>4. CASE UNCHANGED <<uploads, blocks>> BY <1>1, <1>3, <1>4
<1>5. CASE uploads' = [uploads EXCEPT ![c].parts = StoreIn(@, num, data)] /\ UNCHANGED blocks
  <2> DEFINE m == StoreIn(uploads[c].parts, num, data)
  <2>1. m \in Maps(Nat) BY <1>2, StoreMap DEF StoreIn
  <2>2. uploads' = [uploads EXCEPT ![c].parts = m] BY <1>5
  <2> HIDE DEF m
  <2>3. [uploads[c] EXCEPT !.parts = m] \in UploadRecords BY <1>2, <2>1 DEF UploadRecords
  <2>4. uploads' \in [Callers -> UploadRecords] BY <1>1, <2>2, <2>3
  <2>5. QED BY <1>1, <1>3, <1>5, <2>4
<1>6. CASE blocks' = [blocks EXCEPT ![k] = StoreIn(@, num, data)] /\ UNCHANGED uploads
  <2> DEFINE m == StoreIn(blocks[k], num, data)
  <2>1. m \in Maps(Nat) BY <1>2, StoreMap DEF StoreIn
  <2>2. blocks' = [blocks EXCEPT ![k] = m] BY <1>6
  <2> HIDE DEF m
  <2>3. blocks' \in [Keys -> Maps(Nat)] BY <1>1, <2>1, <2>2
  <2>4. QED BY <1>1, <1>3, <1>6, <2>3
<1>7. QED BY <1>4, <1>5, <1>6 DEF Sends, S3UploadPart, AzureUploadBlock, GcsUploadChunk

\* What PartDone and SendTail make of a stream.
LEMMA AnsweredType ==
  ASSUME NEW s, IsStream(s), NEW n \in DOMAIN s.pend, NEW st \in {"run", "ok", "fail", "taken"}, NEW e \in Etag
  PROVE  IsStream([s EXCEPT !.pend[n].st = st, !.pend[n].etag = e])
<1>1. s \in Streams /\ StreamHolds(s) /\ s.pend \in Lists BY DEF IsStream, Streams
<1>2. DOMAIN s.pend \in SUBSET Nat /\ s.pend \in [DOMAIN s.pend -> Pending] /\ s.pend[n] \in Pending BY <1>1, ListParts
<1> DEFINE p == [s.pend[n] EXCEPT !.st = st, !.etag = e]
<1>3. p \in Pending BY <1>2 DEF Pending
<1> DEFINE l == [s.pend EXCEPT ![n] = p]
<1>4. [s EXCEPT !.pend[n].st = st, !.pend[n].etag = e] = [s EXCEPT !.pend = l] BY <1>1, <1>2 DEF Streams
<1> HIDE DEF p
<1>5. l \in [DOMAIN s.pend -> Pending] BY <1>2, <1>3
<1>6. l \in Lists /\ DOMAIN l = DOMAIN s.pend BY <1>2, <1>5 DEF Lists
<1> HIDE DEF l
<1> DEFINE y == [s EXCEPT !.pend = l]
<1>7. y \in Streams /\ y.buf = s.buf /\ y.pend = l /\ y.cur = s.cur /\ y.done = s.done BY <1>1, <1>6, Zenon DEF Streams
<1> HIDE DEF y
<1>8. IsStream(y) BY <1>1, <1>6, <1>7 DEF IsStream, StreamHolds
<1>9. QED BY <1>4, <1>8 DEF y

\* The owner of a part under way has its stream.
Owns == \A c \in Callers : strm[c].pend # <<>> => call[c].pc \in StreamPlaces

LEMMA PartDoneType == ASSUME Types, Owns, NEW c \in Callers, PartDone(c) PROVE Types'
<1>1. CallType /\ StreamsType /\ IsStream(strm[c]) BY Zenon DEF Types, StreamsType
<1>2. PICK n \in In(strm[c], "run"), f \in Fates :
        /\ Sends(c, n, strm[c].pend[n].data, f, Result(c, f))
        /\ strm' = [strm EXCEPT ![c].pend[n].st = Result(c, f).st, ![c].pend[n].etag = Result(c, f).etag]
  BY DEF PartDone
<1>3. n \in DOMAIN strm[c].pend /\ strm[c].pend \in Lists BY <1>1, <1>2 DEF In, IsStream, Streams
<1>4. strm[c].pend # <<>> BY <1>3
<1>5. call[c].key \in Keys BY <1>1, <1>4, AtStream DEF Owns
<1>6. n \in Nat /\ strm[c].pend[n].data \in Data BY <1>3, ListParts DEF Pending
<1> DEFINE st == Result(c, f).st
<1> DEFINE e == Result(c, f).etag
<1>7. /\ uploads' \in [Callers -> UploadRecords] /\ blocks' \in [Keys -> Maps(Nat)]
      /\ st \in {"ok", "fail"} /\ e \in Etag
  BY <1>2, <1>5, <1>6, SendsType
<1> DEFINE y == [strm[c] EXCEPT !.pend[n].st = st, !.pend[n].etag = e]
<1>8. strm' = [strm EXCEPT ![c].pend[n].st = st, ![c].pend[n].etag = e] BY <1>2
<1> HIDE DEF st, e
<1>9. IsStream(y) BY <1>1, <1>3, <1>7, AnsweredType
<1>10. strm' = [strm EXCEPT ![c] = y]
  <2> DEFINE s1 == [strm EXCEPT ![c].pend[n].st = st]
  <2>1. strm' = [s1 EXCEPT ![c].pend[n].etag = e] BY <1>8
  <2>2. DOMAIN s1 = Callers /\ s1[c] = [strm[c] EXCEPT !.pend[n].st = st] /\ \A d \in Callers \ {c} : s1[d] = strm[d]
    BY <1>1 DEF StreamsType
  <2>3. s1 = [d \in Callers |-> s1[d]] BY <1>1 DEF StreamsType
  <2> HIDE DEF s1
  <2>4. strm' = [d \in Callers |-> IF d = c THEN [s1[c] EXCEPT !.pend[n].etag = e] ELSE s1[d]] BY <2>1, <2>2, <2>3
  <2>5. [s1[c] EXCEPT !.pend[n].etag = e] = y BY <2>2
  <2> HIDE DEF y
  <2>6. strm' = [d \in Callers |-> IF d = c THEN y ELSE strm[d]] BY <2>2, <2>4, <2>5
  <2>7. QED BY <1>1, <2>6 DEF StreamsType
<1> HIDE DEF y
<1>11. StreamsType' BY <1>1, <1>9, <1>10, StreamsUpdate
<1>12. CallType' BY <1>1 DEF PartDone, CallType
<1>13. QED BY <1>7, <1>11, <1>12, Zenon DEF Types, StreamsType, PartDone

LEMMA FinalizeType == ASSUME Types, NEW c \in Callers, Finalize(c) PROVE Types'
<1>1. CallType BY DEF Types
<1>2. call[c].op \in Uploads BY <1>1, AtStream DEF Finalize, Does, At, StreamPlaces
<1>3. "closed" \in Results /\ "waitall" \in StreamPlaces /\ "tail" \in StreamPlaces BY DEF Results, StreamPlaces
<1>4. CallType' BY <1>1, <1>2, <1>3, ReturnsType, StreamGo, Zenon DEF Finalize
<1>5. QED BY <1>4, OnlyCallTypes DEF Finalize

LEMMA UndoOrReturn ==
  ASSUME CallType, NEW c \in Callers, call[c].op \in Uploads,
         IF Is("s3") THEN call' = [call EXCEPT ![c].pc = "undo", ![c].res = "failed", ![c].next = "user"] ELSE Returns(c, "failed")
  PROVE  CallType'
<1>1. "failed" \in Results /\ "undo" \in StreamPlaces BY DEF Results, StreamPlaces
<1>2. QED BY <1>1, ReturnsType, GoesWithType

\* A stream like s but for its history, flags and block ids.
LEMMA LikeType ==
  ASSUME NEW s, IsStream(s), NEW t \in Streams, t.buf = s.buf, t.pend = s.pend, t.cur = s.cur, t.done = s.done PROVE IsStream(t)
BY DEF IsStream, StreamHolds

LEMMA SendTailType == ASSUME Types, NEW c \in Callers, SendTail(c) PROVE Types'
<1>1. CallType /\ StreamsType /\ IsStream(strm[c]) BY DEF Types, StreamsType
<1>2. call[c].op \in Uploads /\ call[c].key \in Keys BY <1>1, AtStream DEF SendTail, At, StreamPlaces
<1> DEFINE s == strm[c]
<1> DEFINE t == IF Is("azure") THEN [s EXCEPT !.ids = Append(@, s.cur)] ELSE s
<1>3. PICK f \in Fates :
        /\ Sends(c, s.cur, s.buf, f, Result(c, f))
        /\ SetStream(c, IF Result(c, f).st = "ok" THEN [t EXCEPT !.done = @ \cup {[num |-> s.cur, etag |-> Result(c, f).etag]}]
                        ELSE Failed(t))
        /\ IF Result(c, f).st = "ok" THEN Go(c, "waitall")
           ELSE IF Is("s3")
           THEN call' = [call EXCEPT ![c].pc = "undo", ![c].res = "failed", ![c].next = "user"]
           ELSE Returns(c, "failed")
  BY DEF SendTail
<1>4. s.cur \in Nat \ {0} /\ s.buf \in Data /\ s.ids \in Seq(Nat) /\ s \in Streams BY <1>1 DEF IsStream, Streams
<1>5. /\ uploads' \in [Callers -> UploadRecords] /\ blocks' \in [Keys -> Maps(Nat)]
      /\ Result(c, f).st \in {"ok", "fail"} /\ Result(c, f).etag \in Etag
  BY <1>2, <1>3, <1>4, SendsType
<1>6. IsStream(t)
  <2> DEFINE j == Append(s.ids, s.cur)
  <2>1. j \in Seq(Nat) BY <1>4, AppendProperties
  <2> HIDE DEF j
  <2> DEFINE v == [s EXCEPT !.ids = j]
  <2>2. v \in Streams /\ v.buf = s.buf /\ v.pend = s.pend /\ v.cur = s.cur /\ v.done = s.done BY <1>4, <2>1 DEF Streams
  <2> HIDE DEF v
  <2>3. IsStream(v) BY <1>1, <2>2, LikeType
  <2>4. QED BY <1>1, <2>3 DEF v, j
<1>7. t.cur = s.cur BY <1>4 DEF Streams
<1>8. CallType'
  <2>1. "waitall" \in StreamPlaces BY DEF StreamPlaces
  <2>2. QED BY <1>1, <1>2, <1>3, <2>1, StreamGo, UndoOrReturn
<1>9. StreamsType'
  <2>1. CASE Result(c, f).st = "ok"
    <3> DEFINE e == Result(c, f).etag
    <3> DEFINE x == [num |-> s.cur, etag |-> e]
    <3>1. x \in [num : Nat, etag : Etag] /\ x.num = s.cur BY <1>4, <1>5
    <3> HIDE DEF x
    <3>2. strm' = [strm EXCEPT ![c] = [t EXCEPT !.done = @ \cup {x}]] BY <1>3, <2>1 DEF SetStream, x
    <3> HIDE DEF t
    <3> DEFINE d == t.done \cup {x}
    <3>3. d \in SUBSET [num : Nat, etag : Etag] /\ \A p \in d : p.num \in 1..t.cur
      BY <1>4, <1>6, <1>7, <3>1 DEF IsStream, Streams, StreamHolds
    <3>4. strm' = [strm EXCEPT ![c] = [t EXCEPT !.done = d]] BY <3>2
    <3> HIDE DEF d
    <3> DEFINE v == [t EXCEPT !.done = d]
    <3>5. v \in Streams /\ v.buf = t.buf /\ v.pend = t.pend /\ v.cur = t.cur /\ v.done = d BY <1>6, <3>3 DEF IsStream, Streams
    <3> HIDE DEF v
    <3>6. IsStream(v) BY <1>6, <3>3, <3>5 DEF IsStream, StreamHolds
    <3>7. QED BY <1>1, <3>4, <3>6, StreamsUpdate DEF v
  <2>2. CASE Result(c, f).st # "ok"
    <3>1. IsStream(Failed(t)) BY <1>6, FailedType
    <3>2. QED BY <1>1, <1>3, <2>2, <3>1, StreamsUpdate DEF SetStream
  <2>3. QED BY <2>1, <2>2
<1>10. UNCHANGED <<conf, bucket>> BY DEF SendTail
<1>11. QED BY <1>5, <1>8, <1>9, <1>10 DEF Types, StreamsType

LEMMA WaitAllType == ASSUME Types, NEW c \in Callers, WaitAll(c) PROVE Types'
<1>1. CallType /\ StreamsType /\ IsStream(strm[c]) BY DEF Types, StreamsType
<1>2. call[c].op \in Uploads BY <1>1, AtStream DEF WaitAll, At, StreamPlaces
<1> DEFINE s == strm[c]
<1>3. IsStream(Waited(s)) BY <1>1, WaitedType
<1>4. CASE AnyFailed(s)
  <2>1. StreamsType' BY <1>1, <1>3, <1>4, FailedType, StreamsUpdate, Zenon DEF WaitAll, SetStream
  <2>2. CallType' BY <1>1, <1>2, <1>4, UndoOrReturn DEF WaitAll
  <2>3. QED BY <2>1, <2>2, CallAndStreamTypes DEF WaitAll
<1>5. CASE ~AnyFailed(s)
  <2> DEFINE w == Waited(s)
  <2>1. strm' = [strm EXCEPT ![c] = [w EXCEPT !.fin = TRUE]] BY <1>5 DEF WaitAll, SetStream
  <2>a. Go(c, "commit") BY <1>5 DEF WaitAll
  <2> HIDE DEF w
  <2> DEFINE v == [w EXCEPT !.fin = TRUE]
  <2>2. w \in Streams BY <1>3 DEF w, IsStream
  <2>3. v \in Streams /\ v.buf = w.buf /\ v.pend = w.pend /\ v.cur = w.cur /\ v.done = w.done BY <2>2 DEF Streams
  <2> HIDE DEF v
  <2>4. IsStream(v) BY <1>3, <2>3, LikeType DEF w
  <2>5. StreamsType' BY <1>1, <2>1, <2>4, StreamsUpdate DEF v
  <2>6. "commit" \in StreamPlaces BY DEF StreamPlaces
  <2>7. CallType' BY <1>1, <1>2, <2>a, <2>6, StreamGo
  <2>8. QED BY <2>5, <2>7, CallAndStreamTypes DEF WaitAll
<1>6. QED BY <1>4, <1>5

\* The numbers of the parts a stream collected.
Nums(s) == {p.num : p \in s.done}

LEMMA S3Joins ==
  ASSUME Types, NEW c \in Callers, Accepts(c) PROVE Joined(uploads[c].parts, Sorted(Nums(strm[c]))) \in Data
<1> DEFINE m == uploads[c].parts
<1> DEFINE N == Nums(strm[c])
<1>1. m \in Maps(Nat) BY DEF Types, UploadRecords
<1>2. N \in SUBSET (1..strm[c].cur) /\ strm[c].cur \in Nat BY DEF Types, IsStream, StreamHolds, Streams, Nums
<1>3. N \subseteq DOMAIN m BY DEF Accepts, Nums
<1>4. IsFiniteSet(N)
  <2>1. IsFiniteSet(1..strm[c].cur) BY <1>2, FS_Interval
  <2>2. QED BY <1>2, <2>1, FS_Subset
<1> HIDE DEF N, m
<1>5. Cardinality(N) \in Nat BY <1>4, FS_CardinalityType
<1>6. Sorts(Sorted(N), N) BY <1>2, SortedSorts
<1>7. Sorted(N) \in [1..Cardinality(N) -> N] BY <1>6 DEF Sorts
<1>8. Sorted(N) \in [1..Cardinality(N) -> DOMAIN m] BY <1>3, <1>7
<1>9. QED BY <1>1, <1>5, <1>8, JoinedType DEF N, m

LEMMA AzureJoins ==
  ASSUME Types, NEW c \in Callers, call[c].key \in Keys, \A i \in DOMAIN strm[c].ids : strm[c].ids[i] \in DOMAIN blocks[call[c].key]
  PROVE  Joined(blocks[call[c].key], strm[c].ids) \in Data
<1> DEFINE m == blocks[call[c].key]
<1> DEFINE ids == strm[c].ids
<1>1. m \in Maps(Nat) BY DEF Types
<1>2. ids \in Seq(Nat) BY DEF Types, IsStream, Streams
<1>3. \A i \in DOMAIN ids : ids[i] \in DOMAIN m OBVIOUS
<1> HIDE DEF m, ids
<1>4. DOMAIN ids = 1..Len(ids) /\ Len(ids) \in Nat BY <1>2, LenProperties
<1>5. ids \in [1..Len(ids) -> DOMAIN m] BY <1>2, <1>3, <1>4
<1>6. QED BY <1>1, <1>4, <1>5, JoinedType DEF m, ids

LEMMA CommitType == ASSUME Types, NEW c \in Callers, Commit(c) PROVE Types'
<1>1. CallType /\ StreamsType /\ bucket \in Maps(Keys) /\ blocks \in [Keys -> Maps(Nat)] /\ uploads \in [Callers -> UploadRecords]
  BY DEF Types, StreamsType
<1>2. call[c].op \in Uploads /\ call[c].key \in Keys BY <1>1, AtStream DEF Commit, At, StreamPlaces
<1>3. UNCHANGED <<conf, strm>> BY DEF Commit
<1>4. CASE \E f \in Fates : S3Complete(c, f)
  <2>1. PICK f \in Fates : S3Complete(c, f) BY <1>4
  <2> DEFINE r == IF ~conf.endpoint \/ Lost(f) THEN "made up" ELSE IF f = "served" /\ Accepts(c) THEN "stored" ELSE "failed"
  <2>2. r \in Results BY DEF Results
  <2>3. Returns(c, r) BY <2>1 DEF S3Complete
  <2> HIDE DEF r
  <2>4. CallType' BY <1>1, <1>2, <2>2, <2>3, ReturnsType
  <2>5. bucket' \in Maps(Keys)
    <3>1. bucket' = bucket \/ (Accepts(c) /\ bucket' = Put(call[c].key, Joined(uploads[c].parts, Sorted(Nums(strm[c])))))
      BY <2>1 DEF S3Complete, Nums
    <3>2. QED BY <1>1, <1>2, <3>1, S3Joins, PutType
  <2>6. uploads' \in [Callers -> UploadRecords]
    <3>1. uploads' = uploads \/ uploads' = [uploads EXCEPT ![c].open = FALSE] BY <2>1 DEF S3Complete
    <3>2. [uploads[c] EXCEPT !.open = FALSE] \in UploadRecords BY <1>1 DEF UploadRecords
    <3>3. [uploads EXCEPT ![c].open = FALSE] = [uploads EXCEPT ![c] = [uploads[c] EXCEPT !.open = FALSE]] OBVIOUS
    <3>4. QED BY <1>1, <3>1, <3>2, <3>3
  <2>7. blocks' = blocks BY <2>1 DEF S3Complete
  <2>8. QED BY <1>1, <1>3, <2>4, <2>5, <2>6, <2>7 DEF Types, StreamsType
<1>5. CASE \E f \in Fates : AzureCommitBlockList(c, f)
  <2>1. PICK f \in Fates : AzureCommitBlockList(c, f) BY <1>5
  <2> DEFINE good == \A i \in DOMAIN strm[c].ids : strm[c].ids[i] \in DOMAIN blocks[call[c].key]
  <2> DEFINE r == IF f = "served" /\ good THEN "stored" ELSE "failed"
  <2>2. r \in Results BY DEF Results
  <2>3. Returns(c, r) BY <2>1 DEF AzureCommitBlockList
  <2> HIDE DEF r
  <2>4. CallType' BY <1>1, <1>2, <2>2, <2>3, ReturnsType
  <2>5. bucket' \in Maps(Keys)
    <3>1. bucket' = bucket \/ (good /\ bucket' = Put(call[c].key, Joined(blocks[call[c].key], strm[c].ids)))
      BY <2>1 DEF AzureCommitBlockList
    <3>2. QED BY <1>1, <1>2, <3>1, AzureJoins, PutType
  <2>6. blocks' \in [Keys -> Maps(Nat)]
    <3>1. blocks' = blocks \/ blocks' = [blocks EXCEPT ![call[c].key] = <<>>] BY <2>1 DEF AzureCommitBlockList
    <3>2. <<>> \in Maps(Nat) BY EmptyMap
    <3>3. QED BY <1>1, <3>1, <3>2
  <2>7. uploads' = uploads BY <2>1 DEF AzureCommitBlockList
  <2>8. QED BY <1>1, <1>3, <2>4, <2>5, <2>6, <2>7 DEF Types, StreamsType
<1>6. CASE GcsFinalizeUpload(c)
  <2>1. "made up" \in Results BY DEF Results
  <2>2. CallType' BY <1>1, <1>2, <1>6, <2>1, ReturnsType DEF GcsFinalizeUpload
  <2>3. QED BY <1>3, <1>6, <2>2, OnlyCallTypes DEF GcsFinalizeUpload
<1>7. QED BY <1>4, <1>5, <1>6 DEF Commit

LEMMA AbortedType == ASSUME NEW s, IsStream(s) PROVE IsStream([s EXCEPT !.abt = TRUE])
<1> DEFINE v == [s EXCEPT !.abt = TRUE]
<1>1. s \in Streams BY DEF IsStream
<1>2. v \in Streams /\ v.buf = s.buf /\ v.pend = s.pend /\ v.cur = s.cur /\ v.done = s.done BY <1>1 DEF Streams
<1> HIDE DEF v
<1>3. IsStream(v) BY <1>2, LikeType
<1>4. QED BY <1>3 DEF v

LEMMA AbtType == ASSUME StreamsType, NEW c \in Callers, strm' = [strm EXCEPT ![c].abt = TRUE] PROVE StreamsType'
<1>1. IsStream([strm[c] EXCEPT !.abt = TRUE]) BY AbortedType DEF StreamsType
<1>2. strm' = [strm EXCEPT ![c] = [strm[c] EXCEPT !.abt = TRUE]] OBVIOUS
<1>3. QED BY <1>1, <1>2, StreamsUpdate

LEMMA AbortType == ASSUME Types, NEW c \in Callers, Abort(c) PROVE Types'
<1>1. CallType /\ StreamsType BY DEF Types, StreamsType
<1>2. call[c].op \in Uploads BY <1>1, AtStream DEF Abort, Does, At, StreamPlaces
<1>3. "aborted" \in Results /\ "undo" \in StreamPlaces BY DEF Results, StreamPlaces
<1>4. CASE UNCHANGED strm /\ call' = [call EXCEPT ![c].pc = "undo", ![c].res = "aborted", ![c].next = "user"]
  <2>1. CallType' BY <1>1, <1>2, <1>3, <1>4, GoesWithType
  <2>2. QED BY <1>4, <2>1, OnlyCallTypes DEF Abort
<1>5. CASE strm' = [strm EXCEPT ![c].abt = TRUE] /\ Returns(c, "aborted")
  <2>1. CallType' BY <1>1, <1>2, <1>3, <1>5, ReturnsType
  <2>2. StreamsType' BY <1>1, <1>5, AbtType
  <2>3. QED BY <2>1, <2>2, CallAndStreamTypes DEF Abort
<1>6. QED BY <1>4, <1>5 DEF Abort

LEMMA S3AbortType == ASSUME Types, NEW c \in Callers, S3AbortMultipart(c) PROVE Types'
<1>1. CallType /\ StreamsType /\ uploads \in [Callers -> UploadRecords] BY DEF Types, StreamsType
<1>2. call[c].op \in Uploads BY <1>1, AtStream DEF S3AbortMultipart, At, StreamPlaces
<1>3. call[c].next \in StreamPlaces BY <1>1, CallParts DEF StreamPlaces
<1>4. CallType' BY <1>1, <1>2, <1>3, StreamGo DEF S3AbortMultipart
<1>5. strm' = [strm EXCEPT ![c].abt = TRUE] BY DEF S3AbortMultipart
<1>6. StreamsType' BY <1>1, <1>5, AbtType
<1>7. uploads' = uploads \/ uploads' = [uploads EXCEPT ![c] = NoUpload] BY DEF S3AbortMultipart
<1>8. NoUpload \in UploadRecords
  <2>1. <<>> \in Maps(Nat) BY EmptyMap
  <2>2. QED BY <2>1 DEF NoUpload, UploadRecords
<1>9. uploads' \in [Callers -> UploadRecords] BY <1>1, <1>7, <1>8
<1>10. QED BY <1>4, <1>6, <1>9 DEF Types, StreamsType, S3AbortMultipart

LEMMA DropType == ASSUME Types, NEW c \in Callers, Drop(c) PROVE Types'
<1>1. CallType BY DEF Types
<1>2. call[c].op \in Uploads BY <1>1, AtStream DEF Drop, Does, At, StreamPlaces
<1> DEFINE p == IF Is("s3") /\ ~Closed(strm[c]) THEN "undo" ELSE "join"
<1>3. p \in StreamPlaces BY DEF StreamPlaces
<1>4. call' = [call EXCEPT ![c].pc = p, ![c].next = "join"] BY DEF Drop
<1> HIDE DEF p
<1>5. call[c] \in CallRecords /\ CallHolds(call[c]) BY <1>1, CallParts
<1> DEFINE y == [call[c] EXCEPT !.pc = p, !.next = "join"]
<1>6. p \in Places /\ p \notin {"head", "read"} BY <1>3, SomePlaces
<1>7. y \in CallRecords /\ CallHolds(y) BY <1>2, <1>5, <1>6 DEF CallRecords, CallHolds
<1>8. call' = [call EXCEPT ![c] = y] BY <1>1, <1>4 DEF CallType
<1> HIDE DEF y
<1>9. CallType' BY <1>1, <1>7, <1>8, CallUpdate
<1>10. QED BY <1>9, OnlyCallTypes DEF Drop

LEMMA JoinType == ASSUME Types, NEW c \in Callers, Join(c) PROVE Types'
<1>1. CallType /\ StreamsType /\ uploads \in [Callers -> UploadRecords] BY DEF Types, StreamsType
<1>2. CallType' BY <1>1, NoCallType, CallUpdate DEF Join
<1>3. StreamsType' BY <1>1, NewStreamType, StreamsUpdate DEF Join, SetStream
<1>4. NoUpload \in UploadRecords
  <2>1. <<>> \in Maps(Nat) BY EmptyMap
  <2>2. QED BY <2>1 DEF NoUpload, UploadRecords
<1>5. uploads' \in [Callers -> UploadRecords] BY <1>1, <1>4 DEF Join
<1>6. QED BY <1>2, <1>3, <1>5 DEF Types, StreamsType, Join

-----------------------------------------------------------------------------
(* Whose call and whose stream a step is about. *)
Alone(c) == \A d \in Callers \ {c} : call'[d] = call[d]

LEMMA CallStepIs ==
  ASSUME CallType, NEW c \in Callers, CallStep(c)
  PROVE  Alone(c) /\ call[c].pc \notin StreamPlaces /\ call[c].pc # "open" /\ UNCHANGED <<conf, strm, uploads, blocks>>
<1>1. CASE Begin(c)
  <2>1. call' = call \/ \E y : call' = [call EXCEPT ![c] = y]
    BY <1>1 DEF Begin, Begins, Connecting, Disconnect
  <2>2. QED BY <1>1, <2>1 DEF Begin, At, StreamPlaces, Alone, CallType
<1>2. CASE LoadFile(c) \/ TokenFor(c) \/ CheckAgain(c)
  <2>1. \E y : call' = [call EXCEPT ![c] = y]
    BY <1>2 DEF LoadFile, TokenFor, CheckAgain, Fails, EndsWith, Go, TokenFails, NextKey
  <2>2. QED BY <1>2, <2>1 DEF LoadFile, TokenFor, CheckAgain, At, StreamPlaces, Alone, OnlyCall, CallType
<1>3. CASE AzurePretends(c) \/ StubStream(c) \/ Connect(c) \/ SaveFile(c) \/ End(c)
  <2>1. \E y : call' = [call EXCEPT ![c] = y]
    BY <1>3 DEF AzurePretends, StubStream, Connect, SaveFile, End, Fails, EndsWith
  <2>2. QED BY <1>3, <2>1 DEF AzurePretends, StubStream, Connect, SaveFile, End, At, StreamPlaces, Alone, OnlyCall, CallType
<1>4. CASE Send(c)
  <2>1. PICK f \in Fates :
        /\ Requests(Signed, f)
        /\ \/ PutObject(c, f) \/ GetObject(c, f) \/ DeleteObject(c, f) \/ DeleteNext(c, f)
           \/ Exists(c, f) \/ GetMetadata(c, f) \/ CopyObject(c, f) \/ ComposeObjects(c, f)
           \/ ListObjects(c, f)
    BY <1>4, Zenon DEF Send
  <2>2. \E y : call' = [call EXCEPT ![c] = y]
    BY <2>1, Zenon DEF PutObject, GetObject, DeleteObject, DeleteNext, Exists, GetMetadata, CopyObject, ComposeObjects,
                ListObjects, Fails, EndsWith, NextKey
  <2>3. QED BY <1>4, <2>1, <2>2 DEF Send, At, StreamPlaces, Alone, Requests, CallType
<1>5. CASE OpenDownload(c) \/ ReadRange(c)
  <2>1. \E y : call' = [call EXCEPT ![c] = y] BY <1>5, Zenon DEF OpenDownload, ReadRange, Fails, EndsWith
  <2>2. QED BY <1>5, <2>1, Zenon DEF OpenDownload, ReadRange, At, StreamPlaces, Alone, OnlyCall, Requests, CallType
<1>6. QED BY <1>1, <1>2, <1>3, <1>4, <1>5 DEF CallStep

Others(c) == \A d \in Callers \ {c} : strm'[d] = strm[d]

LEMMA StreamStepIs ==
  ASSUME CallType, StreamsType, NEW c \in Callers, StreamStep(c)
  PROVE  /\ Alone(c) /\ call[c].pc \in StreamPlaces \cup {"open"} /\ conf' = conf
         /\ call'[c].pc \in StreamPlaces \/ (call'[c] = NoCall /\ (OpenStream(c) \/ strm'[c] = NewStream))
         /\ OpenStream(c) \/ Others(c)
<1>0. call[c].next \in StreamPlaces BY CallParts DEF StreamPlaces
<1>1. CASE OpenStream(c)
  <2>1. call' = [call EXCEPT ![c] = NoCall] \/ Returns(c, "opened") BY <1>1 DEF OpenStream
  <2>2. call'[c] = NoCall \/ call'[c].pc \in StreamPlaces BY <2>1, CallParts DEF CallType, Returns, StreamPlaces, CallRecords
  <2>3. Alone(c) BY <2>1 DEF Returns, Alone, CallType
  <2>4. QED BY <1>1, <2>2, <2>3 DEF OpenStream, At
<1>2. CASE Write(c) \/ Finalize(c) \/ Drop(c)
  <2>1. \E p \in StreamPlaces :
          \/ \E r : call' = [call EXCEPT ![c].pc = p, ![c].res = r]
          \/ \E n : call' = [call EXCEPT ![c].pc = p, ![c].n = n, ![c].todo = n]
          \/ call' = [call EXCEPT ![c].pc = p, ![c].next = "join"]
          \/ call' = [call EXCEPT ![c].pc = p]
    BY <1>2, Zenon DEF Write, Finalize, Drop, Returns, Go, StreamPlaces
  <2>2. call'[c].pc \in StreamPlaces /\ Alone(c)
    <3>1. PICK p \in StreamPlaces :
          \/ \E r : call' = [call EXCEPT ![c].pc = p, ![c].res = r]
          \/ \E n : call' = [call EXCEPT ![c].pc = p, ![c].n = n, ![c].todo = n]
          \/ call' = [call EXCEPT ![c].pc = p, ![c].next = "join"]
          \/ call' = [call EXCEPT ![c].pc = p]
      BY <2>1
    <3>2. call[c] \in CallRecords /\ c \in DOMAIN call /\ DOMAIN call = Callers BY CallParts DEF CallType
    <3>3. call'[c].pc = p BY <3>1, <3>2, Zenon DEF CallRecords
    <3>4. Alone(c) BY <3>1, <3>2 DEF Alone
    <3>5. QED BY <3>3, <3>4
  <2>3. strm' = strm /\ conf' = conf BY <1>2 DEF Write, Finalize, Drop
  <2>4. call[c].pc = "user" BY <1>2 DEF Write, Finalize, Drop, Does, At
  <2>5. QED BY <2>2, <2>3, <2>4, Zenon DEF Others, StreamPlaces
<1>3. CASE Fill(c)
  <2>1. call'[c].pc \in StreamPlaces /\ Alone(c) BY <1>3, CallParts DEF CallType, CallRecords, Fill, StreamPlaces, Alone
  <2>2. QED BY <1>3, <2>1 DEF Fill, SetStream, Others, At, StreamPlaces
<1>4. CASE WaitForSlot(c) \/ Submit(c)
  <2>1. call' = call \/ \E p \in StreamPlaces : \E r : call' = [call EXCEPT ![c].pc = p, ![c].res = r] \/ call' = [call EXCEPT ![c].pc = p]
    BY <1>4 DEF WaitForSlot, Submit, WriteFails, Returns, Go, StreamPlaces
  <2>2. call[c].pc = "slot" BY <1>4 DEF WaitForSlot, Submit, At
  <2>3. call'[c].pc \in StreamPlaces /\ Alone(c) BY <2>1, <2>2, CallParts DEF CallType, CallRecords, Alone, StreamPlaces
  <2>4. \E t : strm' = [strm EXCEPT ![c] = t] BY <1>4 DEF WaitForSlot, Submit, WriteFails, SetStream
  <2>5. conf' = conf BY <1>4 DEF WaitForSlot, Submit
  <2>6. QED BY <2>2, <2>3, <2>4, <2>5 DEF Others, StreamPlaces, StreamsType
<1>5. CASE SendTail(c) \/ WaitAll(c)
  <2>1. \E p \in StreamPlaces : \E r, q : \/ call' = [call EXCEPT ![c].pc = p, ![c].res = r] \/ call' = [call EXCEPT ![c].pc = p]
                                    \/ call' = [call EXCEPT ![c].pc = p, ![c].res = r, ![c].next = q]
    BY <1>5, Zenon DEF SendTail, WaitAll, Returns, Go, StreamPlaces
  <2>2. call'[c].pc \in StreamPlaces /\ Alone(c) BY <2>1, CallParts DEF CallType, CallRecords, Alone
  <2>3. \E t : strm' = [strm EXCEPT ![c] = t] BY <1>5 DEF SendTail, WaitAll, SetStream
  <2>4. conf' = conf /\ call[c].pc \in {"tail", "waitall"} BY <1>5 DEF SendTail, WaitAll, At
  <2>5. QED BY <2>2, <2>3, <2>4, Zenon DEF Others, StreamPlaces, StreamsType
<1>6. CASE Commit(c)
  <2>1. \E r : Returns(c, r) BY <1>6 DEF Commit, S3Complete, AzureCommitBlockList, GcsFinalizeUpload
  <2>2. call'[c].pc \in StreamPlaces /\ Alone(c) BY <2>1, CallParts DEF CallType, CallRecords, Alone, Returns, StreamPlaces
  <2>3. QED BY <1>6, <2>2 DEF Commit, At, Others, StreamPlaces
<1>7. CASE Abort(c) \/ S3AbortMultipart(c)
  <2>1. \E p \in StreamPlaces : \E r, q : \/ call' = [call EXCEPT ![c].pc = p, ![c].res = r] \/ call' = [call EXCEPT ![c].pc = p]
                                    \/ call' = [call EXCEPT ![c].pc = p, ![c].res = r, ![c].next = q]
    BY <1>0, <1>7, Zenon DEF Abort, S3AbortMultipart, Returns, Go, StreamPlaces
  <2>2. call'[c].pc \in StreamPlaces /\ Alone(c) BY <2>1, CallParts DEF CallType, CallRecords, Alone
  <2>3. strm' = strm \/ strm' = [strm EXCEPT ![c].abt = TRUE] BY <1>7 DEF Abort, S3AbortMultipart
  <2>4. conf' = conf /\ call[c].pc \in {"user", "undo"} BY <1>7 DEF Abort, S3AbortMultipart, Does, At
  <2>5. QED BY <2>2, <2>3, <2>4, Zenon DEF Others, StreamPlaces, StreamsType
<1>8. CASE Join(c)
  <2>1. call'[c] = NoCall /\ Alone(c) BY <1>8 DEF CallType, Join, Alone
  <2>2. strm'[c] = NewStream /\ Others(c) BY <1>8 DEF StreamsType, Join, SetStream, Others
  <2>3. QED BY <1>8, <2>1, <2>2 DEF Join, At, StreamPlaces
<1>9. QED BY <1>1, <1>2, <1>3, <1>4, <1>5, <1>6, <1>7, <1>8 DEF StreamStep

\* The calls of a stream have results of their own.
LEMMA StreamsDoNotList ==
  ASSUME CallType, NEW c \in Callers, StreamStep(c), call[c].res # "listed" PROVE call'[c].res # "listed"
<1>0. call[c] \in CallRecords /\ c \in DOMAIN call BY CallParts DEF CallType
<1>1. ASSUME NEW r, r # "listed", Returns(c, r) PROVE call'[c].res # "listed"
  BY <1>0, <1>1 DEF Returns, CallRecords
<1>2. ASSUME NEW p, Go(c, p) PROVE call'[c].res # "listed"
  BY <1>0, <1>2 DEF Go, CallRecords
<1>3. ASSUME call' = [call EXCEPT ![c] = NoCall] PROVE call'[c].res # "listed"
  BY <1>0, <1>3 DEF NoCall
<1>4. CASE OpenStream(c) BY <1>1, <1>3, <1>4 DEF OpenStream
<1>5. CASE Write(c)
  <2>1. Returns(c, "closed") \/ \E n : call' = [call EXCEPT ![c].pc = "fill", ![c].n = n, ![c].todo = n] BY <1>5 DEF Write
  <2>2. QED BY <1>0, <1>1, <2>1 DEF CallRecords
<1>6. CASE Fill(c)
  <2>1. \E t, p, over : call' = [call EXCEPT ![c].todo = t, ![c].pc = p, ![c].res = IF over THEN "written" ELSE @] BY <1>6 DEF Fill
  <2>2. QED BY <1>0, <2>1 DEF CallRecords
<1>7. CASE WaitForSlot(c) \/ Submit(c) BY <1>1, <1>2, <1>7 DEF WaitForSlot, Submit, WriteFails
<1>8. CASE Finalize(c) BY <1>1, <1>2, <1>8 DEF Finalize
<1>9. CASE SendTail(c) \/ WaitAll(c)
  <2>1. \/ Returns(c, "failed") \/ Go(c, "waitall") \/ Go(c, "commit")
        \/ call' = [call EXCEPT ![c].pc = "undo", ![c].res = "failed", ![c].next = "user"]
    BY <1>9 DEF SendTail, WaitAll
  <2>2. QED BY <1>0, <1>1, <1>2, <2>1 DEF CallRecords
<1>10. CASE Commit(c)
  <2>1. CASE \E f \in Fates : S3Complete(c, f) BY <1>1, <2>1 DEF S3Complete
  <2>2. CASE \E f \in Fates : AzureCommitBlockList(c, f)
    <3>1. Returns(c, "stored") \/ Returns(c, "failed") BY <2>2 DEF AzureCommitBlockList
    <3>2. QED BY <1>1, <3>1
  <2>3. CASE GcsFinalizeUpload(c) BY <1>1, <2>3 DEF GcsFinalizeUpload
  <2>4. QED BY <1>10, <2>1, <2>2, <2>3 DEF Commit
<1>11. CASE Abort(c)
  <2>1. \/ Returns(c, "aborted")
        \/ call' = [call EXCEPT ![c].pc = "undo", ![c].res = "aborted", ![c].next = "user"]
    BY <1>11 DEF Abort
  <2>2. QED BY <1>0, <1>1, <2>1 DEF CallRecords
<1>12. CASE S3AbortMultipart(c) BY <1>2, <1>12 DEF S3AbortMultipart
<1>13. CASE Drop(c)
  <2>1. \E p : call' = [call EXCEPT ![c].pc = p, ![c].next = "join"] BY <1>13 DEF Drop
  <2>2. QED BY <1>0, <2>1 DEF CallRecords
<1>14. CASE Join(c) BY <1>3, <1>14 DEF Join
<1>15. QED BY <1>4, <1>5, <1>6, <1>7, <1>8, <1>9, <1>10, <1>11, <1>12, <1>13, <1>14 DEF StreamStep

-----------------------------------------------------------------------------
(* The types, and that parts under way belong to a stream in use. *)
Base == Types /\ Owns

LEMMA InitBase == Init => Base
<1> SUFFICES ASSUME Init PROVE Base OBVIOUS
<1>1. conf \in ScenarioType BY Constants DEF Init
<1>2. bucket \in Maps(Keys)
  <2>1. conf.full \in SUBSET Keys BY <1>1, ConfParts
  <2>2. \A k \in conf.full : Units("old", k + 1) \in Data
    <3>1. TAKE k \in conf.full
    <3>2. k + 1 \in Nat BY <2>1, Constants
    <3>3. QED BY <3>2, UnitsType
  <2>3. bucket = [k \in conf.full |-> Units("old", k + 1)] BY DEF Init
  <2>4. bucket \in [conf.full -> Data] BY <2>2, <2>3
  <2>5. QED BY <2>1, <2>4 DEF Maps
<1>3. blocks \in [Keys -> Maps(Nat)] BY EmptyMap DEF Init
<1>4. uploads \in [Callers -> UploadRecords]
  <2>1. <<>> \in Maps(Nat) BY EmptyMap
  <2>2. NoUpload \in UploadRecords BY <2>1 DEF NoUpload, UploadRecords
  <2>3. QED BY <2>2 DEF Init
<1>5. StreamsType BY NewStreamType DEF Init, StreamsType
<1>6. CallType BY NoCallType DEF Init, CallType
<1>7. Owns BY DEF Init, Owns, NewStream
<1>8. QED BY <1>1, <1>2, <1>3, <1>4, <1>5, <1>6, <1>7 DEF Base, Types, StreamsType

LEMMA CallStepType == ASSUME Types, NEW c \in Callers, CallStep(c) PROVE Types'
BY BeginType, LoadFileType, TokenForType, SmallStepsType, SendType, OpenDownloadType, ReadRangeType DEF CallStep

LEMMA StreamStepType == ASSUME Types, NEW c \in Callers, StreamStep(c) PROVE Types'
BY OpenStreamType, WriteType, FillType, WaitForSlotType, SubmitType, FinalizeType, SendTailType, WaitAllType,
   CommitType, AbortType, S3AbortType, DropType, JoinType
DEF StreamStep

LEMMA NextKeepsBase == Base /\ [Next]_storageVars => Base'
<1> SUFFICES ASSUME Base, [Next]_storageVars PROVE Base' OBVIOUS
<1>0. Types /\ Owns /\ CallType /\ StreamsType BY DEF Base, Types, StreamsType
<1>1. ASSUME NEW c \in Callers, CallStep(c) PROVE Base'
  <2>1. Types' BY <1>0, <1>1, CallStepType
  <2>2. Alone(c) /\ call[c].pc \notin StreamPlaces /\ strm' = strm BY <1>0, <1>1, CallStepIs
  <2>3. Owns' BY <1>0, <2>2 DEF Owns, Alone
  <2>4. QED BY <2>1, <2>3 DEF Base
<1>2. ASSUME NEW c \in Callers, StreamStep(c) PROVE Base'
  <2>1. Types' BY <1>0, <1>2, StreamStepType
  <2>2. /\ Alone(c)
        /\ call'[c].pc \in StreamPlaces \/ (call'[c] = NoCall /\ (OpenStream(c) \/ strm'[c] = NewStream))
        /\ OpenStream(c) \/ Others(c)
    BY <1>0, <1>2, StreamStepIs
  <2>3. ASSUME NEW d \in Callers \ {c} PROVE strm'[d].pend = strm[d].pend
    <3>1. CASE Others(c) BY <3>1 DEF Others
    <3>2. CASE OpenStream(c)
      <4>1. \/ strm' = strm \/ \E t : strm' = [strm EXCEPT ![c] = t]
            \/ AzureOpen(c)
        BY <3>2 DEF OpenStream, S3InitiateMultipart, SetStream
      <4>2. CASE AzureOpen(c)
        <5>1. strm'[d] = [strm[d] EXCEPT !.shared = @ \/ d \in {e \in Callers \ {c} : Streaming(e) /\ call[e].key = call[c].key}]
          BY <4>2 DEF AzureOpen
        <5>2. strm[d] \in Streams BY <1>0 DEF StreamsType, IsStream
        <5>3. QED BY <5>1, <5>2 DEF Streams
      <4>3. QED BY <1>0, <4>1, <4>2 DEF StreamsType
    <3>3. QED BY <2>2, <3>1, <3>2
  <2>4. ASSUME call'[c].pc \notin StreamPlaces PROVE strm'[c].pend = <<>>
    <3>1. CASE strm'[c] = NewStream BY <3>1 DEF NewStream
    <3>2. CASE OpenStream(c)
      <4>1. state # "connected" BY <1>0, <2>4, <3>2, CallParts DEF OpenStream, Returns, CallType, CallRecords, StreamPlaces
      <4>2. strm' = strm /\ call[c].pc \notin StreamPlaces BY <3>2, <4>1 DEF OpenStream, At, StreamPlaces
      <4>3. QED BY <1>0, <4>2 DEF Owns
    <3>3. QED BY <2>2, <2>4, <3>1, <3>2
  <2>5. Owns' BY <1>0, <2>2, <2>3, <2>4 DEF Owns, Alone
  <2>6. QED BY <2>1, <2>5 DEF Base
<1>3. ASSUME NEW c \in Callers, PartDone(c) PROVE Base'
  <2>1. Types' BY <1>0, <1>3, PartDoneType, Zenon
  <2>2. call' = call /\ Others(c) BY <1>0, <1>3 DEF PartDone, Others, StreamsType
  <2>3. call[c].pc \in StreamPlaces
    <3>1. strm[c].pend # <<>> BY <1>3 DEF PartDone, In
    <3>2. QED BY <1>0, <3>1 DEF Owns
  <2>4. Owns' BY <1>0, <2>2, <2>3 DEF Owns, Others
  <2>5. QED BY <2>1, <2>4 DEF Base
<1>4. CASE Around \/ UNCHANGED storageVars
  <2>1. UNCHANGED <<conf, bucket, uploads, blocks, strm, call>>
    BY <1>4 DEF Around, EnvironmentChanges, Refresh, Expire, storageVars, streamVars
  <2>2. Types' BY <1>0, <2>1 DEF Types, CallType
  <2>3. QED BY <1>0, <2>1, <2>2 DEF Base, Owns
<1>5. QED BY <1>1, <1>2, <1>3, <1>4 DEF Next, Steps, Parts

\* Buckets, uploads, blocks, streams and calls stay of their types, whatever the
\* provider answers, and parts are under way only for a stream that is in use.
THEOREM BaseHolds == Spec => []Base
<1>1. QED BY InitBase, NextKeepsBase, PTL DEF Spec

-----------------------------------------------------------------------------
(* What a call is given, for the listings and the download streams. *)
Begun(x)  == x.got = <<>> /\ x.todo = 0 /\ x.seen = {} /\ x.pc # "read" /\ x.res \notin {"listed", "read"}
\* y is x but for its place and its result
Moved(x, y) ==
  /\ y.op = x.op /\ y.key = x.key /\ y.got = x.got /\ y.seen = x.seen /\ y.todo = x.todo
  /\ y.pc \in {"check", "token", "send"} => x.pc \in {"check", "token"} \/ x.op \in Uploads
  /\ y.pc \notin {"head", "stub", "read"}
  /\ y.res \notin {"listed", "read"} \/ (y.res = x.res /\ x.pc # "end" /\ y.pc # "end")
Listed(c, x, y) ==
  /\ x.op = "list" /\ x.pc = "send" /\ bucket' = bucket
  /\ \E p \in Pages(c) :
       /\ y.op = "list" /\ y.seen = x.seen \cup p /\ y.todo = Max(p \cup {0})
       /\ y.pc = IF Truncated(c, p) THEN "check" ELSE "end"
Opened(x, y) ==
  /\ x.pc = "head" /\ bucket' = bucket /\ There(x.key)
  /\ y.op = x.op /\ y.key = x.key /\ y.got = x.got /\ y.pc = "read" /\ y.n = Len(bucket[x.key]) /\ y.res = x.res
WasRead(x, y) ==
  /\ x.pc = "read" /\ x.op = "read" /\ bucket' = bucket
  /\ y.op = x.op /\ y.key = x.key /\ y.n = x.n
  /\ \/ y.got = x.got /\ Len(x.got) >= x.n /\ y.pc = "end" /\ y.res = "read"
     \/ /\ y.pc = "read" /\ y.res = x.res /\ There(x.key) /\ Len(x.got) < x.n /\ Len(x.got) < Len(bucket[x.key])
        /\ \E e \in Nat : /\ Len(x.got) <= e /\ e < x.n /\ e < Len(bucket[x.key])
                          /\ y.got = x.got \o SubSeq(bucket[x.key], Len(x.got) + 1, e + 1)

Counted(x, y) ==
  /\ x.op # "list" /\ y.op = x.op /\ y.key = x.key /\ y.got = x.got
  /\ \/ y.pc = "check" /\ y.res = x.res /\ x.pc # "end"
     \/ y.pc = "end" /\ y.res = "done"
Gives(c, x, y) ==
  \/ y = x \/ y = NoCall
  \/ x.pc = "idle" /\ Begun(y)
  \/ Moved(x, y) \/ Counted(x, y)
  \/ x.op \notin {"list", "read"} /\ y.op = x.op /\ y.res # "listed"
  \/ Listed(c, x, y) \/ Opened(x, y) \/ WasRead(x, y)

LEMMA EndsMoves ==
  ASSUME CallType, NEW c \in Callers, NEW r, r \notin {"listed", "read"}, EndsWith(c, r) PROVE Moved(call[c], call'[c])
BY CallParts DEF EndsWith, CallType, CallRecords, Moved

LEMMA GoMoves ==
  ASSUME CallType, NEW c \in Callers, NEW p, p \notin {"head", "stub", "read", "end"}, Go(c, p), call[c].pc # "end",
         p \in {"check", "token", "send"} => call[c].pc \in {"check", "token"} \/ call[c].op \in Uploads
  PROVE  Moved(call[c], call'[c])
BY CallParts DEF Go, CallType, CallRecords, Moved

LEMMA NextKeyCounts ==
  ASSUME CallType, NEW c \in Callers, NEW g, NextKey(c, g), call[c].op # "list", call[c].pc # "end" PROVE Counted(call[c], call'[c])
<1> DEFINE c1 == [call[c] EXCEPT !.todo = @ + 1, !.seen = @ \cup g]
<1>1. call[c] \in CallRecords BY CallParts
<1>2. c1.op = call[c].op /\ c1.key = call[c].key /\ c1.got = call[c].got /\ c1.res = call[c].res /\ DOMAIN c1 = DOMAIN call[c] BY <1>1 DEF CallRecords
<1> HIDE DEF c1
<1> DEFINE y1 == [c1 EXCEPT !.pc = "end", !.res = "done"]
<1> DEFINE y2 == [c1 EXCEPT !.pc = "check"]
<1>3. /\ y1.op = c1.op /\ y1.key = c1.key /\ y1.got = c1.got /\ y1.pc = "end" /\ y1.res = "done"
      /\ y2.op = c1.op /\ y2.key = c1.key /\ y2.got = c1.got /\ y2.pc = "check" /\ y2.res = c1.res
  BY <1>1, <1>2 DEF CallRecords
<1>4. call'[c] \in {y1, y2} BY DEF NextKey, c1, CallType
<1> HIDE DEF y1, y2
<1>5. QED BY <1>2, <1>3, <1>4 DEF Counted

LEMMA BeginBegins == ASSUME Types, NEW c \in Callers, Begin(c) PROVE call[c].pc = "idle" /\ (call'[c] = call[c] \/ Begun(call'[c]))
<1>1. conf \in ScenarioType /\ CallType BY DEF Types
<1>2. PICK op \in conf.calls : Begins(c, op) BY DEF Begin
<1>3. op \in CallNames /\ call[c].pc = "idle" BY <1>1, <1>2, ConfParts DEF Begin, At
<1>4. CASE op = "connect" /\ Connecting(c)
  <2>1. call'[c] = [NoCall EXCEPT !.op = "connect", !.pc = "access"] BY <1>1, <1>4 DEF Connecting, CallType
  <2>2. Begun(call'[c]) BY <2>1 DEF Begun, NoCall
  <2>3. QED BY <1>3, <2>2
<1>5. CASE call' = [call EXCEPT ![c] = [NoCall EXCEPT !.op = op, !.pc = "end", !.res = IF Presigns THEN "signed" ELSE "failed"]]
  <2>1. call'[c] = [NoCall EXCEPT !.op = op, !.pc = "end", !.res = IF Presigns THEN "signed" ELSE "failed"] BY <1>1, <1>5 DEF CallType
  <2>2. Begun(call'[c]) BY <2>1 DEF Begun, NoCall
  <2>3. QED BY <1>3, <2>2
<1>6. ASSUME op \notin {"connect", "disconnect", "presign"},
             NEW k \in conf.keys, NEW j \in IF op \in {"copy", "compose"} THEN conf.keys ELSE {1},
             NEW n \in IF op \in {"upload", "upload_file"} THEN conf.sizes ELSE {0},
             call' = [call EXCEPT ![c] = [NoCall EXCEPT !.op = op, !.key = k, !.to = j, !.n = n, !.pc = Goes(op, n)]]
      PROVE  Begun(call'[c])
  <2>1. n \in Nat BY <1>1, ConfParts
  <2>2. Goes(op, n) \notin {"read", "end"} BY <1>1, <1>3, <1>6, <2>1, GoesTo
  <2>3. call'[c] = [NoCall EXCEPT !.op = op, !.key = k, !.to = j, !.n = n, !.pc = Goes(op, n)] BY <1>1, <1>6 DEF CallType
  <2>4. Begun(call'[c]) BY <2>2, <2>3 DEF Begun, NoCall
  <2>5. QED BY <2>4
<1>7. QED BY <1>2, <1>3, <1>4, <1>5, <1>6 DEF Begins, Disconnect

LEMMA BeginGives == ASSUME Types, NEW c \in Callers, Begin(c) PROVE Gives(c, call[c], call'[c])
BY BeginBegins DEF Gives

LEMMA GivesMoved == ASSUME NEW c, NEW x, NEW y, Moved(x, y) PROVE Gives(c, x, y)
BY DEF Gives

LEMMA SmallStepsGive ==
  ASSUME Types, NEW c \in Callers,
         LoadFile(c) \/ TokenFor(c) \/ AzurePretends(c) \/ StubStream(c) \/ Connect(c) \/ CheckAgain(c) \/ SaveFile(c) \/ End(c)
  PROVE  Gives(c, call[c], call'[c])
<1>0. CallType /\ conf \in ScenarioType BY DEF Types
<1>1. ASSUME NEW r \in {"copied", "made up", "empty", "done", "saved", "failed"}, EndsWith(c, r) PROVE Gives(c, call[c], call'[c])
  BY <1>0, <1>1, EndsMoves, GivesMoved
<1>2. Fails(c) => Gives(c, call[c], call'[c]) BY <1>1 DEF Fails
<1>3. ASSUME NextKey(c, {}), call[c].op # "list", call[c].pc # "end" PROVE Gives(c, call[c], call'[c])
  BY <1>0, <1>3, NextKeyCounts DEF Gives
<1>4. CASE LoadFile(c)
  <2>1. CASE Fails(c) BY <1>2, <2>1
  <2>2. CASE Go(c, UploadGoes(call[c].n))
    <3>1. call[c].n \in Nat /\ call[c].op \in Uploads /\ call[c].pc # "end" BY <1>0, <1>4, CallParts, SomePlaces DEF LoadFile, At, CallHolds
    <3>2. UploadGoes(call[c].n) \in {"open", "send", "token", "pretend"} BY <1>0, <3>1, UploadGoesTo
    <3>3. QED BY <1>0, <2>2, <3>1, <3>2, GoMoves, GivesMoved
  <2>3. QED BY <1>4, <2>1, <2>2 DEF LoadFile
<1>5. CASE TokenFor(c)
  <2>1. call[c].pc = "token" BY <1>5 DEF TokenFor, At
  <2>2. Go(c, "send") => Gives(c, call[c], call'[c]) BY <1>0, <2>1, GoMoves, GivesMoved
  <2>3. TokenFails(c) => Gives(c, call[c], call'[c]) BY <1>2, <1>3, <2>1 DEF TokenFails
  <2>4. QED BY <1>5, <2>2, <2>3 DEF TokenFor
<1>6. CASE CheckAgain(c)
  <2>1. call[c].pc = "check" BY <1>6 DEF CheckAgain, At
  <2>2. Go(c, "send") \/ Go(c, "token") => Gives(c, call[c], call'[c]) BY <1>0, <2>1, GoMoves, GivesMoved
  <2>3. QED BY <1>2, <1>3, <1>6, <2>1, <2>2 DEF CheckAgain
<1>7. CASE AzurePretends(c) \/ StubStream(c) \/ Connect(c) \/ SaveFile(c)
  <2>1. \/ \E r \in {"copied", "made up", "empty", "done", "saved"} : EndsWith(c, r)
        \/ Fails(c)
    BY <1>7 DEF AzurePretends, StubStream, Connect, SaveFile
  <2>2. QED BY <1>1, <1>2, <2>1
<1>8. CASE End(c)
  <2>1. call'[c] = NoCall BY <1>0, <1>8 DEF End, CallType
  <2>2. QED BY <2>1 DEF Gives
<1>9. QED BY <1>4, <1>5, <1>6, <1>7, <1>8

LEMMA SendGives == ASSUME Types, NEW c \in Callers, Send(c) PROVE Gives(c, call[c], call'[c])
<1>0. CallType /\ call[c].pc = "send" /\ conf \in ScenarioType BY DEF Types, Send, At
<1>1. PICK f \in Fates :
        /\ Requests(Signed, f)
        /\ \/ PutObject(c, f) \/ GetObject(c, f) \/ DeleteObject(c, f) \/ DeleteNext(c, f)
           \/ Exists(c, f) \/ GetMetadata(c, f) \/ CopyObject(c, f) \/ ComposeObjects(c, f)
           \/ ListObjects(c, f)
  BY DEF Send
<1>2. CASE PutObject(c, f) \/ DeleteObject(c, f) \/ Exists(c, f) \/ GetMetadata(c, f) \/ CopyObject(c, f) \/ ComposeObjects(c, f)
  <2> DEFINE k == call[c].key
  <2>1. \E r : EndsWith(c, r) /\ r # "listed"
    <3>1. CASE PutObject(c, f)
      <4>1. S3Upload(f) # "listed" /\ GcsUpload(f) # "listed" BY DEF S3Upload, GcsUpload, Answered
      <4>2. QED BY <3>1, <4>1 DEF PutObject
    <3>2. CASE DeleteObject(c, f)
      <4>1. Deletes(k, f) # "listed" BY <1>0, ProviderIs DEF Deletes, By, S3Delete, GcsDelete, AzureDelete, Answered
      <4>2. QED BY <3>2, <4>1 DEF DeleteObject
    <3>3. CASE Exists(c, f)
      <4>1. By(S3Exists(k, f), GcsExists(k, f), AzureExists(k, f)) # "listed"
        BY <1>0, ProviderIs DEF By, S3Exists, GcsExists, AzureExists, Answered
      <4>2. QED BY <3>3, <4>1 DEF Exists
    <3>4. CASE GetMetadata(c, f)
      <4>1. By(S3Metadata(k, f), GcsMetadata(k, f), AzureMetadata(k, f)) # "listed"
        BY <1>0, ProviderIs DEF By, S3Metadata, GcsMetadata, AzureMetadata, Answered
      <4>2. QED BY <3>4, <4>1 DEF GetMetadata
    <3>5. CASE CopyObject(c, f) BY <3>5 DEF CopyObject, S3Copy, GcsCopy, Answered
    <3>6. CASE ComposeObjects(c, f) BY <3>6 DEF ComposeObjects, Answered
    <3>7. QED BY <1>2, <3>1, <3>2, <3>3, <3>4, <3>5, <3>6
  <2>2. call[c].op \notin {"list", "read"} BY <1>2 DEF PutObject, DeleteObject, Exists, GetMetadata, CopyObject, ComposeObjects
  <2>3. call'[c].op = call[c].op /\ call'[c].res # "listed" BY <1>0, <2>1, CallParts DEF EndsWith, CallType, CallRecords
  <2>4. QED BY <2>2, <2>3 DEF Gives
<1>3. CASE GetObject(c, f)
  <2> DEFINE k == call[c].key
  <2> DEFINE r == By(S3Download(k, f), GcsDownload(k, f), AzureDownload(k, f))
  <2>1. r # "listed" BY <1>0, ProviderIs DEF By, S3Download, GcsDownload, AzureDownload, Answered
  <2>2. \E g, p : call' = [call EXCEPT ![c].got = g, ![c].res = r, ![c].pc = p] BY <1>3 DEF GetObject
  <2> HIDE DEF r
  <2>3. call'[c].op = call[c].op /\ call'[c].res = r BY <1>0, <2>2, CallParts DEF CallType, CallRecords
  <2>4. call[c].op \notin {"list", "read"} BY <1>3 DEF GetObject
  <2>5. QED BY <2>1, <2>3, <2>4 DEF Gives
<1>4. CASE DeleteNext(c, f)
  <2>1. (\E g : NextKey(c, g)) /\ call[c].op = "delete_all" BY <1>4 DEF DeleteNext
  <2>2. QED BY <1>0, <2>1, NextKeyCounts DEF Gives
<1>5. CASE ListObjects(c, f)
  <2>1. CASE Fails(c) BY <1>0, <2>1, EndsMoves, GivesMoved DEF Fails
  <2>2. CASE ~Fails(c)
    <3>1. PICK p \in Pages(c) :
            LET c1 == [call[c] EXCEPT !.seen = @ \cup p, !.todo = Max(p \cup {0})]
            IN call' = [call EXCEPT ![c] = IF Truncated(c, p) THEN [c1 EXCEPT !.pc = "check"]
                                           ELSE [c1 EXCEPT !.pc = "end", !.res = "listed"]]
      BY <1>5, <2>2, Zenon DEF ListObjects
    <3> DEFINE t == Max(p \cup {0})
    <3> DEFINE trunc == Truncated(c, p)
    <3> HIDE DEF t, trunc
    <3> DEFINE c1 == [call[c] EXCEPT !.seen = @ \cup p, !.todo = t]
    <3>2. c1.seen = call[c].seen \cup p /\ c1.todo = t /\ c1.op = call[c].op /\ c1.res = call[c].res /\ DOMAIN c1 = DOMAIN call[c]
      BY <1>0, CallParts DEF CallRecords
    <3>3. call'[c] = IF trunc THEN [c1 EXCEPT !.pc = "check"] ELSE [c1 EXCEPT !.pc = "end", !.res = "listed"]
      BY <1>0, <3>1 DEF CallType, trunc, t
    <3> HIDE DEF c1
    <3> DEFINE y1 == [c1 EXCEPT !.pc = "check"]
    <3> DEFINE y2 == [c1 EXCEPT !.pc = "end", !.res = "listed"]
    <3>4. /\ y1.seen = c1.seen /\ y1.todo = c1.todo /\ y1.op = c1.op /\ y1.pc = "check"
          /\ y2.seen = c1.seen /\ y2.todo = c1.todo /\ y2.op = c1.op /\ y2.pc = "end"
      BY <1>0, <3>2, CallParts DEF CallRecords
    <3>5. call'[c] = IF trunc THEN y1 ELSE y2 BY <3>3, Zenon
    <3> HIDE DEF y1, y2
    <3>6. call[c].op = "list" /\ bucket' = bucket BY <1>5 DEF ListObjects
    <3>7. Listed(c, call[c], call'[c]) BY <1>0, <3>2, <3>4, <3>5, <3>6 DEF Listed, trunc, t
    <3>8. QED BY <3>7, Zenon DEF Gives
  <2>3. QED BY <2>1, <2>2
<1>6. QED BY <1>1, <1>2, <1>3, <1>4, <1>5

LEMMA OpenDownloadGives == ASSUME Types, NEW c \in Callers, OpenDownload(c) PROVE Gives(c, call[c], call'[c])
<1>0. CallType /\ call[c].pc = "head" BY DEF Types, OpenDownload, At
<1>1. \/ Fails(c)
      \/ bucket' = bucket /\ There(call[c].key) /\ call' = [call EXCEPT ![c].pc = "read", ![c].n = Len(bucket[call[c].key])]
  BY DEF OpenDownload
<1>2. CASE Fails(c) BY <1>0, <1>2, EndsMoves, GivesMoved DEF Fails
<1>3. CASE bucket' = bucket /\ There(call[c].key) /\ call' = [call EXCEPT ![c].pc = "read", ![c].n = Len(bucket[call[c].key])]
  <2> DEFINE n == Len(bucket[call[c].key])
  <2> HIDE DEF n
  <2>1. call' = [call EXCEPT ![c].pc = "read", ![c].n = n] BY <1>3 DEF n
  <2>2. /\ call'[c].op = call[c].op /\ call'[c].key = call[c].key /\ call'[c].got = call[c].got /\ call'[c].pc = "read"
        /\ call'[c].n = n /\ call'[c].res = call[c].res
    BY <1>0, <2>1, CallParts DEF CallType, CallRecords
  <2>3. Opened(call[c], call'[c]) BY <1>0, <1>3, <2>2, Zenon DEF Opened, n
  <2>4. QED BY <2>3 DEF Gives
<1>4. QED BY <1>1, <1>2, <1>3

LEMMA ReadRangeGives == ASSUME Types, NEW c \in Callers, ReadRange(c) PROVE Gives(c, call[c], call'[c])
<1> DEFINE k == call[c].key
<1> DEFINE start == Len(call[c].got)
<1>0. CallType /\ call[c].pc = "read" /\ bucket \in Maps(Keys) /\ call[c] \in CallRecords /\ call[c].op = "read"
  BY CallParts, Zenon DEF Types, ReadRange, At, CallHolds
<1>1. call[c].got \in Seq(Piece) /\ start \in Nat /\ call[c].n \in Nat BY <1>0, CallParts, LenProperties DEF Data
<1>2. CASE start >= call[c].n /\ EndsWith(c, "read") /\ OnlyCall
  <2>1. /\ call'[c].op = call[c].op /\ call'[c].key = call[c].key /\ call'[c].got = call[c].got /\ call'[c].pc = "end"
        /\ call'[c].n = call[c].n /\ call'[c].res = "read"
    BY <1>0, <1>2 DEF EndsWith, CallType, CallRecords
  <2>2. WasRead(call[c], call'[c]) BY <1>0, <1>2, <2>1 DEF WasRead, OnlyCall
  <2>3. QED BY <2>2 DEF Gives
<1>3. ASSUME start < call[c].n, NEW f \in Fates, NEW size \in BufferSizes,
             Requests(AzureDownloadSigned, f), UNCHANGED bucket,
             LET data == FetchRange(c, start, Min({RangeEnd(start, size, call[c].n), Len(bucket[k]) - 1}))
             IN IF f = "served" /\ There(k) /\ start < Len(bucket[k])
                THEN call' = [call EXCEPT ![c].got = @ \o SubSeq(data, 1, Min({Len(data), size}))]
                ELSE Fails(c)
      PROVE  Gives(c, call[c], call'[c])
  <2>1. CASE Fails(c) BY <1>0, <2>1, EndsMoves, GivesMoved DEF Fails
  <2>2. CASE There(k) /\ start < Len(bucket[k]) /\ ~Fails(c)
    <3> DEFINE o == bucket[k]
    <3> DEFINE e == Min({RangeEnd(start, size, call[c].n), Len(o) - 1})
    <3> DEFINE data == SubSeq(o, start + 1, e + 1)
    <3>1. o \in Data BY <1>0, <2>2, BucketParts DEF There
    <3>2. size \in Nat \ {0} BY Constants
    <3>3. /\ e \in Nat /\ start <= e /\ e < call[c].n /\ e < Len(o)
          /\ SubSeq(data, 1, Min({Len(data), size})) = data
      BY <1>1, <1>3, <2>2, <3>1, <3>2, FetchGives, Zenon
    <3>4. FetchRange(c, start, e) = data BY DEF FetchRange
    <3> DEFINE g == call[c].got \o data
    <3>5. call' = [call EXCEPT ![c].got = g] BY <1>3, <2>2, <3>3, <3>4, Zenon
    <3> HIDE DEF g
    <3>6. /\ call'[c].op = call[c].op /\ call'[c].key = call[c].key /\ call'[c].got = g /\ call'[c].pc = "read"
          /\ call'[c].n = call[c].n /\ call'[c].res = call[c].res
      BY <1>0, <3>5 DEF CallType, CallRecords
    <3>7. \E x \in Nat : /\ start <= x /\ x < call[c].n /\ x < Len(bucket[k])
                         /\ g = call[c].got \o SubSeq(bucket[k], start + 1, x + 1)
      <4> HIDE DEF e
      <4>1. g = call[c].got \o SubSeq(bucket[k], start + 1, e + 1) BY DEF g
      <4>2. QED BY <3>3, <4>1
    <3>8. WasRead(call[c], call'[c])
      <4> HIDE DEF e, data
      <4>1. QED BY <1>0, <1>3, <2>2, <3>6, <3>7, Zenon DEF WasRead
    <3>9. QED BY <3>8 DEF Gives
  <2>3. QED BY <1>3, <2>1, <2>2
<1>4. QED BY <1>2, <1>3, Zenon DEF ReadRange

LEMMA CallStepGives ==
  ASSUME Types, NEW c \in Callers, CallStep(c)
  PROVE  /\ Gives(c, call[c], call'[c])
         /\ call[c].pc = "idle" => call'[c] = call[c] \/ Begun(call'[c])
<1>1. Gives(c, call[c], call'[c])
  BY BeginGives, SmallStepsGive, SendGives, OpenDownloadGives, ReadRangeGives DEF CallStep
<1>2. ASSUME call[c].pc = "idle" PROVE Begin(c)
  BY <1>2 DEF CallStep, LoadFile, TokenFor, AzurePretends, StubStream, Connect, Send, CheckAgain, SaveFile, OpenDownload,
              ReadRange, End, At
<1>3. ASSUME call[c].pc = "idle" PROVE call'[c] = call[c] \/ Begun(call'[c]) BY <1>2, <1>3, BeginBegins
<1>4. QED BY <1>1, <1>3

-----------------------------------------------------------------------------
(* Listings and download streams.  A listing has seen every key below its   *)
(* place whose object was there all the while; a download stream has read   *)
(* the beginning of the object, whose size is the one it asked for, if the  *)
(* object was not replaced.                                                 *)
ListHolds(x, keys) ==
  /\ x.op = "list" /\ x.pc \in {"check", "token", "send"} => \A k \in keys : k <= x.todo => k \in x.seen
  /\ x.pc = "end" /\ x.res = "listed" => keys \subseteq x.seen
  /\ x.res = "listed" => x.op = "list"

ReadHolds(x, keys, objects) ==
  (x.op = "read" /\ x.key \in keys) =>
    /\ IsPrefix(x.got, objects[x.key])
    /\ x.pc = "read" => x.n = Len(objects[x.key])
    /\ x.res = "read" => x.pc = "end" /\ x.got = objects[x.key]

Reads == \A c \in Callers : ListHolds(call[c], since[c]) /\ ReadHolds(call[c], since[c], bucket)
Since == \A c \in Callers : since[c] \subseteq DOMAIN bucket

CloudInv == Base /\ Since /\ Reads

\* What a step leaves of a caller's history.
LEMMA Observed ==
  ASSUME Since, Observe, NEW c \in Callers
  PROVE  /\ since'[c] \subseteq DOMAIN bucket' /\ since'[c] \subseteq DOMAIN bucket
         /\ \A k \in since'[c] : bucket'[k] = bucket[k]
         /\ call'[c].pc = "idle" => since'[c] = {}
         /\ call[c].pc # "idle" => since'[c] \subseteq since[c]
BY DEF Observe, Since, At

LEMMA SinceKept == ASSUME Since, Observe PROVE Since'
BY Observed DEF Since

LEMMA ListLess == ASSUME NEW x, NEW a, NEW b \in SUBSET a, ListHolds(x, a) PROVE ListHolds(x, b)
BY DEF ListHolds

\* A call that the step leaves alone.
LEMMA Untouched ==
  ASSUME Since, Observe, NEW c \in Callers, call'[c] = call[c], ListHolds(call[c], since[c]), ReadHolds(call[c], since[c], bucket)
  PROVE  ListHolds(call'[c], since'[c]) /\ ReadHolds(call'[c], since'[c], bucket')
<1>1. CASE call[c].pc = "idle"
  <2>1. since'[c] = {} BY <1>1, Observed
  <2>2. call[c].pc # "end" BY <1>1
  <2>3. QED BY <1>1, <2>1, <2>2 DEF ListHolds, ReadHolds
<1>2. CASE call[c].pc # "idle"
  <2>1. since'[c] \subseteq since[c] /\ \A k \in since'[c] : bucket'[k] = bucket[k] BY <1>2, Observed
  <2>2. ListHolds(call[c], since'[c]) BY <2>1, ListLess
  <2>3. ReadHolds(call[c], since'[c], bucket') BY <2>1 DEF ReadHolds
  <2>4. QED BY <2>2, <2>3
<1>3. QED BY <1>1, <1>2

\* A page adds the keys that follow the ones seen.
LEMMA PageAdds ==
  ASSUME Types, NEW c \in Callers, NEW keys \in SUBSET (DOMAIN bucket), NEW y,
         ListHolds(call[c], keys), Listed(c, call[c], y)
  PROVE  ListHolds(y, keys)
<1>0. conf \in ScenarioType /\ bucket \in Maps(Keys) /\ call[c].todo \in Nat BY CallParts DEF Types
<1>1. PICK p \in Pages(c) :
        /\ y.op = "list" /\ y.seen = call[c].seen \cup p /\ y.todo = Max(p \cup {0})
        /\ y.pc = IF Truncated(c, p) THEN "check" ELSE "end"
  BY DEF Listed
<1>2. p \in SUBSET (DOMAIN bucket) /\ p \in SUBSET Nat /\ keys \subseteq Nat \ {0}
  BY <1>0, <1>1, BucketParts, Constants DEF Pages, RestOfList
<1>3. \A k \in keys : k <= call[c].todo => k \in call[c].seen BY DEF ListHolds, Listed
<1>4. \A k \in keys : k > call[c].todo => k \in RestOfList(c) BY DEF RestOfList
<1> DEFINE t == Max(p \cup {0})
<1>5. t \in p \cup {0}
  <2>1. \A x \in p : x <= Cardinality(Keys)
    BY <1>0, <1>2, BucketParts, Constants
  <2>2. QED BY <1>2, <2>1, MaxIs, Constants
<1> HIDE DEF t
<1>6. ASSUME NEW k \in keys, k <= t PROVE k \in y.seen
  <2>1. t \in p BY <1>2, <1>5, <1>6
  <2>2. CASE k <= call[c].todo BY <1>1, <1>3, <2>2
  <2>3. CASE k > call[c].todo
    <3>1. k \in RestOfList(c) BY <1>4, <2>3
    <3>2. k = t \/ k < t BY <1>2, <1>6, <2>1
    <3>3. k \in p BY <2>1, <3>1, <3>2 DEF Pages
    <3>4. QED BY <1>1, <3>3
  <2>4. QED BY <1>0, <1>2, <2>2, <2>3
<1>7. ASSUME y.pc = "end" PROVE keys \subseteq y.seen
  <2>1. ~Truncated(c, p) BY <1>1, <1>7
  <2>2. p = RestOfList(c)
    BY <1>0, <2>1, ProviderIs DEF Truncated, By, S3Truncated, GcsTruncated, AzureTruncated, NextToken
  <2>3. \A k \in keys : k <= call[c].todo \/ k > call[c].todo BY <1>0, <1>2
  <2>4. QED BY <1>1, <1>3, <1>4, <2>2, <2>3
<1>8. y.todo = t BY <1>1 DEF t
<1>9. QED BY <1>1, <1>6, <1>7, <1>8 DEF ListHolds

LEMMA PrefixElements ==
  ASSUME NEW S, NEW s \in Seq(S), NEW t \in Seq(S)
  PROVE  IsPrefix(s, t) <=> Len(s) <= Len(t) /\ \A i \in 1..Len(s) : s[i] = t[i]
<1>1. /\ Len(s) \in Nat /\ \A i \in 1..Len(s) : s[i] \in S
      /\ Len(t) \in Nat /\ \A i \in 1..Len(t) : t[i] \in S
  BY LenProperties
<1>2. SUFFICES ASSUME Len(s) <= Len(t) PROVE IsPrefix(s, t) <=> \A i \in 1..Len(s) : s[i] = t[i]
  BY DEF IsPrefix
<1> DEFINE a == SubSeq(s, 1, Len(s))
<1> DEFINE b == SubSeq(t, 1, Len(s))
<1>3. a \in Seq(S) /\ Len(a) = Len(s) /\ \A i \in 1..Len(s) : a[i] = s[i]
  <2>1. /\ a \in Seq(S) /\ Len(a) = (IF 1 <= Len(s) THEN Len(s) - 1 + 1 ELSE 0)
        /\ \A i \in 1 .. Len(s) - 1 + 1 : a[i] = s[1 + i - 1]
    BY <1>1, SubSeqProperties
  <2>2. QED BY <1>1, <2>1
<1>4. b \in Seq(S) /\ Len(b) = Len(s) /\ \A i \in 1..Len(s) : b[i] = t[i]
  <2>1. \A i \in 1..Len(s) : t[i] \in S BY <1>1, <1>2
  <2>2. /\ b \in Seq(S) /\ Len(b) = (IF 1 <= Len(s) THEN Len(s) - 1 + 1 ELSE 0)
        /\ \A i \in 1 .. Len(s) - 1 + 1 : b[i] = t[1 + i - 1]
    BY <1>1, <2>1, SubSeqProperties
  <2>3. QED BY <1>1, <2>2
<1>5. IsPrefix(s, t) <=> a = b BY <1>2 DEF IsPrefix
<1> HIDE DEF a, b
<1>6. a = b <=> \A i \in 1..Len(s) : a[i] = b[i] BY <1>3, <1>4, SeqEqual
<1>7. QED BY <1>3, <1>4, <1>5, <1>6

LEMMA EmptyPrefix == ASSUME NEW S, NEW t \in Seq(S) PROVE IsPrefix(<<>>, t)
<1>1. Len(<<>>) = 0 /\ Len(t) \in Nat BY EmptySeq, LenProperties
<1>2. SubSeq(<<>>, 1, 0) = <<>> /\ SubSeq(t, 1, 0) = <<>> BY SubSeqEmpty
<1>3. QED BY <1>1, <1>2 DEF IsPrefix

\* A read adds what follows what was read.
LEMMA PrefixAdds ==
  ASSUME NEW o \in Data, NEW g \in Data, IsPrefix(g, o), NEW e \in Nat, Len(g) <= e, e < Len(o)
  PROVE  IsPrefix(g \o SubSeq(o, Len(g) + 1, e + 1), o)
<1>1. o \in Seq(Piece) /\ g \in Seq(Piece) /\ Len(g) \in Nat /\ Len(o) \in Nat BY LenProperties DEF Data
<1> DEFINE d == SubSeq(o, Len(g) + 1, e + 1)
<1>2. Len(g) <= Len(o) /\ \A i \in 1..Len(g) : g[i] = o[i] BY <1>1, PrefixElements
<1>3. d \in Seq(Piece) /\ Len(d) = e - Len(g) + 1 /\ \A i \in 1..Len(d) : d[i] = o[Len(g) + i]
  <2>1. Len(g) + 1 \in 1..Len(o)+1 /\ e + 1 \in Len(g)..Len(o) BY <1>1
  <2>2. \A i \in (Len(g)+1)..(e+1) : o[i] \in Piece BY <1>1
  <2>3. /\ d \in Seq(Piece) /\ Len(d) = (e + 1) - (Len(g) + 1) + 1
        /\ \A i \in 1 .. ((e + 1) - (Len(g) + 1) + 1) : d[i] = o[(Len(g) + 1) + i - 1]
    BY <1>1, <2>2, SubSeqProperties
  <2>4. QED BY <1>1, <2>3
<1> HIDE DEF d
<1> DEFINE h == g \o d
<1>4. h \in Seq(Piece) /\ Len(h) = e + 1 /\ \A i \in 1..Len(h) : h[i] = IF i <= Len(g) THEN g[i] ELSE d[i - Len(g)]
  BY <1>1, <1>3, ConcatProperties
<1>5. \A i \in 1..Len(h) : h[i] = o[i]
  <2>1. TAKE i \in 1..Len(h)
  <2>2. CASE i <= Len(g) BY <1>1, <1>2, <1>4, <2>2
  <2>3. CASE i > Len(g)
    <3>1. i - Len(g) \in 1..Len(d) BY <1>1, <1>3, <1>4, <2>3
    <3>2. d[i - Len(g)] = o[Len(g) + (i - Len(g))] BY <1>3, <3>1
    <3>3. Len(g) + (i - Len(g)) = i BY <1>1
    <3>4. h[i] = d[i - Len(g)] BY <1>1, <1>4, <2>3
    <3>5. QED BY <3>2, <3>3, <3>4
  <2>4. QED BY <1>1, <2>2, <2>3
<1> HIDE DEF h
<1>6. Len(h) <= Len(o) BY <1>1, <1>4
<1>7. IsPrefix(h, o) BY <1>1, <1>4, <1>5, <1>6, PrefixElements
<1>8. QED BY <1>7 DEF h, d

\* A step of a call of its own.
LEMMA CallStepReads ==
  ASSUME CloudInv, NEW c \in Callers, CallStep(c), Observe, Types'
  PROVE  ListHolds(call'[c], since'[c]) /\ ReadHolds(call'[c], since'[c], bucket')
<1>0. Types /\ Since /\ CallType /\ bucket \in Maps(Keys) /\ ListHolds(call[c], since[c]) /\ ReadHolds(call[c], since[c], bucket)
  BY DEF CloudInv, Base, Reads, Types
<1> DEFINE x == call[c]
<1> DEFINE y == call'[c]
<1>1. Gives(c, x, y) /\ (x.pc = "idle" => y = x \/ Begun(y)) BY <1>0, CallStepGives
<1>2. /\ since'[c] \subseteq DOMAIN bucket' /\ since'[c] \subseteq DOMAIN bucket
      /\ \A k \in since'[c] : bucket'[k] = bucket[k]
      /\ y.pc = "idle" => since'[c] = {}
      /\ x.pc # "idle" => since'[c] \subseteq since[c]
  BY <1>0, Observed
<1>3. x \in CallRecords /\ x.got \in Data /\ x.n \in Nat /\ x.todo \in Nat BY <1>0, CallParts
<1>4. \A k \in since'[c] : k \in Nat \ {0} /\ bucket[k] \in Data BY <1>0, <1>2, BucketParts, Constants
<1> DEFINE keys == since'[c]
<1> HIDE DEF x, y, keys
<1>5. CASE y = x BY <1>0, <1>5, Untouched DEF x, y
<1>6. CASE y = NoCall
  <2>1. ListHolds(y, keys) /\ ReadHolds(y, keys, bucket')
    <3>1. y.pc = "idle" /\ y.op = "none" /\ y.res = "none" BY <1>6 DEF NoCall
    <3>2. QED BY <3>1 DEF ListHolds, ReadHolds
  <2>2. QED BY <2>1 DEF y, keys
<1>7. CASE Begun(y)
  <2>1. ListHolds(y, keys) BY <1>4, <1>7 DEF ListHolds, Begun, keys
  <2>2. \A k \in keys : IsPrefix(<<>>, bucket'[k])
    <3>1. TAKE k \in keys
    <3>2. bucket'[k] \in Seq(Piece) BY <1>2, <1>4 DEF keys, Data
    <3>3. QED BY <3>2, EmptyPrefix
  <2>3. ReadHolds(y, keys, bucket') BY <1>7, <2>2 DEF ReadHolds, Begun
  <2>4. QED BY <2>1, <2>3 DEF y, keys
<1>8. ASSUME x.pc # "idle" PROVE ListHolds(y, keys) /\ ReadHolds(y, keys, bucket')
  <2>1. keys \subseteq since[c] BY <1>2, <1>8 DEF keys
  <2>2. ListHolds(x, keys) BY <1>0, <2>1, ListLess DEF x
  <2>3. ReadHolds(x, keys, bucket') /\ ReadHolds(x, keys, bucket) BY <1>0, <1>2, <2>1 DEF ReadHolds, x, keys
  <2>4. CASE Moved(x, y)
    <3>1. x.op \in Uploads => x.op # "list" BY DEF Uploads
    <3>2. ListHolds(y, keys) BY <2>2, <2>4, <3>1 DEF ListHolds, Moved
    <3>3. ReadHolds(y, keys, bucket') BY <2>3, <2>4 DEF ReadHolds, Moved
    <3>4. QED BY <3>2, <3>3
  <2>5. CASE Counted(x, y)
    <3>1. ListHolds(y, keys) BY <2>2, <2>5 DEF ListHolds, Counted
    <3>2. ReadHolds(y, keys, bucket') BY <2>3, <2>5 DEF ReadHolds, Counted
    <3>3. QED BY <3>1, <3>2
  <2>6. CASE x.op \notin {"list", "read"} /\ y.op = x.op /\ y.res # "listed" BY <2>6 DEF ListHolds, ReadHolds
  <2>7. CASE Listed(c, x, y)
    <3>1. keys \in SUBSET (DOMAIN bucket) BY <1>2 DEF keys
    <3>2. ListHolds(y, keys) BY <1>0, <2>2, <2>7, <3>1, PageAdds DEF x
    <3>3. ReadHolds(y, keys, bucket') BY <2>7 DEF Listed, ReadHolds
    <3>4. QED BY <3>2, <3>3
  <2>8. CASE Opened(x, y)
    <3>1. x.op = "read"
      <4>1. CallHolds(x) BY <1>0, CallParts DEF x
      <4>2. QED BY <2>8, <4>1 DEF CallHolds, Opened
    <3>2. ListHolds(y, keys) BY <2>2, <2>8, <3>1 DEF ListHolds, Opened
    <3>3. ReadHolds(y, keys, bucket') BY <1>2, <2>3, <2>8, <3>1 DEF ReadHolds, Opened, keys
    <3>4. QED BY <3>2, <3>3
  <2>9. CASE WasRead(x, y)
    <3>1. ListHolds(y, keys) BY <2>2, <2>9 DEF ListHolds, WasRead
    <3>2. ASSUME x.key \in keys PROVE ReadHolds(y, keys, bucket')
      <4> DEFINE o == bucket[x.key]
      <4>1. /\ IsPrefix(x.got, o) /\ x.n = Len(o) /\ bucket'[x.key] = o /\ o \in Data /\ x.res # "read"
        BY <1>2, <1>4, <2>3, <2>9, <3>2 DEF ReadHolds, WasRead, keys
      <4>2. o \in Seq(Piece) /\ x.got \in Seq(Piece) /\ Len(o) \in Nat /\ Len(x.got) \in Nat BY <1>3, <4>1, LenProperties DEF Data
      <4>3. CASE y.got = x.got /\ Len(x.got) >= x.n /\ y.pc = "end"
        <5>1. Len(x.got) = Len(o) /\ \A i \in 1..Len(x.got) : x.got[i] = o[i] BY <4>1, <4>2, <4>3, PrefixElements
        <5>2. x.got = o BY <4>2, <5>1, SeqEqual
        <5>3. QED BY <2>9, <4>1, <4>3, <5>2 DEF ReadHolds, WasRead
      <4>4. ASSUME y.pc = "read", y.res = x.res, NEW e \in Nat, Len(x.got) <= e, e < Len(o),
                   y.got = x.got \o SubSeq(o, Len(x.got) + 1, e + 1)
            PROVE  ReadHolds(y, keys, bucket')
        <5>1. IsPrefix(y.got, o) BY <1>3, <4>1, <4>4, PrefixAdds
        <5>2. QED BY <2>9, <4>1, <4>4, <5>1 DEF ReadHolds, WasRead
      <4>5. QED BY <2>9, <4>3, <4>4 DEF WasRead
    <3>3. ReadHolds(y, keys, bucket') BY <2>9, <3>2 DEF ReadHolds, WasRead
    <3>4. QED BY <3>1, <3>3
  <2>10. CASE y = x BY <1>5, <2>10 DEF y, keys
  <2>11. CASE y = NoCall BY <1>6, <2>11 DEF y, keys
  <2>12. QED BY <1>1, <1>8, <2>4, <2>5, <2>6, <2>7, <2>8, <2>9, <2>10, <2>11 DEF Gives
<1>9. QED BY <1>1, <1>5, <1>7, <1>8 DEF y, keys

LEMMA InitReads == Init => Since /\ Reads
<1> SUFFICES ASSUME Init PROVE Since /\ Reads OBVIOUS
<1>1. Since BY DEF Init, Since
<1>2. \A c \in Callers : call[c] = NoCall /\ since[c] = {} BY DEF Init
<1>3. QED BY <1>1, <1>2 DEF Reads, ListHolds, ReadHolds, NoCall

LEMMA NextKeepsCloudInv == CloudInv /\ [Next]_storageVars => CloudInv'
<1> SUFFICES ASSUME CloudInv, [Next]_storageVars PROVE CloudInv' OBVIOUS
<1>0. Base /\ Types /\ CallType /\ StreamsType /\ Since /\ Reads /\ Owns BY DEF CloudInv, Base, Types, StreamsType
<1>1. Base' BY <1>0, NextKeepsBase
<1>2. Types' /\ CallType' BY <1>1 DEF Base, Types
<1>3. ASSUME Observe, NEW d \in Callers, call'[d] = call[d] PROVE ListHolds(call'[d], since'[d]) /\ ReadHolds(call'[d], since'[d], bucket')
  BY <1>0, <1>3, Untouched DEF Reads
<1>4. ASSUME NEW c \in Callers, CallStep(c), Observe PROVE CloudInv'
  <2>1. Alone(c) BY <1>0, <1>4, CallStepIs
  <2>2. ListHolds(call'[c], since'[c]) /\ ReadHolds(call'[c], since'[c], bucket') BY <1>2, <1>4, CallStepReads
  <2>3. \A d \in Callers : ListHolds(call'[d], since'[d]) /\ ReadHolds(call'[d], since'[d], bucket')
    BY <1>3, <1>4, <2>1, <2>2 DEF Alone
  <2>4. Since' BY <1>0, <1>4, SinceKept
  <2>5. QED BY <1>1, <2>3, <2>4 DEF CloudInv, Reads
<1>5. ASSUME NEW c \in Callers, StreamStep(c), Observe PROVE CloudInv'
  <2>1. Alone(c) /\ (call'[c].pc \in StreamPlaces \/ call'[c] = NoCall) BY <1>0, <1>5, StreamStepIs
  <2>2. call'[c].op \notin {"list", "read"} /\ call'[c].res # "listed"
    <3>1. CASE call'[c] = NoCall BY <3>1 DEF NoCall
    <3>2. CASE call'[c].pc \in StreamPlaces
      <4>1. call'[c].op \notin {"list", "read"} BY <1>2, <3>2 DEF CallType, CallHolds, Uploads
      <4>2. call[c].op \in Uploads BY <1>0, <1>5, StreamStepIs, CallParts DEF CallHolds
      <4>3. call[c].res # "listed" BY <1>0, <4>2 DEF Reads, ListHolds, Uploads
      <4>4. call'[c].res # "listed" BY <1>0, <1>5, <4>3, StreamsDoNotList
      <4>5. QED BY <4>1, <4>4
    <3>3. QED BY <2>1, <3>1, <3>2
  <2>3. ListHolds(call'[c], since'[c]) /\ ReadHolds(call'[c], since'[c], bucket') BY <2>2 DEF ListHolds, ReadHolds
  <2>4. \A d \in Callers : ListHolds(call'[d], since'[d]) /\ ReadHolds(call'[d], since'[d], bucket')
    BY <1>3, <1>5, <2>1, <2>3 DEF Alone
  <2>5. Since' BY <1>0, <1>5, SinceKept
  <2>6. QED BY <1>1, <2>4, <2>5 DEF CloudInv, Reads
<1>6. ASSUME NEW c \in Callers, PartDone(c) \/ Around, Observe PROVE CloudInv'
  <2>1. call' = call BY <1>6 DEF PartDone, Around, EnvironmentChanges, Refresh, Expire, streamVars
  <2>2. \A d \in Callers : ListHolds(call'[d], since'[d]) /\ ReadHolds(call'[d], since'[d], bucket') BY <1>3, <1>6, <2>1
  <2>3. Since' BY <1>0, <1>6, SinceKept
  <2>4. QED BY <1>1, <2>2, <2>3 DEF CloudInv, Reads
<1>7. CASE Around
  <2>1. Observe /\ call' = call BY <1>7 DEF Around, EnvironmentChanges, Refresh, Expire, streamVars
  <2>2. \A d \in Callers : ListHolds(call'[d], since'[d]) /\ ReadHolds(call'[d], since'[d], bucket') BY <1>3, <2>1
  <2>3. Since' BY <1>0, <2>1, SinceKept
  <2>4. QED BY <1>1, <2>2, <2>3 DEF CloudInv, Reads
<1>8. CASE UNCHANGED storageVars
  <2>1. bucket' = bucket /\ call' = call /\ since' = since BY <1>8 DEF storageVars, streamVars
  <2>2. QED BY <1>0, <1>1, <2>1 DEF CloudInv, Reads, Since
<1>9. QED BY <1>4, <1>5, <1>6, <1>7, <1>8 DEF Next, Steps, Parts

LEMMA CloudInvHolds == Spec => []CloudInv
<1>1. Init => CloudInv BY InitBase, InitReads DEF CloudInv
<1>2. QED BY <1>1, NextKeepsCloudInv, PTL DEF Spec

\* What list_objects has put together page by page, when it returns, has every
\* object of the prefix that was there, unchanged, all the while.
THEOREM ListingsComplete == Spec => []ListingComplete
<1>1. CloudInv => ListingComplete
  <2> SUFFICES ASSUME CloudInv, NEW c \in Callers, At(c, "end"), call[c].res = "listed" PROVE since[c] \subseteq call[c].seen
    BY DEF ListingComplete
  <2>1. ListHolds(call[c], since[c]) BY DEF CloudInv, Reads
  <2>2. QED BY <2>1 DEF ListHolds, At
<1>2. QED BY <1>1, CloudInvHolds, PTL

\* azure_blob_download_stream::read gives out the beginning of the object, as long
\* as nobody replaced it since the stream asked for its size.
THEOREM ReadsIntact == Spec => []StreamReadIntact
<1>1. CloudInv => StreamReadIntact
  <2>1. CloudInv => \A c \in Callers : ReadHolds(call[c], since[c], bucket) BY DEF CloudInv, Reads
  <2>2. QED BY <2>1 DEF StreamReadIntact, ReadHolds
<1>2. QED BY <1>1, CloudInvHolds, PTL

-----------------------------------------------------------------------------
(* What a stream is given and what its parts hold: the units of its caller  *)
(* that follow the first a.                                                 *)
From(c, a, l) == [i \in 1..l |-> <<c, a + i>>]
Part(c, n, l) == From(c, (n - 1) * PartSize, l)

LEMMA FromIs ==
  ASSUME NEW c \in Callers, NEW a \in Nat, NEW l \in Nat
  PROVE  From(c, a, l) \in Seq(Piece) /\ Len(From(c, a, l)) = l /\ \A i \in 1..l : From(c, a, l)[i] = <<c, a + i>>
<1>1. \A i \in 1..l : <<c, a + i>> \in Piece BY DEF Piece
<1>2. From(c, a, l) \in Seq(Piece) /\ \A i \in 1..l : From(c, a, l)[i] = <<c, a + i>> BY <1>1 DEF From
<1>3. Len(From(c, a, l)) = l BY DEF From
<1>4. QED BY <1>2, <1>3

\* by a name of its own, for lemmas to be used as they are stated
Concat(s, t) == s \o t

LEMMA FromAdd ==
  ASSUME NEW c \in Callers, NEW a \in Nat, NEW l \in Nat, NEW k \in Nat, NEW b \in Nat, b = a + l, NEW n \in Nat, n = l + k
  PROVE  Concat(From(c, a, l), From(c, b, k)) = From(c, a, n)
<1> DEFINE s == From(c, a, l)
<1> DEFINE t == From(c, b, k)
<1> DEFINE u == From(c, a, n)
<1>1. s \in Seq(Piece) /\ Len(s) = l /\ \A i \in 1..l : s[i] = <<c, a + i>> BY FromIs
<1>2. t \in Seq(Piece) /\ Len(t) = k /\ \A i \in 1..k : t[i] = <<c, b + i>> BY FromIs, Zenon
<1>3. u \in Seq(Piece) /\ Len(u) = n /\ \A i \in 1..n : u[i] = <<c, a + i>> BY FromIs, Zenon
<1> HIDE DEF s, t, u
<1>4. /\ s \o t \in Seq(Piece) /\ Len(s \o t) = n
      /\ \A i \in 1..n : (s \o t)[i] = IF i <= l THEN s[i] ELSE t[i - l]
  BY <1>1, <1>2, ConcatProperties, Zenon
<1>5. ASSUME NEW i \in 1..n PROVE (s \o t)[i] = u[i]
  <2>1. CASE i <= l
    <3>1. i \in 1..l BY <2>1
    <3>2. QED BY <1>1, <1>3, <1>4, <2>1, <3>1
  <2>2. CASE i > l
    <3>1. i - l \in 1..k /\ b + (i - l) = a + i BY <2>2
    <3>2. t[i - l] = <<c, a + i>> BY <1>2, <3>1
    <3>3. (s \o t)[i] = t[i - l]
      <4>1. i \in Nat /\ ~(i <= l) BY <2>2
      <4>2. QED BY <1>4, <4>1
    <3>4. QED BY <1>3, <3>2, <3>3
  <2>3. i <= l \/ i > l OBVIOUS
  <2>4. QED BY <2>1, <2>2, <2>3
<1>6. s \o t = u BY <1>3, <1>4, <1>5, SeqEqual
<1>7. QED BY <1>6 DEF s, t, u, Concat

LEMMA Times == ASSUME NEW n \in Nat PROVE n * PartSize \in Nat /\ (n + 1) * PartSize = n * PartSize + PartSize
<1>1. PartSize \in Nat BY Constants
<1>2. QED BY <1>1

LEMMA TimesLess ==
  ASSUME NEW n \in Nat \ {0}
  PROVE  (n - 1) * PartSize \in Nat /\ n * PartSize \in Nat /\ (n - 1) * PartSize + PartSize = n * PartSize
<1>1. n - 1 \in Nat /\ (n - 1) + 1 = n OBVIOUS
<1>2. QED BY <1>1, Times

LEMMA PartIs ==
  ASSUME NEW c \in Callers, NEW n \in Nat \ {0}, NEW l \in Nat
  PROVE  Part(c, n, l) \in Seq(Piece) /\ Part(c, n, l) \in Data /\ Len(Part(c, n, l)) = l
BY TimesLess, FromIs DEF Part, Data

LEMMA NoUnits == ASSUME NEW c, NEW a PROVE From(c, a, 0) = <<>>
BY DEF From

LEMMA UnitsFrom == ASSUME NEW c \in Callers, NEW n \in Nat PROVE Units(c, n) = From(c, 0, n)
<1>1. \A i \in 1..n : 0 + i = i OBVIOUS
<1>2. QED BY <1>1 DEF Units, From

\* Parts put together in the order of their numbers are all that was taken.
Pieces(c, q, l, m) == [n \in 1..m |-> IF n <= q THEN Part(c, n, PartSize) ELSE Part(c, q + 1, l)]
\* q full parts and a last one of l units, m parts when the last one counts, are n units.
Cut(n, q, l, m) ==
  /\ q \in Nat /\ l \in Nat /\ m \in Nat
  /\ m = q \/ m = q + 1
  /\ m = q => l = 0
  /\ n = q * PartSize + l

LEMMA PartsTogether ==
  ASSUME NEW c \in Callers, NEW q, NEW l, NEW m, NEW n, Cut(n, q, l, m)
  PROVE  FlattenSeq(Pieces(c, q, l, m)) = From(c, 0, n)
<1> DEFINE ss == Pieces(c, q, l, m)
<1>c. /\ q \in Nat /\ l \in Nat /\ m \in Nat
      /\ (m = q \/ m = q + 1)
      /\ (m = q => l = 0)
      /\ n = q * PartSize + l
  BY DEF Cut
<1> HIDE DEF ss
<1>0. ss = [i \in 1..m |-> IF i <= q THEN Part(c, i, PartSize) ELSE Part(c, q + 1, l)] BY <1>c DEF ss, Pieces
<1>1. q * PartSize \in Nat /\ PartSize \in Nat BY <1>c, Times, Constants
<1>2. CASE m = 0
  <2>1. ss = <<>> BY <1>c, <1>0, <1>2
  <2>2. FlattenSeq(ss) = <<>> BY <1>c, <2>1 DEF FlattenSeq
  <2>3. q = 0 /\ l = 0 BY <1>c, <1>2
  <2>4. q * PartSize + l = 0 BY <1>c, <1>1, <2>3
  <2>5. QED BY <1>c, <2>2, <2>4, NoUnits DEF ss
<1>3. CASE m # 0
  <2>1. ss \in [1..m -> Seq(Piece)]
    <3>1. \A i \in 1..m : Part(c, i, PartSize) \in Seq(Piece) BY <1>c, <1>1, PartIs
    <3>2. Part(c, q + 1, l) \in Seq(Piece) BY <1>c, PartIs
    <3>3. QED BY <1>c, <1>0, <3>1, <3>2
  <2>2. m \in Nat \ {0} BY <1>c, <1>3
  <2>3. PICK f \in [1..m -> Seq(Piece)] : Flattens(f, ss, m) /\ FlattenSeq(ss) = f[m] BY <1>c, <2>1, <2>2, FlattenedBy
  <2>4. \A i \in 1..m : f[i] = IF i = 1 THEN ss[i] ELSE f[i - 1] \o ss[i] BY <1>c, <2>3 DEF Flattens
  <2> DEFINE Ends(i) == IF i <= q THEN i * PartSize ELSE q * PartSize + l
  <2>5. ASSUME NEW i \in 1..m PROVE ss[i] = From(c, (i - 1) * PartSize, IF i <= q THEN PartSize ELSE l)
    <3>1. ss[i] = IF i <= q THEN Part(c, i, PartSize) ELSE Part(c, q + 1, l) BY <1>0, <2>5
    <3>2. i > q => i = q + 1 BY <1>c
    <3>3. i > q => ss[i] = Part(c, i, l) BY <1>c, <3>1, <3>2
    <3>4. i <= q => ss[i] = Part(c, i, PartSize) BY <3>1
    <3>5. CASE i <= q BY <3>4, <3>5 DEF Part
    <3>6. CASE i > q
      <4>1. ~(i <= q) BY <1>c, <3>6
      <4>2. QED BY <3>3, <3>6, <4>1 DEF Part
    <3>7. QED BY <1>c, <3>5, <3>6
  <2>6. ASSUME NEW i \in 1..m
        PROVE  /\ (i - 1) * PartSize \in Nat
               /\ (i - 1) * PartSize + (IF i <= q THEN PartSize ELSE l) = Ends(i)
               /\ i # 1 => Ends(i - 1) = (i - 1) * PartSize
    <3>1. (i - 1) * PartSize \in Nat /\ (i - 1) * PartSize + PartSize = i * PartSize BY <1>c, TimesLess
    <3>2. i > q => i = q + 1 BY <1>c
    <3>3. i > q => (i - 1) * PartSize = q * PartSize BY <1>c, <3>2
    <3>4. i # 1 => i - 1 <= q BY <1>c, <3>2
    <3>5. QED BY <1>c, <3>1, <3>3, <3>4
  <2> HIDE DEF Ends
  <2>7. ASSUME NEW i \in 1..m, f[i] # From(c, 0, Ends(i)) PROVE FALSE
    <3> DEFINE B == {x \in 1..m : f[x] # From(c, 0, Ends(x))}
    <3>1. i \in B BY <1>c, <2>7
    <3>2. B \subseteq 1..m BY <1>c
    <3>3. 1..m \subseteq Nat BY <1>c
    <3>4. \A x \in 1..m : x \notin B => f[x] = From(c, 0, Ends(x)) BY <1>c
    <3>5. \A x \in B : f[x] # From(c, 0, Ends(x)) BY <1>c
    <3> HIDE DEF B
    <3>6. B \in SUBSET Nat /\ B # {} BY <1>c, <3>1, <3>2, <3>3
    <3>7. PICK j \in B : \A x \in Nat : x < j => x \notin B BY <1>c, <3>6, LeastNat
    <3>8. j \in 1..m BY <1>c, <3>2, <3>7
    <3> DEFINE len == IF j <= q THEN PartSize ELSE l
    <3>9. /\ ss[j] = From(c, (j - 1) * PartSize, len) /\ (j - 1) * PartSize \in Nat /\ (j - 1) * PartSize + len = Ends(j) /\ len \in Nat
          /\ j # 1 => Ends(j - 1) = (j - 1) * PartSize
      BY <1>c, <1>1, <2>5, <2>6, <3>8
    <3> HIDE DEF len
    <3>10. CASE j = 1
      <4>1. (j - 1) * PartSize = 0 BY <1>c, <1>1, <3>10
      <4>2. Ends(j) = len BY <1>c, <3>9, <4>1
      <4>3. f[j] = From(c, 0, Ends(j)) BY <1>c, <2>4, <3>8, <3>9, <3>10, <4>1, <4>2
      <4>4. QED BY <1>c, <3>5, <3>7, <4>3
    <3>11. CASE j # 1
      <4>1. j - 1 \in 1..m /\ j - 1 \notin B BY <1>c, <3>7, <3>8, <3>11
      <4>2. f[j - 1] = From(c, 0, (j - 1) * PartSize) BY <1>c, <3>4, <3>9, <3>11, <4>1
      <4>3. f[j] = From(c, 0, (j - 1) * PartSize) \o From(c, (j - 1) * PartSize, len) BY <1>c, <2>4, <3>8, <3>9, <3>11, <4>2
      <4> DEFINE a == (j - 1) * PartSize
      <4>4. a \in Nat /\ a = 0 + a /\ len \in Nat /\ a + len \in Nat BY <1>c, <3>9
      <4> HIDE DEF a
      <4>5. Concat(From(c, 0, a), From(c, a, len)) = From(c, 0, a + len) BY <1>c, <4>4, FromAdd
      <4>6. f[j] = From(c, 0, Ends(j)) BY <1>c, <3>9, <4>3, <4>5 DEF a, Concat
      <4>7. QED BY <1>c, <3>5, <3>7, <4>6
    <3>12. QED BY <1>c, <3>10, <3>11
  <2>8. f[m] = From(c, 0, Ends(m)) BY <1>c, <2>2, <2>7
  <2>9. Ends(m) = q * PartSize + l
    <3>1. CASE m = q
      <4>1. Ends(m) = q * PartSize /\ l = 0 BY <1>c, <3>1 DEF Ends
      <4>2. QED BY <1>c, <1>1, <4>1
    <3>2. CASE m = q + 1 BY <1>c, <3>2 DEF Ends
    <3>3. QED BY <1>c, <3>1, <3>2
  <2>10. QED BY <1>c, <2>3, <2>8, <2>9 DEF ss
<1>4. QED BY <1>c, <1>2, <1>3 DEF ss

-----------------------------------------------------------------------------
(* A stream in order.  Busy are the places of a write and a finalize under  *)
(* way; a stream that goes on has failed no call and was neither aborted    *)
(* nor finalized, except for the request that puts the object together.     *)
Busy == {"fill", "slot", "tail", "waitall", "commit"}
Course(s, x) ==
  /\ x.res = "stored" => s.fin
  /\ x.pc \in Busy => ~s.abt /\ x.res # "stored" /\ (s.fin <=> x.pc = "commit")
Going(s, x) == x.pc \in StreamPlaces /\ ~s.bad /\ ~s.abt /\ (s.fin => x.pc = "commit")

\* the parts handed over: the rest of the buffer is one once finalize has sent it
Tailed(s, x)    == x.pc \in {"waitall", "commit"} /\ s.buf # <<>>
Sent(s, x)      == IF Tailed(s, x) THEN s.cur ELSE s.cur - 1
PartAt(c, s, n) == IF n < s.cur THEN Part(c, n, PartSize) ELSE s.buf

\* what the stream took, its buffer, and what it counts
Filled(c, s, x) ==
  /\ Len(s.took) = (s.cur - 1) * PartSize + Len(s.buf)
  /\ s.took = From(c, 0, Len(s.took)) /\ s.buf = Part(c, s.cur, Len(s.buf))
  /\ x.pc = "slot" => Len(s.buf) = PartSize
  /\ x.pc = "tail" => s.buf # <<>>
Tallied(s, x) ==
  IF x.pc \in {"fill", "slot"} THEN x.todo <= x.n /\ s.written + x.n = Len(s.took) + x.todo
  ELSE s.written = Len(s.took)

\* every part is under way, done, or among the results
Handed(c, s, x) ==
  /\ \A n \in DOMAIN s.pend : s.pend[n].data = Part(c, n, PartSize) /\ s.pend[n].st # "taken"
  /\ Nums(s) \cup DOMAIN s.pend = 1..Sent(s, x)
  /\ x.pc = "commit" => DOMAIN s.pend = {}

\* what the provider has of it: S3 by upload, Azure by block id
Kept(c, s, x, parts) == \A n \in DOMAIN parts : n \in 1..Sent(s, x) /\ parts[n] = PartAt(c, s, n)
Stored(c, s, bl)     == \A n \in Nums(s) \cup In(s, "ok") : n \in DOMAIN bl /\ bl[n] = PartAt(c, s, n)
IdsListed(s, x)      == s.ids = [i \in 1..Sent(s, x) |-> i]

Works(c, s, x) == Filled(c, s, x) /\ Tallied(s, x) /\ Handed(c, s, x)

\* the stream of c, and what the provider has of it
Sound(c) ==
  /\ call[c].pc \in StreamPlaces => Course(strm[c], call[c])
  /\ Going(strm[c], call[c]) =>
       /\ Works(c, strm[c], call[c])
       /\ Is("s3") /\ uploads[c].open => Kept(c, strm[c], call[c], uploads[c].parts)
       /\ Is("azure") => IdsListed(strm[c], call[c])
       /\ Is("azure") /\ ~strm[c].shared => Stored(c, strm[c], blocks[call[c].key])

\* streams of one blob know of each other
Know(c, d) ==
  (Is("azure") /\ call[c].pc \in StreamPlaces /\ call[d].pc \in StreamPlaces /\ call[c].key = call[d].key)
    => strm[c].shared /\ strm[d].shared

StreamInv == Base /\ (\A c \in Callers : Sound(c)) /\ (\A c, d \in Callers : c # d => Know(c, d))

\* The fields of a stream.
LEMMA StreamParts ==
  ASSUME StreamsType, NEW c \in Callers
  PROVE  /\ strm[c] \in Streams /\ StreamHolds(strm[c]) /\ IsStream(strm[c]) /\ c \in DOMAIN strm
         /\ strm[c].buf \in Data /\ strm[c].took \in Data /\ Len(strm[c].buf) \in Nat /\ Len(strm[c].took) \in Nat
         /\ strm[c].cur \in Nat \ {0} /\ strm[c].written \in Nat /\ strm[c].pend \in Lists
         /\ strm[c].buf = <<>> <=> Len(strm[c].buf) = 0
<1>1. strm[c] \in Streams /\ StreamHolds(strm[c]) /\ IsStream(strm[c]) /\ c \in DOMAIN strm BY DEF StreamsType, IsStream
<1>2. strm[c].buf \in Seq(Piece) /\ strm[c].took \in Seq(Piece) BY <1>1 DEF Streams, Data
<1>3. Len(strm[c].buf) \in Nat /\ Len(strm[c].took) \in Nat BY <1>2, LenProperties
<1>4. strm[c].buf = <<>> <=> Len(strm[c].buf) = 0 BY <1>2, EmptySeq
<1>5. QED BY <1>1, <1>2, <1>3, <1>4 DEF Streams, Data

LEMMA FirstIs ==
  ASSUME NEW s, s.cur \in Nat \ {0}, NEW x, x.pc \notin {"waitall", "commit"} PROVE Sent(s, x) = s.cur - 1
BY DEF Sent, Tailed

\* A step of the owner that leaves its stream alone keeps it in order.
LEMMA KeepsGoing ==
  ASSUME Types, NEW c \in Callers, Sound(c), call'[c].pc \in StreamPlaces, call[c].pc \in StreamPlaces,
         strm'[c] = strm[c], uploads' = uploads, blocks' = blocks, conf' = conf, call'[c].key = call[c].key,
         Course(strm[c], call'[c]),
         Going(strm[c], call'[c]) =>
           /\ Going(strm[c], call[c]) /\ Sent(strm[c], call'[c]) = Sent(strm[c], call[c])
           /\ call'[c].pc = "slot" => call[c].pc = "slot"
           /\ call'[c].pc = "commit" => call[c].pc = "commit"
           /\ call'[c].pc = "tail" => strm[c].buf # <<>>
           /\ Tallied(strm[c], call'[c])
  PROVE  Sound(c)'
<1> DEFINE s == strm[c]
<1>1. ASSUME Going(s, call'[c]) PROVE Works(c, s, call'[c])
  <2>1. Works(c, s, call[c]) BY <1>1 DEF Sound
  <2>2. Filled(c, s, call'[c]) BY <1>1, <2>1 DEF Works, Filled
  <2>3. Handed(c, s, call'[c]) BY <1>1, <2>1 DEF Works, Handed
  <2>4. QED BY <1>1, <2>2, <2>3 DEF Works
<1>2. ASSUME Going(s, call'[c]), Is("s3"), uploads[c].open PROVE Kept(c, s, call'[c], uploads[c].parts)
  <2>1. Kept(c, s, call[c], uploads[c].parts) BY <1>2 DEF Sound
  <2>2. QED BY <1>2, <2>1 DEF Kept
<1>3. ASSUME Going(s, call'[c]), Is("azure") PROVE IdsListed(s, call'[c])
  <2>1. IdsListed(s, call[c]) BY <1>3 DEF Sound
  <2>2. QED BY <1>3, <2>1 DEF IdsListed
<1>4. ASSUME Going(s, call'[c]), Is("azure"), ~s.shared PROVE Stored(c, s, blocks[call'[c].key])
  BY <1>4 DEF Sound
<1>5. QED BY <1>1, <1>2, <1>3, <1>4 DEF Sound, Is

LEMMA StopsGoing ==
  ASSUME NEW c \in Callers, call'[c].pc \in StreamPlaces => Course(strm'[c], call'[c]), ~Going(strm'[c], call'[c])
  PROVE  Sound(c)'
BY DEF Sound

LEMMA LeavesSound == ASSUME NEW c \in Callers, call'[c].pc \notin StreamPlaces PROVE Sound(c)'
BY DEF Sound, Going

LEMMA ReturnsTo ==
  ASSUME CallType, NEW c \in Callers, NEW r, Returns(c, r)
  PROVE  /\ call'[c].pc = "user" /\ call'[c].res = r /\ call'[c].key = call[c].key
         /\ call'[c].n = call[c].n /\ call'[c].todo = call[c].todo
<1>1. call[c] \in CallRecords BY CallParts
<1>2. QED BY <1>1 DEF CallType, CallRecords, Returns

LEMMA GoesOn ==
  ASSUME CallType, NEW c \in Callers, NEW p, Go(c, p)
  PROVE  /\ call'[c].pc = p /\ call'[c].res = call[c].res /\ call'[c].key = call[c].key
         /\ call'[c].n = call[c].n /\ call'[c].todo = call[c].todo
<1>1. call[c] \in CallRecords BY CallParts
<1>2. QED BY <1>1 DEF CallType, CallRecords, Go

LEMMA UndoesTo ==
  ASSUME CallType, NEW c \in Callers, NEW r, call' = [call EXCEPT ![c].pc = "undo", ![c].res = r, ![c].next = "user"]
  PROVE  call'[c].pc = "undo" /\ call'[c].res = r /\ call'[c].key = call[c].key
         /\ call'[c].n = call[c].n /\ call'[c].todo = call[c].todo
<1>1. call[c] \in CallRecords BY CallParts
<1>2. QED BY <1>1 DEF CallType, CallRecords

LEMMA WriteSound == ASSUME Types, NEW c \in Callers, Sound(c), Write(c) PROVE Sound(c)'
<1> DEFINE s == strm[c]
<1> DEFINE x == call[c]
<1>0. CallType BY DEF Types
<1>1. x.pc = "user" /\ UNCHANGED <<conf, uploads, blocks, strm>> BY DEF Write, Does, At
<1>2. Course(s, x) BY <1>1 DEF Sound, StreamPlaces
<1>3. CASE Closed(s) /\ Returns(c, "closed")
  <2>1. call'[c].pc = "user" /\ call'[c].res = "closed" BY <1>0, <1>3, ReturnsTo
  <2>2. Course(s, call'[c]) /\ ~Going(s, call'[c]) BY <1>3, <2>1 DEF Course, Busy, Going, Closed
  <2>3. QED BY <1>1, <2>2, StopsGoing
<1>4. ASSUME ~Closed(s), NEW n, call' = [call EXCEPT ![c].pc = "fill", ![c].n = n, ![c].todo = n], n \in Nat PROVE Sound(c)'
  <2>1. /\ call'[c].pc = "fill" /\ call'[c].res = x.res /\ call'[c].key = x.key
        /\ call'[c].n = n /\ call'[c].todo = n
    <3>1. call[c] \in CallRecords BY <1>0, CallParts
    <3>2. QED BY <1>0, <1>4, <3>1 DEF CallType, CallRecords
  <2>2. Course(s, call'[c]) BY <1>2, <1>4, <2>1 DEF Course, Busy, Closed
  <2>3. ASSUME Going(s, call'[c]) PROVE Going(s, x) /\ Tallied(s, call'[c]) /\ Sent(s, call'[c]) = Sent(s, x)
    <3>1. Going(s, x) BY <1>1, <1>4, <2>3 DEF Going, Closed, StreamPlaces
    <3>2. s.written = Len(s.took) BY <1>1, <3>1 DEF Sound, Works, Tallied
    <3>3. Tallied(s, call'[c]) BY <1>4, <2>1, <3>2 DEF Tallied
    <3>4. QED BY <1>1, <2>1, <3>1, <3>3 DEF Sent, Tailed
  <2>4. call'[c].pc \in StreamPlaces /\ x.pc \in StreamPlaces BY <1>1, <2>1 DEF StreamPlaces
  <2>5. QED BY <1>1, <2>1, <2>2, <2>3, <2>4, KeepsGoing
<1>5. x.n \in Nat BY <1>0, CallParts
<1>6. CASE ~Closed(s)
  <2>1. PICK n \in IF x.op # "stream" THEN {x.n} ELSE 1..MaxUnits :
          call' = [call EXCEPT ![c].pc = "fill", ![c].n = n, ![c].todo = n]
    BY <1>6 DEF Write
  <2>2. n \in Nat BY <1>5, Constants
  <2>3. QED BY <1>4, <1>6, <2>1, <2>2
<1>7. QED BY <1>3, <1>6 DEF Write

LEMMA FinalizeSound == ASSUME Types, NEW c \in Callers, Sound(c), Finalize(c) PROVE Sound(c)'
<1> DEFINE s == strm[c]
<1> DEFINE x == call[c]
<1>0. CallType BY DEF Types
<1>1. x.pc = "user" /\ UNCHANGED <<conf, uploads, blocks, strm>> BY DEF Finalize, Does, At
<1>2. Course(s, x) BY <1>1 DEF Sound, StreamPlaces
<1>3. CASE Closed(s) /\ Returns(c, "closed")
  <2>1. call'[c].pc = "user" /\ call'[c].res = "closed" BY <1>0, <1>3, ReturnsTo
  <2>2. Course(s, call'[c]) /\ ~Going(s, call'[c]) BY <1>3, <2>1 DEF Course, Busy, Going, Closed
  <2>3. QED BY <1>1, <2>2, StopsGoing
<1>4. CASE ~Closed(s) /\ Go(c, IF s.buf = <<>> THEN "waitall" ELSE "tail")
  <2> DEFINE p == IF s.buf = <<>> THEN "waitall" ELSE "tail"
  <2>1. /\ call'[c].pc = p /\ call'[c].res = x.res /\ call'[c].key = x.key
        /\ call'[c].n = x.n /\ call'[c].todo = x.todo
    BY <1>0, <1>4, GoesOn
  <2>2. Course(s, call'[c]) BY <1>2, <1>4, <2>1 DEF Course, Busy, Closed
  <2>3. ASSUME Going(s, call'[c]) PROVE Going(s, x) /\ Tallied(s, call'[c]) /\ Sent(s, call'[c]) = Sent(s, x)
    <3>1. Going(s, x) BY <1>1, <1>4, <2>3 DEF Going, Closed, StreamPlaces
    <3>2. s.written = Len(s.took) BY <1>1, <3>1 DEF Sound, Works, Tallied
    <3>3. Tallied(s, call'[c]) BY <1>4, <2>1, <3>2 DEF Tallied
    <3>4. QED BY <1>1, <2>1, <3>1, <3>3 DEF Sent, Tailed
  <2>4. call'[c].pc \in StreamPlaces /\ x.pc \in StreamPlaces BY <1>1, <2>1 DEF StreamPlaces
  <2>5. QED BY <1>1, <2>1, <2>2, <2>3, <2>4, KeepsGoing
<1>5. QED BY <1>3, <1>4 DEF Finalize

LEMMA DropSound == ASSUME Types, NEW c \in Callers, Sound(c), Drop(c) PROVE Sound(c)'
<1> DEFINE s == strm[c]
<1> DEFINE x == call[c]
<1>0. CallType BY DEF Types
<1>1. x.pc = "user" /\ UNCHANGED <<conf, uploads, blocks, strm>> BY DEF Drop, Does, At
<1>2. Course(s, x) BY <1>1 DEF Sound, StreamPlaces
<1>3. /\ call'[c].pc \in {"undo", "join"} /\ call'[c].res = x.res /\ call'[c].key = x.key
      /\ call'[c].n = x.n /\ call'[c].todo = x.todo
  <2>1. call[c] \in CallRecords BY <1>0, CallParts
  <2>2. QED BY <1>0, <2>1 DEF CallType, CallRecords, Drop
<1>4. Course(s, call'[c]) BY <1>2, <1>3 DEF Course, Busy
<1>5. ASSUME Going(s, call'[c]) PROVE Going(s, x) /\ Tallied(s, call'[c]) /\ Sent(s, call'[c]) = Sent(s, x)
  <2>1. Going(s, x) BY <1>1, <1>3, <1>5 DEF Going, StreamPlaces
  <2>2. s.written = Len(s.took) BY <1>1, <2>1 DEF Sound, Works, Tallied
  <2>3. QED BY <1>1, <1>3, <2>1, <2>2 DEF Tallied, Sent, Tailed
<1>6. call'[c].pc \in StreamPlaces /\ x.pc \in StreamPlaces BY <1>1, <1>3 DEF StreamPlaces
<1>7. QED BY <1>1, <1>3, <1>4, <1>5, <1>6, KeepsGoing

LEMMA AbtIs ==
  ASSUME StreamsType, NEW c \in Callers, strm' = [strm EXCEPT ![c].abt = TRUE]
  PROVE  strm'[c].abt /\ strm'[c].fin = strm[c].fin
<1>1. strm[c] \in Streams BY StreamParts
<1>2. QED BY <1>1 DEF StreamsType, Streams

LEMMA AbortSound == ASSUME Types, NEW c \in Callers, Sound(c), Abort(c) PROVE Sound(c)'
<1> DEFINE s == strm[c]
<1> DEFINE x == call[c]
<1>0. CallType /\ StreamsType BY DEF Types, StreamsType
<1>1. x.pc = "user" /\ UNCHANGED <<conf, uploads, blocks>> BY DEF Abort, Does, At
<1>2. CASE strm' = strm /\ call' = [call EXCEPT ![c].pc = "undo", ![c].res = "aborted", ![c].next = "user"]
  <2>1. /\ call'[c].pc = "undo" /\ call'[c].res = "aborted" /\ call'[c].key = x.key
        /\ call'[c].n = x.n /\ call'[c].todo = x.todo
    BY <1>0, <1>2, UndoesTo
  <2>2. Course(s, call'[c]) BY <2>1 DEF Course, Busy
  <2>3. ASSUME Going(s, call'[c]) PROVE Going(s, x) /\ Tallied(s, call'[c]) /\ Sent(s, call'[c]) = Sent(s, x)
    <3>1. Going(s, x) BY <1>1, <2>1, <2>3 DEF Going, StreamPlaces
    <3>2. s.written = Len(s.took) BY <1>1, <3>1 DEF Sound, Works, Tallied
    <3>3. QED BY <1>1, <2>1, <3>1, <3>2 DEF Tallied, Sent, Tailed
  <2>4. call'[c].pc \in StreamPlaces /\ x.pc \in StreamPlaces BY <1>1, <2>1 DEF StreamPlaces
  <2>5. QED BY <1>1, <1>2, <2>1, <2>2, <2>3, <2>4, KeepsGoing
<1>3. CASE strm' = [strm EXCEPT ![c].abt = TRUE] /\ Returns(c, "aborted")
  <2>1. call'[c].pc = "user" /\ call'[c].res = "aborted" BY <1>0, <1>3, ReturnsTo
  <2>2. strm'[c].abt BY <1>0, <1>3, AbtIs
  <2>3. Course(strm'[c], call'[c]) /\ ~Going(strm'[c], call'[c]) BY <2>1, <2>2 DEF Course, Busy, Going
  <2>4. QED BY <2>3, StopsGoing
<1>4. QED BY <1>2, <1>3 DEF Abort

LEMMA UndoSound == ASSUME Types, NEW c \in Callers, Sound(c), S3AbortMultipart(c) PROVE Sound(c)'
<1>0. CallType /\ StreamsType BY DEF Types, StreamsType
<1>1. call[c].pc = "undo" /\ Go(c, call[c].next) /\ strm' = [strm EXCEPT ![c].abt = TRUE] BY DEF S3AbortMultipart, At
<1>2. call[c].next \in {"user", "join"} BY <1>0, CallParts
<1>3. call'[c].pc \in {"user", "join"} /\ call'[c].res = call[c].res BY <1>0, <1>1, <1>2, GoesOn
<1>4. strm'[c].abt /\ strm'[c].fin = strm[c].fin BY <1>0, <1>1, AbtIs
<1>5. Course(strm[c], call[c]) BY <1>1 DEF Sound, StreamPlaces
<1>6. Course(strm'[c], call'[c]) /\ ~Going(strm'[c], call'[c]) BY <1>3, <1>4, <1>5 DEF Course, Busy, Going
<1>7. QED BY <1>6, StopsGoing

LEMMA JoinSound == ASSUME Types, NEW c \in Callers, Join(c) PROVE Sound(c)'
<1>0. CallType BY DEF Types
<1>1. call'[c] = NoCall BY <1>0 DEF Join, CallType
<1>2. QED BY <1>1, LeavesSound DEF NoCall, StreamPlaces

LEMMA CommitReturns ==
  ASSUME Types, NEW c \in Callers, Commit(c) PROVE call'[c].pc = "user" /\ call'[c].key = call[c].key
<1>0. CallType BY DEF Types
<1>1. \E r : Returns(c, r) BY DEF Commit, S3Complete, AzureCommitBlockList, GcsFinalizeUpload
<1>2. QED BY <1>0, <1>1, ReturnsTo

LEMMA CommitSound == ASSUME Types, NEW c \in Callers, Sound(c), Commit(c) PROVE Sound(c)'
<1>1. call[c].pc = "commit" /\ strm' = strm BY DEF Commit, At
<1>2. call'[c].pc = "user" BY CommitReturns
<1>3. Course(strm[c], call[c]) BY <1>1 DEF Sound, StreamPlaces
<1>4. Course(strm'[c], call'[c]) /\ ~Going(strm'[c], call'[c]) BY <1>1, <1>2, <1>3 DEF Course, Busy, Going
<1>5. QED BY <1>4, StopsGoing

\* A stream is opened with nothing in it.
LEMMA OpenSound == ASSUME Types, NEW c \in Callers, OpenStream(c) PROVE Sound(c)'
<1>0. CallType /\ StreamsType /\ conf \in ScenarioType /\ c \in DOMAIN uploads BY DEF Types, StreamsType
<1>1. CASE call' = [call EXCEPT ![c] = NoCall]
  <2>1. call'[c] = NoCall BY <1>0, <1>1 DEF CallType
  <2>2. QED BY <2>1, LeavesSound DEF NoCall, StreamPlaces
<1>2. CASE Returns(c, "opened")
  <2> DEFINE t == strm'[c]
  <2> DEFINE x == call'[c]
  <2>1. x.pc = "user" /\ x.res = "opened" /\ conf' = conf /\ blocks' = blocks BY <1>0, <1>2, ReturnsTo DEF OpenStream
  <2>2. /\ t.buf = <<>> /\ t.written = 0 /\ t.cur = 1 /\ t.pend = <<>> /\ t.done = {} /\ t.ids = <<>> /\ ~t.fin /\ ~t.abt /\ t.took = <<>>
        /\ Is("s3") => uploads'[c].parts = <<>>
    <3>1. CASE Is("s3") /\ \E f \in Fates : S3InitiateMultipart(c, f)
      BY <1>0, <3>1 DEF S3InitiateMultipart, SetStream, NewStream, NoUpload, StreamsType
    <3>2. CASE Is("gcs") /\ SetStream(c, NewStream) BY <1>0, <3>2 DEF SetStream, NewStream, StreamsType, Is
    <3>3. CASE Is("azure") /\ AzureOpen(c) BY <1>0, <3>3 DEF AzureOpen, NewStream, Is
    <3>4. call' # [call EXCEPT ![c] = NoCall] BY <1>0, <2>1 DEF CallType, NoCall
    <3>5. \/ Is("s3") /\ \E f \in Fates : S3InitiateMultipart(c, f)
          \/ Is("gcs") /\ SetStream(c, NewStream)
          \/ Is("azure") /\ AzureOpen(c)
      BY <3>4 DEF OpenStream
    <3>6. QED BY <3>1, <3>2, <3>3, <3>5
  <2>3. Course(t, x) BY <2>1 DEF Course, Busy
  <2>4. Sent(t, x) = 0 /\ Nums(t) = {} /\ DOMAIN t.pend = {} /\ Len(t.took) = 0 /\ Len(t.buf) = 0
    BY <2>1, <2>2 DEF Sent, Tailed, Nums
  <2>5. (t.cur - 1) * PartSize + Len(t.buf) = 0
    <3>1. PartSize \in Nat BY Constants
    <3>2. QED BY <2>2, <2>4, <3>1
  <2>6. Works(c, t, x)
    <3>1. Filled(c, t, x) BY <2>1, <2>2, <2>4, <2>5, NoUnits DEF Filled, Part
    <3>2. Tallied(t, x) BY <2>1, <2>2, <2>4 DEF Tallied
    <3>3. Handed(c, t, x) BY <2>1, <2>4 DEF Handed
    <3>4. QED BY <3>1, <3>2, <3>3 DEF Works
  <2>7. Is("s3") => Kept(c, t, x, uploads'[c].parts) BY <2>2 DEF Kept
  <2>8. IdsListed(t, x) BY <2>2, <2>4 DEF IdsListed
  <2>9. Stored(c, t, blocks'[x.key]) BY <2>4 DEF Stored, In
  <2>10. QED BY <2>1, <2>3, <2>6, <2>7, <2>8, <2>9 DEF Sound, Is
<1>3. QED BY <1>1, <1>2 DEF OpenStream

\* What is filled in is what the stream is given next.
LEMMA FillSound == ASSUME Types, NEW c \in Callers, Sound(c), Fill(c) PROVE Sound(c)'
<1> DEFINE s == strm[c]
<1> DEFINE x == call[c]
<1> DEFINE k == Min({x.todo, PartSize - Len(s.buf)})
<1> DEFINE new == [i \in 1..k |-> <<c, Len(s.took) + i>>]
<1> DEFINE t == strm'[c]
<1> DEFINE y == call'[c]
<1> DEFINE lb == Len(s.buf)
<1> DEFINE lt == Len(s.took)
<1> DEFINE full == lb + k >= PartSize
<1> DEFINE over == ~full /\ k = x.todo
<1>0. CallType /\ StreamsType /\ s \in Streams /\ x \in CallRecords /\ x.todo \in Nat /\ x.n \in Nat
  BY CallParts, StreamParts DEF Types, StreamsType
<1>1. x.pc = "fill" /\ UNCHANGED <<conf, uploads, blocks>> BY DEF Fill, At
<1>2. strm' = [strm EXCEPT ![c] = [s EXCEPT !.buf = s.buf \o new, !.took = s.took \o new,
                                            !.written = IF over THEN s.written + x.n ELSE s.written]]
  BY DEF Fill, SetStream
<1>3. call' = [call EXCEPT ![c].todo = x.todo - k, ![c].pc = IF full THEN "slot" ELSE "user",
                           ![c].res = IF over THEN "written" ELSE x.res]
  BY DEF Fill
<1>4. /\ k \in Nat /\ k <= x.todo /\ k <= PartSize - lb /\ (k = x.todo \/ k = PartSize - lb)
      /\ Len(s.buf \o new) = lb + k /\ Len(s.took \o new) = lt + k
  BY FillIs
<1>5. lb \in Nat /\ lt \in Nat /\ s.cur \in Nat \ {0} /\ s.written \in Nat BY <1>0, StreamParts
<1>6. new = From(c, lt, k) BY Zenon DEF From
<1> HIDE DEF new
<1>7. /\ t.buf = Concat(s.buf, new) /\ t.took = Concat(s.took, new) /\ t.written = IF over THEN s.written + x.n ELSE s.written
      /\ t.cur = s.cur /\ t.pend = s.pend /\ t.done = s.done /\ t.ids = s.ids /\ t.fin = s.fin /\ t.abt = s.abt
      /\ t.bad = s.bad /\ t.shared = s.shared
  BY <1>0, <1>2, Zenon DEF Concat, Streams, StreamsType
<1>8. Len(t.buf) = lb + k /\ Len(t.took) = lt + k BY <1>4, <1>7 DEF Concat
<1>9. /\ y.pc = IF full THEN "slot" ELSE "user"
      /\ y.res = IF over THEN "written" ELSE x.res
      /\ y.todo = x.todo - k /\ y.n = x.n /\ y.key = x.key
  BY <1>0, <1>3 DEF CallType, CallRecords
<1> HIDE DEF k, lb, lt, full, over, t, y
<1>10. Course(s, x) BY <1>1 DEF Sound, StreamPlaces
<1>11. Course(t, y)
  <2>1. full \/ ~full OBVIOUS
  <2>2. ~s.abt /\ x.res # "stored" /\ ~s.fin BY <1>1, <1>10 DEF Course, Busy
  <2>3. y.res # "stored" BY <1>9, <2>2
  <2>4. QED BY <1>7, <1>9, <2>2, <2>3 DEF Course
<1>12. ASSUME Going(t, y) PROVE Going(s, x)
  BY <1>1, <1>7, <1>9, <1>12 DEF Going, StreamPlaces
<1>13. Sent(t, y) = s.cur - 1 /\ Sent(s, x) = s.cur - 1 BY <1>1, <1>7, <1>9 DEF Sent, Tailed
<1>14. ASSUME Going(t, y) PROVE Works(c, t, y)
  <2>1. Works(c, s, x) BY <1>12, <1>14 DEF Sound
  <2> DEFINE a == (s.cur - 1) * PartSize
  <2>2. /\ lt = a + lb /\ s.took = From(c, 0, lt) /\ s.buf = From(c, a, lb)
    BY <2>1 DEF Works, Filled, Part, lt, lb
  <2>3. a \in Nat BY <1>5, TimesLess
  <2>a. lt = 0 + lt /\ lt + k \in Nat BY <1>4, <1>5
  <2>4. t.took = From(c, 0, lt + k)
    <3>1. Concat(From(c, 0, lt), From(c, lt, k)) = From(c, 0, lt + k) BY <1>4, <1>5, <2>a, FromAdd
    <3>2. QED BY <1>6, <1>7, <2>2, <3>1
  <2> HIDE DEF a
  <2>5. t.buf = From(c, a, lb + k) BY <1>4, <1>5, <1>6, <1>7, <2>2, <2>3, FromAdd
  <2>6. Len(t.took) = a + Len(t.buf) BY <1>4, <1>5, <1>8, <2>2, <2>3
  <2>7. y.pc = "slot" => Len(t.buf) = PartSize BY <1>4, <1>5, <1>8, <1>9, Constants DEF full
  <2>8. Filled(c, t, y) BY <1>7, <1>8, <1>9, <2>4, <2>5, <2>6, <2>7 DEF Filled, Part, a
  <2>9. x.todo <= x.n /\ s.written + x.n = lt + x.todo BY <1>1, <2>1 DEF Works, Tallied, lt
  <2>10. Tallied(t, y)
    <3>1. CASE full
      <4>1. t.written = s.written BY <1>7, <3>1 DEF over
      <4>2. QED BY <1>0, <1>4, <1>5, <1>8, <1>9, <2>9, <3>1, <4>1, SMTT(30) DEF Tallied
    <3>2. CASE ~full
      <4>1. k = x.todo BY <1>4, <1>5, <3>2, Constants DEF full
      <4>2. t.written = s.written + x.n BY <1>7, <3>2, <4>1 DEF over
      <4>3. QED BY <1>0, <1>4, <1>5, <1>8, <1>9, <2>9, <3>2, <4>1, <4>2 DEF Tallied
    <3>3. QED BY <3>1, <3>2
  <2>11. Handed(c, t, y) BY <1>1, <1>7, <1>9, <1>13, <2>1 DEF Works, Handed, Nums
  <2>12. QED BY <2>8, <2>10, <2>11 DEF Works
<1>15. ASSUME Going(t, y), Is("s3"), uploads[c].open PROVE Kept(c, t, y, uploads[c].parts)
  <2>1. Kept(c, s, x, uploads[c].parts) BY <1>12, <1>15 DEF Sound
  <2>2. \A n \in 1..Sent(s, x) : n < s.cur BY <1>5, <1>13
  <2>3. QED BY <1>7, <1>13, <2>1, <2>2 DEF Kept, PartAt
<1>16. ASSUME Going(t, y), Is("azure") PROVE IdsListed(t, y)
  BY <1>7, <1>12, <1>13, <1>16 DEF Sound, IdsListed
<1>17. ASSUME Going(t, y), Is("azure"), ~t.shared PROVE Stored(c, t, blocks[y.key])
  <2>1. Stored(c, s, blocks[x.key]) BY <1>7, <1>12, <1>17 DEF Sound
  <2>2. Handed(c, s, x) BY <1>12, <1>17 DEF Sound, Works
  <2>3. \A n \in Nums(s) \cup In(s, "ok") : n < s.cur
    <3>1. \A n \in Nums(s) \cup In(s, "ok") : n \in 1..Sent(s, x) BY <2>2 DEF Handed, In
    <3>2. QED BY <1>5, <1>13, <3>1
  <2>4. Nums(t) = Nums(s) /\ In(t, "ok") = In(s, "ok") BY <1>7 DEF Nums, In
  <2>5. QED BY <1>7, <1>9, <2>1, <2>3, <2>4 DEF Stored, PartAt
<1>18. QED BY <1>1, <1>11, <1>14, <1>15, <1>16, <1>17 DEF Sound, Is, t, y

LEMMA WriteFailsSound == ASSUME Types, NEW c \in Callers, WriteFails(c) PROVE Sound(c)'
<1>0. CallType /\ StreamsType BY DEF Types, StreamsType
<1>1. call'[c].pc = "user" /\ call'[c].res = "write failed" BY <1>0, ReturnsTo DEF WriteFails
<1>2. strm'[c] = Failed(Collected(strm[c])) BY <1>0 DEF WriteFails, SetStream, StreamsType
<1>3. Collected(strm[c]) \in Streams BY <1>0, CollectedType DEF StreamsType, IsStream
<1> DEFINE z == Collected(strm[c])
<1> HIDE DEF z
<1>4. strm'[c].bad BY <1>2, <1>3 DEF Failed, Streams, z
<1>5. QED BY <1>1, <1>4, StopsGoing DEF Course, Busy, Going

\* Where no part failed, collecting takes the parts that are done.
LEMMA CollectedIs ==
  ASSUME NEW s, IsStream(s), ~AnyFailed(s), \A n \in DOMAIN s.pend : s.pend[n].st # "taken", NEW t, t = Collected(s)
  PROVE  /\ IsStream(t) /\ Nums(t) = Nums(s) \cup In(s, "ok")
         /\ DOMAIN t.pend = In(s, "run") /\ \A n \in In(s, "run") : t.pend[n] = s.pend[n]
         /\ DOMAIN s.pend = In(s, "run") \cup In(s, "ok")
         /\ t.buf = s.buf /\ t.took = s.took /\ t.cur = s.cur /\ t.written = s.written /\ t.ids = s.ids
         /\ t.fin = s.fin /\ t.abt = s.abt /\ t.bad = s.bad /\ t.shared = s.shared
<1>0. s \in Streams /\ StreamHolds(s) /\ s.pend \in Lists /\ s.cur \in Nat \ {0} BY DEF IsStream, Streams
<1>1. In(s, "fail") = {} BY DEF AnyFailed
<1>2. FirstFailed(s) = s.cur BY <1>0, <1>1, FirstFailedIs
<1>3. \A n \in DOMAIN s.pend : n \in Nat /\ n < s.cur BY <1>0 DEF StreamHolds
<1>4. \A n \in DOMAIN s.pend : s.pend[n].st \in {"run", "ok", "fail", "taken"} BY <1>0, ListParts DEF Pending
<1>5. DOMAIN s.pend = In(s, "run") \cup In(s, "ok") BY <1>1, <1>4 DEF In
<1> DEFINE D == In(s, "run") \cup {m \in DOMAIN s.pend : m >= s.cur}
<1> DEFINE l == [n \in D |-> IF n = s.cur THEN [s.pend[n] EXCEPT !.st = "taken"] ELSE s.pend[n]]
<1> DEFINE d == s.done \cup Etags(s)
<1>6. D = In(s, "run") BY <1>0, <1>3 DEF In
<1>7. DOMAIN l = In(s, "run") /\ \A n \in In(s, "run") : l[n] = s.pend[n] BY <1>3, <1>6 DEF In
<1>8. Etags(s) = {[num |-> n, etag |-> s.pend[n].etag] : n \in In(s, "ok")}
  BY <1>2, <1>3 DEF Etags, In
<1>9. {p.num : p \in d} = Nums(s) \cup In(s, "ok")
  <2>1. {p.num : p \in Etags(s)} = In(s, "ok")
    <3>1. ASSUME NEW n \in In(s, "ok") PROVE \E p \in Etags(s) : p.num = n
      <4>1. [num |-> n, etag |-> s.pend[n].etag] \in Etags(s) BY <1>8
      <4>2. QED BY <4>1
    <3>2. ASSUME NEW p \in Etags(s) PROVE p.num \in In(s, "ok")
      <4>1. PICK n \in In(s, "ok") : p = [num |-> n, etag |-> s.pend[n].etag] BY <1>8
      <4>2. p.num = n BY <4>1
      <4>3. QED BY <4>2
    <3>3. QED BY <3>1, <3>2
  <2>2. QED BY <2>1 DEF Nums
<1>10. t = [s EXCEPT !.pend = l, !.done = d] BY <1>2 DEF Collected
<1> HIDE DEF l, d, D
<1>11. /\ t.pend = l /\ t.done = d /\ t.buf = s.buf /\ t.took = s.took /\ t.cur = s.cur /\ t.written = s.written /\ t.ids = s.ids
       /\ t.fin = s.fin /\ t.abt = s.abt /\ t.bad = s.bad /\ t.shared = s.shared
  BY <1>0, <1>10 DEF Streams
<1>12. QED BY <1>5, <1>7, <1>9, <1>11, CollectedType DEF Nums

\* A stream that has collected is still in order.
LEMMA CollectedWorks ==
  ASSUME NEW c \in Callers, NEW s, IsStream(s), ~AnyFailed(s), NEW x, x.pc = "slot", Works(c, s, x), NEW t, t = Collected(s)
  PROVE  /\ Works(c, t, x) /\ Sent(t, x) = Sent(s, x)
         /\ \A n \in Nat : PartAt(c, t, n) = PartAt(c, s, n)
         /\ Nums(t) \cup In(t, "ok") = Nums(s) \cup In(s, "ok")
         /\ DOMAIN t.pend = In(t, "run")
<1>1. Handed(c, s, x) BY DEF Works
<1>2. \A n \in DOMAIN s.pend : s.pend[n].st # "taken" BY <1>1 DEF Handed
<1>3. /\ Nums(t) = Nums(s) \cup In(s, "ok")
      /\ DOMAIN t.pend = In(s, "run") /\ \A n \in In(s, "run") : t.pend[n] = s.pend[n]
      /\ DOMAIN s.pend = In(s, "run") \cup In(s, "ok")
      /\ t.buf = s.buf /\ t.took = s.took /\ t.cur = s.cur /\ t.written = s.written
  BY <1>2, CollectedIs
<1>4. \A n \in DOMAIN t.pend : t.pend[n] = s.pend[n] /\ s.pend[n].st = "run" /\ n \in DOMAIN s.pend BY <1>3 DEF In
<1>5. In(t, "ok") = {} /\ In(t, "run") = DOMAIN t.pend BY <1>4 DEF In
<1>6. Sent(t, x) = Sent(s, x) BY <1>3 DEF Sent, Tailed
<1>7. Handed(c, t, x)
  <2>1. Nums(t) \cup DOMAIN t.pend = Nums(s) \cup DOMAIN s.pend BY <1>3
  <2>2. QED BY <1>1, <1>4, <1>6, <2>1 DEF Handed
<1>8. Filled(c, t, x) /\ Tallied(t, x) BY <1>3 DEF Works, Filled, Tallied
<1>9. \A n \in Nat : PartAt(c, t, n) = PartAt(c, s, n) BY <1>3 DEF PartAt
<1>10. QED BY <1>3, <1>5, <1>6, <1>7, <1>8, <1>9 DEF Works

LEMMA WaitForSlotSound == ASSUME Types, NEW c \in Callers, Sound(c), WaitForSlot(c) PROVE Sound(c)'
<1>1. CASE WriteFails(c) BY <1>1, WriteFailsSound
<1>2. CASE ~CollectFails(strm[c])
  <2> DEFINE s == strm[c]
  <2> DEFINE x == call[c]
  <2>0. StreamsType /\ IsStream(s) BY DEF Types, StreamsType
  <2>1. strm' = [strm EXCEPT ![c] = Collected(s)] /\ call' = call /\ x.pc = "slot" /\ UNCHANGED <<conf, uploads, blocks>>
    BY <1>2 DEF WaitForSlot, SetStream, At
  <2> DEFINE t == strm'[c]
  <2>2. t = Collected(s) BY <2>0, <2>1 DEF StreamsType
  <2>3. ~AnyFailed(s) BY <1>2 DEF CollectFails
  <2> HIDE DEF s, t
  <2>4. s \in Streams BY <2>0 DEF IsStream
  <2>5. t.fin = s.fin /\ t.abt = s.abt /\ t.bad = s.bad /\ t.shared = s.shared /\ t.ids = s.ids
    BY <2>2, <2>4 DEF Collected, Streams
  <2>6. Course(t, x) BY <2>1, <2>5 DEF Sound, StreamPlaces, Course, s
  <2>7. ASSUME Going(t, x)
        PROVE  /\ Works(c, t, x)
               /\ Is("s3") /\ uploads[c].open => Kept(c, t, x, uploads[c].parts)
               /\ Is("azure") => IdsListed(t, x)
               /\ Is("azure") /\ ~t.shared => Stored(c, t, blocks[x.key])
    <3>1. Going(s, x) BY <2>5, <2>7 DEF Going
    <3>2. /\ Works(c, s, x)
          /\ Is("s3") /\ uploads[c].open => Kept(c, s, x, uploads[c].parts)
          /\ Is("azure") => IdsListed(s, x)
          /\ Is("azure") /\ ~s.shared => Stored(c, s, blocks[x.key])
      BY <3>1 DEF Sound, s
    <3>3. /\ Works(c, t, x) /\ Sent(t, x) = Sent(s, x)
          /\ \A n \in Nat : PartAt(c, t, n) = PartAt(c, s, n)
          /\ Nums(t) \cup In(t, "ok") = Nums(s) \cup In(s, "ok")
      BY <2>0, <2>1, <2>2, <2>3, <3>2, CollectedWorks
    <3>4. Is("s3") /\ uploads[c].open => Kept(c, t, x, uploads[c].parts)
      <4>1. s.cur \in Nat \ {0} BY <2>4 DEF Streams
      <4>2. Sent(s, x) \in Nat BY <4>1, <2>1, FirstIs
      <4>3. QED BY <3>2, <3>3, <4>2 DEF Kept
    <3>5. Is("azure") => IdsListed(t, x) BY <2>5, <3>2, <3>3 DEF IdsListed
    <3>6. Is("azure") /\ ~t.shared => Stored(c, t, blocks[x.key])
      <4>1. Nums(s) \cup In(s, "ok") \subseteq Nat
        <5>1. s.done \in SUBSET [num : Nat, etag : Etag] /\ s.pend \in Lists BY <2>4 DEF Streams
        <5>2. QED BY <5>1, ListParts DEF Nums, In
      <4>2. QED BY <2>5, <3>2, <3>3, <4>1 DEF Stored
    <3>7. QED BY <3>3, <3>4, <3>5, <3>6
  <2>8. QED BY <2>1, <2>6, <2>7 DEF Sound, Is, t
<1>3. QED BY <1>1, <1>2 DEF WaitForSlot

\* What handing the buffer to a thread makes of a stream.
Counting(s, w) == [s EXCEPT !.written = w]

LEMMA SubmittedIs ==
  ASSUME NEW s, IsStream(s), NEW w, NEW t, t = Counting(Submitted(s), w)
  PROVE  /\ t.cur = s.cur + 1 /\ t.buf = <<>> /\ t.written = w /\ t.done = s.done /\ t.took = s.took /\ t.ids = s.ids
         /\ t.fin = s.fin /\ t.abt = s.abt /\ t.bad = s.bad /\ t.shared = s.shared
         /\ DOMAIN t.pend = DOMAIN s.pend \cup {s.cur}
         /\ \A n \in DOMAIN s.pend : t.pend[n] = s.pend[n]
         /\ t.pend[s.cur].data = s.buf /\ t.pend[s.cur].st = "run"
<1>0. s \in Streams /\ StreamHolds(s) /\ s.cur \in Nat \ {0} BY DEF IsStream, Streams
<1> DEFINE p == [data |-> s.buf, st |-> "run", etag |-> "own"]
<1> DEFINE l == StoreIn(s.pend, s.cur, p)
<1>1. DOMAIN l = DOMAIN s.pend \cup {s.cur} /\ l[s.cur] = p /\ \A n \in DOMAIN s.pend : n # s.cur => l[n] = s.pend[n] BY DEF StoreIn
<1>2. p.data = s.buf /\ p.st = "run" OBVIOUS
<1>3. \A n \in DOMAIN s.pend : n # s.cur BY <1>0 DEF StreamHolds
<1> DEFINE k == s.cur + 1
<1> DEFINE e == <<>>
<1>4. t = [s EXCEPT !.pend = l, !.cur = k, !.buf = e, !.written = w] BY <1>0 DEF Counting, Submitted, Streams
<1> HIDE DEF l, p, k, e
<1>5. /\ t.cur = k /\ t.buf = e /\ t.written = w /\ t.done = s.done /\ t.took = s.took /\ t.ids = s.ids
      /\ t.fin = s.fin /\ t.abt = s.abt /\ t.bad = s.bad /\ t.shared = s.shared /\ t.pend = l
  BY <1>0, <1>4 DEF Streams
<1>6. QED BY <1>1, <1>2, <1>3, <1>5 DEF k, e

\* The buffer of s becomes a part of t.
HandsOver(s, t, w) ==
  /\ t.cur = s.cur + 1 /\ t.buf = <<>> /\ t.written = w /\ t.done = s.done /\ t.took = s.took
  /\ t.fin = s.fin /\ t.abt = s.abt /\ t.bad = s.bad /\ t.shared = s.shared
  /\ DOMAIN t.pend = DOMAIN s.pend \cup {s.cur}
  /\ \A n \in DOMAIN s.pend : t.pend[n] = s.pend[n]
  /\ t.pend[s.cur].data = s.buf /\ t.pend[s.cur].st = "run"

PutIn(s) ==
  CASE Is("s3")    -> UploadPartAsync(s)
    [] Is("gcs")   -> UploadChunkAsync(s)
    [] Is("azure") -> UploadBlockAsync(s)

LEMMA PutInIs ==
  ASSUME conf \in ScenarioType, NEW s, IsStream(s), NEW w, NEW t, t = Counting(PutIn(s), w)
  PROVE  HandsOver(s, t, w) /\ t.ids = IF Is("azure") THEN Append(s.ids, s.cur) ELSE s.ids
<1> DEFINE z == [Submitted(s) EXCEPT !.written = w]
<1>1. CASE Is("azure")
  <2>1. ~Is("s3") /\ ~Is("gcs") BY <1>1 DEF Is
  <2>2. t = [UploadBlockAsync(s) EXCEPT !.written = w] BY <1>1, <2>1 DEF Counting, PutIn
  <2>3. Submitted(s) \in Streams BY SubmittedType DEF IsStream
  <2>4. s \in Streams BY DEF IsStream
  <2>5. Submitted(s).ids = s.ids BY <2>4 DEF Submitted, Streams
  <2> DEFINE j == Append(s.ids, s.cur)
  <2>6. UploadBlockAsync(s) = [Submitted(s) EXCEPT !.ids = j] BY <2>3, <2>5 DEF UploadBlockAsync, Streams
  <2> HIDE DEF j
  <2> DEFINE u == Submitted(s)
  <2> HIDE DEF u
  <2>7. t = [[u EXCEPT !.ids = j] EXCEPT !.written = w] BY <2>2, <2>6 DEF u
  <2>8. u \in Streams BY <2>3 DEF u
  <2>9. /\ t.ids = j /\ t.cur = u.cur /\ t.buf = u.buf /\ t.written = w /\ t.done = u.done /\ t.took = u.took
        /\ t.fin = u.fin /\ t.abt = u.abt /\ t.bad = u.bad /\ t.shared = u.shared /\ t.pend = u.pend
    BY <2>7, <2>8 DEF Streams
  <2>10. z = [u EXCEPT !.written = w] BY DEF u
  <2>11. /\ z.cur = u.cur /\ z.buf = u.buf /\ z.written = w /\ z.done = u.done /\ z.took = u.took
         /\ z.fin = u.fin /\ z.abt = u.abt /\ z.bad = u.bad /\ z.shared = u.shared /\ z.pend = u.pend
    BY <2>8, <2>10 DEF Streams
  <2> HIDE DEF z
  <2>12. z = Counting(Submitted(s), w) BY DEF z, Counting
  <2>13. /\ z.cur = s.cur + 1 /\ z.buf = <<>> /\ z.written = w /\ z.done = s.done /\ z.took = s.took
         /\ z.fin = s.fin /\ z.abt = s.abt /\ z.bad = s.bad /\ z.shared = s.shared
         /\ DOMAIN z.pend = DOMAIN s.pend \cup {s.cur}
         /\ \A n \in DOMAIN s.pend : z.pend[n] = s.pend[n]
         /\ z.pend[s.cur].data = s.buf /\ z.pend[s.cur].st = "run"
    BY <2>12, SubmittedIs
  <2>14. t.ids = Append(s.ids, s.cur) BY <2>9 DEF j
  <2>15. QED BY <1>1, <2>9, <2>11, <2>13, <2>14 DEF HandsOver
<1>2. CASE ~Is("azure")
  <2>1. t = z BY <1>2, ProviderIs DEF Counting, PutIn, UploadPartAsync, UploadChunkAsync
  <2>3. z = Counting(Submitted(s), w) BY DEF Counting
  <2> HIDE DEF z
  <2>4. /\ z.cur = s.cur + 1 /\ z.buf = <<>> /\ z.written = w /\ z.done = s.done /\ z.took = s.took /\ z.ids = s.ids
        /\ z.fin = s.fin /\ z.abt = s.abt /\ z.bad = s.bad /\ z.shared = s.shared
        /\ DOMAIN z.pend = DOMAIN s.pend \cup {s.cur}
        /\ \A n \in DOMAIN s.pend : z.pend[n] = s.pend[n]
        /\ z.pend[s.cur].data = s.buf /\ z.pend[s.cur].st = "run"
    BY <2>3, SubmittedIs
  <2>5. QED BY <1>2, <2>1, <2>4 DEF HandsOver
<1>3. QED BY <1>1, <1>2

\* A part handed to a thread.
LEMMA PutInWorks ==
  ASSUME NEW c \in Callers, NEW s, IsStream(s), NEW x, x.pc = "slot", Works(c, s, x), DOMAIN s.pend = In(s, "run"),
         x.todo \in Nat, x.n \in Nat,
         NEW t, NEW y, y.pc = IF x.todo = 0 THEN "user" ELSE "fill", y.n = x.n, y.todo = x.todo,
         HandsOver(s, t, IF x.todo = 0 THEN s.written + x.n ELSE s.written)
  PROVE  /\ Works(c, t, y) /\ Sent(t, y) = s.cur /\ Sent(s, x) = s.cur - 1
         /\ \A n \in 1..(s.cur - 1) : PartAt(c, t, n) = PartAt(c, s, n)
         /\ Nums(t) \cup In(t, "ok") = Nums(s) \cup In(s, "ok") /\ Nums(s) \cup In(s, "ok") \subseteq 1..(s.cur - 1)
<1> USE DEF HandsOver
<1>0. s \in Streams /\ s.cur \in Nat \ {0} /\ s.written \in Nat /\ s.took \in Seq(Piece) BY DEF IsStream, Streams, Data
<1>1. Filled(c, s, x) /\ Tallied(s, x) /\ Handed(c, s, x) BY DEF Works
<1>2. t.cur - 1 = s.cur /\ Sent(t, y) = s.cur /\ Sent(s, x) = s.cur - 1
  <2>1. t.cur - 1 = s.cur BY <1>0
  <2>2. y.pc \notin {"waitall", "commit"} OBVIOUS
  <2>3. QED BY <2>1, <2>2 DEF Sent, Tailed
<1>3. Len(s.buf) = PartSize /\ Len(t.buf) = 0 BY <1>1 DEF Filled
<1>4. Len(s.took) \in Nat BY <1>0, LenProperties
<1>5. Filled(c, t, y)
  <2>1. Len(s.took) = (s.cur - 1) * PartSize + PartSize BY <1>1, <1>3 DEF Filled
  <2>2. (s.cur - 1) * PartSize + PartSize = s.cur * PartSize /\ s.cur * PartSize \in Nat BY <1>0, TimesLess
  <2>3. Len(t.took) = (t.cur - 1) * PartSize + Len(t.buf) BY <1>2, <1>3, <2>1, <2>2
  <2>4. t.buf = Part(c, t.cur, Len(t.buf)) BY <1>3, NoUnits DEF Part
  <2>5. t.took = From(c, 0, Len(t.took)) BY <1>1 DEF Filled
  <2>6. y.pc # "slot" /\ y.pc # "tail" OBVIOUS
  <2>7. QED BY <2>3, <2>4, <2>5, <2>6 DEF Filled
<1>6. Tallied(t, y)
  <2>1. x.todo <= x.n /\ s.written + x.n = Len(s.took) + x.todo BY <1>1 DEF Tallied
  <2>2. QED BY <1>0, <1>4, <2>1 DEF Tallied
<1>7. Nums(t) = Nums(s) BY DEF Nums
<1>8. \A n \in DOMAIN s.pend : s.pend[n].st = "run" /\ n # s.cur BY <1>0 DEF In, IsStream, StreamHolds
<1>9. In(t, "ok") = {} /\ In(s, "ok") = {} BY <1>8 DEF In
<1>10. Nums(s) \cup DOMAIN s.pend = 1..(s.cur - 1) BY <1>1, <1>2 DEF Handed
<1>11. Handed(c, t, y)
  <2>1. \A n \in DOMAIN s.pend : t.pend[n].data = Part(c, n, PartSize) /\ t.pend[n].st # "taken" BY <1>1 DEF Handed
  <2>2. t.pend[s.cur].data = Part(c, s.cur, PartSize) BY <1>1, <1>3 DEF Filled
  <2>3. \A n \in DOMAIN t.pend : t.pend[n].data = Part(c, n, PartSize) /\ t.pend[n].st # "taken" BY <2>1, <2>2
  <2>4. Nums(t) \cup DOMAIN t.pend = 1..s.cur BY <1>0, <1>7, <1>10
  <2>5. QED BY <1>2, <2>3, <2>4 DEF Handed
<1>12. \A n \in 1..(s.cur - 1) : PartAt(c, t, n) = PartAt(c, s, n) BY <1>0 DEF PartAt
<1>13. QED BY <1>2, <1>5, <1>6, <1>7, <1>9, <1>10, <1>11, <1>12 DEF Works

LEMMA AppendOne ==
  ASSUME NEW n \in Nat, NEW m, m = n + 1 PROVE Append([i \in 1..n |-> i], m) = [i \in 1..m |-> i]
<1> DEFINE s == [i \in 1..n |-> i]
<1> DEFINE t == [i \in 1..m |-> i]
<1>1. s \in Seq(Nat) /\ Len(s) = n /\ t \in Seq(Nat) /\ Len(t) = m OBVIOUS
<1>2. \A i \in 1..n : s[i] = i OBVIOUS
<1>3. \A i \in 1..m : t[i] = i OBVIOUS
<1> HIDE DEF s, t
<1>4. /\ Append(s, m) \in Seq(Nat) /\ Len(Append(s, m)) = m /\ Append(s, m)[m] = m
      /\ \A i \in 1..n : Append(s, m)[i] = s[i]
  BY <1>1, AppendProperties
<1>5. \A i \in 1..m : Append(s, m)[i] = t[i] BY <1>2, <1>3, <1>4
<1>6. Append(s, m) = t BY <1>1, <1>4, <1>5, SeqEqual
<1>7. QED BY <1>6 DEF s, t

LEMMA SubmitSound == ASSUME Types, NEW c \in Callers, Sound(c), Submit(c) PROVE Sound(c)'
<1>1. CASE WriteFails(c) BY <1>1, WriteFailsSound
<1>2. CASE ~CollectFails(strm[c])
  <2> DEFINE s == strm[c]
  <2> DEFINE x == call[c]
  <2> DEFINE z == Collected(s)
  <2> DEFINE t == strm'[c]
  <2> DEFINE y == call'[c]
  <2>0. CallType /\ StreamsType /\ IsStream(s) /\ conf \in ScenarioType /\ x.todo \in Nat /\ x.n \in Nat
    BY CallParts DEF Types, StreamsType
  <2>1. x.pc = "slot" /\ UNCHANGED <<conf, uploads, blocks>> /\ ~AnyFailed(s) BY <1>2 DEF Submit, At, CollectFails
  <2>2. IF x.todo = 0 THEN Returns(c, "written") ELSE Go(c, "fill") BY <1>2 DEF Submit
  <2>3. /\ y.pc = IF x.todo = 0 THEN "user" ELSE "fill"
        /\ y.res = IF x.todo = 0 THEN "written" ELSE x.res
        /\ y.n = x.n /\ y.todo = x.todo /\ y.key = x.key
    BY <2>0, <2>2, ReturnsTo, GoesOn
  <2> DEFINE w == IF x.todo = 0 THEN s.written + x.n ELSE s.written
  <2> DEFINE u == CASE Is("s3")    -> UploadPartAsync(z)
                    [] Is("gcs")   -> UploadChunkAsync(z)
                    [] Is("azure") -> UploadBlockAsync(z)
  <2>4. t = [u EXCEPT !.written = w]
    <3>1. strm' = [strm EXCEPT ![c] = [u EXCEPT !.written = IF x.todo = 0 THEN u.written + x.n ELSE u.written]]
      BY <1>2 DEF Submit, SetStream
    <3>2. t = [u EXCEPT !.written = IF x.todo = 0 THEN u.written + x.n ELSE u.written] BY <2>0, <3>1 DEF StreamsType
    <3>3. u.written = s.written
      <4>1. IsStream(z) BY <2>0, CollectedType
      <4>2. z \in Streams BY <4>1 DEF IsStream
      <4>3. z.written = s.written BY <2>0 DEF Collected, IsStream, Streams
      <4> HIDE DEF z
      <4>4. Submitted(z).written = z.written BY <4>2 DEF Submitted, Streams
      <4>5. Submitted(z) \in Streams BY <4>1, SubmittedType DEF IsStream
      <4> DEFINE v == Submitted(z)
      <4> HIDE DEF v
      <4> DEFINE j == Append(v.ids, z.cur)
      <4>6. UploadBlockAsync(z) = [v EXCEPT !.ids = j] BY DEF UploadBlockAsync, v
      <4> HIDE DEF j
      <4>7. UploadBlockAsync(z).written = v.written BY <4>5, <4>6 DEF Streams, v
      <4>8. QED BY <2>0, <4>3, <4>4, <4>7, ProviderIs DEF UploadPartAsync, UploadChunkAsync, v
    <3>4. QED BY <3>2, <3>3
  <2>5. IsStream(z) BY <2>0, CollectedType
  <2>6. HandsOver(z, t, w) /\ t.ids = IF Is("azure") THEN Append(z.ids, z.cur) ELSE z.ids
    <3>1. t = Counting(PutIn(z), w) BY <2>4 DEF Counting, PutIn
    <3> HIDE DEF t, z, w, u
    <3>2. QED BY <2>0, <2>5, <3>1, PutInIs
  <2>7. /\ z.fin = s.fin /\ z.abt = s.abt /\ z.bad = s.bad /\ z.shared = s.shared /\ z.ids = s.ids /\ z.written = s.written
        /\ z.cur = s.cur /\ s.cur \in Nat \ {0}
    BY <2>0 DEF Collected, IsStream, Streams
  <2>8. Course(s, x) BY <2>1 DEF Sound, StreamPlaces
  <2>13. z = Collected(s) OBVIOUS
  <2> HIDE DEF s, x, z, t, y, u
  <2>9. Course(t, y)
    <3>1. ~s.abt /\ x.res # "stored" /\ ~s.fin BY <2>1, <2>8 DEF Course, Busy
    <3>2. y.pc \in {"user", "fill"} /\ y.res # "stored" BY <2>3, <3>1
    <3>3. QED BY <2>6, <2>7, <3>1, <3>2 DEF Course, HandsOver
  <2>10. ASSUME Going(t, y)
         PROVE  /\ Works(c, t, y)
                /\ Is("s3") /\ uploads[c].open => Kept(c, t, y, uploads[c].parts)
                /\ Is("azure") => IdsListed(t, y)
                /\ Is("azure") /\ ~t.shared => Stored(c, t, blocks[y.key])
    <3>1. Going(s, x)
      <4>1. ~s.fin BY <2>1, <2>8 DEF Course, Busy
      <4>2. QED BY <2>1, <2>6, <2>7, <2>10, <4>1 DEF HandsOver, Going, StreamPlaces
    <3>2. /\ Works(c, s, x)
          /\ Is("s3") /\ uploads[c].open => Kept(c, s, x, uploads[c].parts)
          /\ Is("azure") => IdsListed(s, x)
          /\ Is("azure") /\ ~s.shared => Stored(c, s, blocks[x.key])
      BY <3>1 DEF Sound, s, x
    <3>3. /\ Works(c, z, x) /\ Sent(z, x) = Sent(s, x)
          /\ \A n \in Nat : PartAt(c, z, n) = PartAt(c, s, n)
          /\ Nums(z) \cup In(z, "ok") = Nums(s) \cup In(s, "ok")
          /\ DOMAIN z.pend = In(z, "run")
      BY <2>0, <2>1, <2>13, <3>2, CollectedWorks
    <3>4. w = IF x.todo = 0 THEN z.written + x.n ELSE z.written BY <2>7 DEF x, s
    <3>a. HandsOver(z, t, IF x.todo = 0 THEN z.written + x.n ELSE z.written) BY <2>6, <3>4
    <3> HIDE DEF w
    <3>5. /\ Works(c, t, y) /\ Sent(t, y) = z.cur /\ Sent(z, x) = z.cur - 1
          /\ \A n \in 1..(z.cur - 1) : PartAt(c, t, n) = PartAt(c, z, n)
          /\ Nums(t) \cup In(t, "ok") = Nums(z) \cup In(z, "ok") /\ Nums(z) \cup In(z, "ok") \subseteq 1..(z.cur - 1)
      BY <2>0, <2>1, <2>3, <2>5, <3>a, <3>3, PutInWorks DEF x
    <3>6. Is("s3") /\ uploads[c].open => Kept(c, t, y, uploads[c].parts)
      <4>1. ASSUME Kept(c, s, x, uploads[c].parts) PROVE Kept(c, t, y, uploads[c].parts)
        <5>1. \A n \in 1..(z.cur - 1) : n \in 1..z.cur /\ PartAt(c, t, n) = PartAt(c, s, n) BY <2>7, <3>3, <3>5
        <5>2. Sent(s, x) = z.cur - 1 BY <3>3, <3>5
        <5>3. QED BY <3>5, <4>1, <5>1, <5>2 DEF Kept
      <4>2. QED BY <3>2, <4>1
    <3>7. Is("azure") => IdsListed(t, y)
      <4>1. ASSUME Is("azure") PROVE IdsListed(t, y)
        <5>1. s.ids = [i \in 1..(s.cur - 1) |-> i] BY <2>7, <3>2, <3>3, <3>5, <4>1 DEF IdsListed
        <5>2. s.cur - 1 \in Nat /\ s.cur = (s.cur - 1) + 1 BY <2>7
        <5>3. Append(s.ids, s.cur) = [i \in 1..s.cur |-> i] BY <5>1, <5>2, AppendOne
        <5>4. QED BY <2>6, <2>7, <3>5, <4>1, <5>3 DEF IdsListed
      <4>2. QED BY <4>1
    <3>8. Is("azure") /\ ~t.shared => Stored(c, t, blocks[y.key])
      <4>1. ASSUME Stored(c, s, blocks[x.key]) PROVE Stored(c, t, blocks[x.key])
        <5>1. \A n \in 1..(z.cur - 1) : PartAt(c, t, n) = PartAt(c, s, n) BY <2>7, <3>3, <3>5
        <5>2. QED BY <3>3, <3>5, <4>1, <5>1 DEF Stored
      <4>2. QED BY <2>3, <2>6, <2>7, <3>2, <4>1 DEF x, HandsOver
    <3>9. QED BY <3>5, <3>6, <3>7, <3>8
  <2>11. QED BY <2>1, <2>9, <2>10 DEF Sound, Is, t, y
<1>3. QED BY <1>1, <1>2 DEF Submit

LEMMA FailedSound ==
  ASSUME NEW c \in Callers, strm'[c].bad, call'[c].pc \in {"user", "undo"}, call'[c].res = "failed" PROVE Sound(c)'
BY StopsGoing DEF Course, Busy, Going

LEMMA FailedIs == ASSUME NEW s \in Streams PROVE Failed(s).bad
BY DEF Failed, Streams

LEMMA UndoOrReturnTo ==
  ASSUME CallType, NEW c \in Callers,
         IF Is("s3") THEN call' = [call EXCEPT ![c].pc = "undo", ![c].res = "failed", ![c].next = "user"] ELSE Returns(c, "failed")
  PROVE  call'[c].pc \in {"user", "undo"} /\ call'[c].res = "failed" /\ call'[c].key = call[c].key
<1>1. CASE call' = [call EXCEPT ![c].pc = "undo", ![c].res = "failed", ![c].next = "user"]
  <2>1. call'[c].pc = "undo" /\ call'[c].res = "failed" /\ call'[c].key = call[c].key BY <1>1, UndoesTo
  <2>2. QED BY <2>1
<1>2. CASE Returns(c, "failed")
  <2>1. call'[c].pc = "user" /\ call'[c].res = "failed" /\ call'[c].key = call[c].key BY <1>2, ReturnsTo
  <2>2. QED BY <2>1
<1>3. QED BY <1>1, <1>2

\* Where no part failed, finalize waits for all of them.
Finished(s) == [Waited(s) EXCEPT !.fin = TRUE]

LEMMA WaitedIs ==
  ASSUME NEW s, IsStream(s), ~AnyFailed(s), WaitEnds(s), \A n \in DOMAIN s.pend : s.pend[n].st # "taken",
         NEW t, t = Finished(s)
  PROVE  /\ Nums(t) = Nums(s) \cup DOMAIN s.pend /\ DOMAIN t.pend = {} /\ In(s, "ok") = DOMAIN s.pend
         /\ t.buf = s.buf /\ t.took = s.took /\ t.cur = s.cur /\ t.written = s.written /\ t.ids = s.ids
         /\ t.fin /\ t.abt = s.abt /\ t.bad = s.bad /\ t.shared = s.shared
<1>0. s \in Streams /\ StreamHolds(s) /\ s.pend \in Lists /\ s.cur \in Nat \ {0} BY DEF IsStream, Streams
<1>1. In(s, "fail") = {} BY DEF AnyFailed
<1>2. FirstFailed(s) = s.cur BY <1>0, <1>1, FirstFailedIs
<1>3. \A n \in DOMAIN s.pend : n \in Nat /\ n < s.cur BY <1>0 DEF StreamHolds
<1>4. In(s, "run") = {}
  <2>1. \A n \in In(s, "run") : n > s.cur BY <1>2 DEF WaitEnds
  <2>2. \A n \in In(s, "run") : n \in DOMAIN s.pend BY DEF In
  <2>3. \A n \in In(s, "run") : FALSE BY <1>0, <1>3, <2>1, <2>2
  <2>4. QED BY <2>3
<1>5. \A n \in DOMAIN s.pend : s.pend[n].st \in {"run", "ok", "fail", "taken"} BY <1>0, ListParts DEF Pending
<1>6. DOMAIN s.pend = In(s, "ok") BY <1>1, <1>4, <1>5 DEF In
<1> DEFINE l == [n \in IF AnyFailed(s) THEN DOMAIN s.pend ELSE {} |-> IF n <= s.cur THEN [s.pend[n] EXCEPT !.st = "taken"] ELSE s.pend[n]]
<1> DEFINE d == s.done \cup Etags(s)
<1>7. DOMAIN l = {} OBVIOUS
<1>8. Etags(s) = {[num |-> n, etag |-> s.pend[n].etag] : n \in In(s, "ok")} BY <1>2, <1>3 DEF Etags, In
<1>9. {p.num : p \in d} = Nums(s) \cup In(s, "ok")
  <2>1. {p.num : p \in Etags(s)} = In(s, "ok")
    <3>1. ASSUME NEW n \in In(s, "ok") PROVE \E p \in Etags(s) : p.num = n
      <4>1. [num |-> n, etag |-> s.pend[n].etag] \in Etags(s) BY <1>8
      <4>2. QED BY <4>1
    <3>2. ASSUME NEW p \in Etags(s) PROVE p.num \in In(s, "ok")
      <4>1. PICK n \in In(s, "ok") : p = [num |-> n, etag |-> s.pend[n].etag] BY <1>8
      <4>2. p.num = n BY <4>1
      <4>3. QED BY <4>2
    <3>3. QED BY <3>1, <3>2
  <2>2. QED BY <2>1 DEF Nums
<1>10. Waited(s) = [s EXCEPT !.pend = l, !.done = d] BY <1>2 DEF Waited
<1> HIDE DEF l, d
<1>11. t = [s EXCEPT !.pend = l, !.done = d, !.fin = TRUE] BY <1>0, <1>10 DEF Finished, Streams
<1>12. /\ t.pend = l /\ t.done = d /\ t.buf = s.buf /\ t.took = s.took /\ t.cur = s.cur /\ t.written = s.written /\ t.ids = s.ids
       /\ t.fin /\ t.abt = s.abt /\ t.bad = s.bad /\ t.shared = s.shared
  BY <1>0, <1>11 DEF Streams
<1>13. QED BY <1>6, <1>7, <1>9, <1>12 DEF Nums

LEMMA WaitAllSound == ASSUME Types, NEW c \in Callers, Sound(c), WaitAll(c) PROVE Sound(c)'
<1> DEFINE s == strm[c]
<1> DEFINE x == call[c]
<1> DEFINE t == strm'[c]
<1> DEFINE y == call'[c]
<1>0. CallType /\ StreamsType /\ IsStream(s) /\ s \in Streams BY StreamParts DEF Types, StreamsType
<1>1. x.pc = "waitall" /\ UNCHANGED <<conf, uploads, blocks>> /\ WaitEnds(s) BY DEF WaitAll, At
<1>2. CASE AnyFailed(s)
  <2>1. t = Failed(Waited(s)) BY <1>0, <1>2 DEF WaitAll, SetStream, StreamsType
  <2>2. t.bad BY <1>0, <2>1, WaitedType, FailedIs, Zenon DEF IsStream
  <2>3. y.pc \in {"user", "undo"} /\ y.res = "failed" BY <1>0, <1>2, UndoOrReturnTo DEF WaitAll
  <2>4. QED BY <2>2, <2>3, FailedSound
<1>3. CASE ~AnyFailed(s)
  <2>1. t = Finished(s) BY <1>0, <1>3 DEF Finished, WaitAll, SetStream, StreamsType
  <2>2. y.pc = "commit" /\ y.res = x.res /\ y.key = x.key /\ y.n = x.n /\ y.todo = x.todo BY <1>0, <1>3, GoesOn, Zenon DEF WaitAll
  <2>3. Waited(s).abt = s.abt /\ Waited(s).bad = s.bad /\ Waited(s) \in Streams
    <3>1. Waited(s) \in Streams BY <1>0, WaitedType DEF IsStream
    <3>2. QED BY <1>0, <3>1, Zenon DEF Waited, Streams
  <2>4. t.fin /\ t.abt = s.abt /\ t.bad = s.bad BY <2>1, <2>3 DEF Finished, Streams
  <2>5. Course(s, x) BY <1>1 DEF Sound, StreamPlaces
  <2> HIDE DEF s, x, t, y
  <2>6. Course(t, y) BY <1>1, <2>2, <2>4, <2>5 DEF Course, Busy
  <2>7. ASSUME Going(t, y)
        PROVE  /\ Works(c, t, y)
               /\ Is("s3") /\ uploads[c].open => Kept(c, t, y, uploads[c].parts)
               /\ Is("azure") => IdsListed(t, y)
               /\ Is("azure") /\ ~t.shared => Stored(c, t, blocks[y.key])
    <3>1. Going(s, x) BY <1>1, <2>4, <2>5, <2>7 DEF Going, Course, Busy, StreamPlaces
    <3>2. /\ Works(c, s, x)
          /\ Is("s3") /\ uploads[c].open => Kept(c, s, x, uploads[c].parts)
          /\ Is("azure") => IdsListed(s, x)
          /\ Is("azure") /\ ~s.shared => Stored(c, s, blocks[x.key])
      BY <3>1 DEF Sound, s, x
    <3>3. \A n \in DOMAIN s.pend : s.pend[n].st # "taken" BY <3>2 DEF Works, Handed
    <3>4. /\ Nums(t) = Nums(s) \cup DOMAIN s.pend /\ DOMAIN t.pend = {} /\ In(s, "ok") = DOMAIN s.pend
          /\ t.buf = s.buf /\ t.took = s.took /\ t.cur = s.cur /\ t.written = s.written /\ t.ids = s.ids
          /\ t.shared = s.shared
      BY <1>0, <1>1, <1>3, <2>1, <3>3, WaitedIs
    <3>5. Sent(t, y) = Sent(s, x) BY <1>1, <2>2, <3>4 DEF Sent, Tailed
    <3>6. Filled(c, t, y) /\ Tallied(t, y) BY <1>1, <2>2, <3>2, <3>4 DEF Works, Filled, Tallied
    <3>7. Handed(c, t, y) BY <2>2, <3>2, <3>4, <3>5 DEF Works, Handed
    <3>8. Kept(c, s, x, uploads[c].parts) => Kept(c, t, y, uploads[c].parts) BY <3>4, <3>5 DEF Kept, PartAt
    <3>9. IdsListed(s, x) => IdsListed(t, y) BY <3>4, <3>5 DEF IdsListed
    <3>10. In(t, "ok") = {} BY <3>4 DEF In
    <3>11. Stored(c, s, blocks[x.key]) => Stored(c, t, blocks[x.key]) BY <3>4, <3>10 DEF Stored, PartAt
    <3>12. QED BY <2>2, <3>2, <3>4, <3>6, <3>7, <3>8, <3>9, <3>11 DEF Works
  <2>8. QED BY <1>1, <2>6, <2>7 DEF Sound, Is, t, y
<1>4. QED BY <1>2, <1>3

\* What the provider makes of a part.
LEMMA SendsIs ==
  ASSUME Types, NEW c \in Callers, NEW num, NEW data, NEW f, call[c].key \in Keys, Sends(c, num, data, f, Result(c, f))
  PROVE  /\ \A d \in Callers \ {c} : uploads'[d] = uploads[d]
         /\ uploads'[c].open = uploads[c].open
         /\ uploads'[c].parts = uploads[c].parts \/ uploads'[c].parts = StoreIn(uploads[c].parts, num, data)
         /\ \A k \in Keys \ {call[c].key} : blocks'[k] = blocks[k]
         /\ blocks'[call[c].key] = blocks[call[c].key] \/ blocks'[call[c].key] = StoreIn(blocks[call[c].key], num, data)
         /\ Is("azure") /\ Result(c, f).st = "ok" => blocks'[call[c].key] = StoreIn(blocks[call[c].key], num, data)
<1>0. uploads \in [Callers -> UploadRecords] /\ blocks \in [Keys -> Maps(Nat)] BY DEF Types
<1>1. CASE Is("s3") /\ S3UploadPart(c, num, data, f)
  <2>1. uploads[c] \in UploadRecords BY <1>0
  <2>2. uploads' = uploads \/ uploads' = [uploads EXCEPT ![c].parts = StoreIn(@, num, data)] BY <1>1 DEF S3UploadPart
  <2>3. blocks' = blocks /\ ~Is("azure") BY <1>1 DEF S3UploadPart, Is
  <2>4. CASE uploads' = uploads BY <2>3, <2>4
  <2>5. CASE uploads' = [uploads EXCEPT ![c].parts = StoreIn(@, num, data)]
    <3>1. uploads'[c] = [uploads[c] EXCEPT !.parts = StoreIn(@, num, data)] BY <1>0, <2>5
    <3>2. uploads'[c].open = uploads[c].open /\ uploads'[c].parts = StoreIn(uploads[c].parts, num, data)
      BY <2>1, <3>1 DEF UploadRecords
    <3>3. QED BY <1>0, <2>3, <2>5, <3>2
  <2>6. QED BY <2>2, <2>4, <2>5
<1>2. CASE Is("azure") /\ AzureUploadBlock(c, num, data, f)
  <2>1. uploads' = uploads /\ Result(c, f) = AzureBlockResult(f) BY <1>2 DEF AzureUploadBlock, Result, Is
  <2>2. Result(c, f).st = "ok" => f = "served" BY <2>1 DEF AzureBlockResult
  <2>3. blocks' = IF Acts(f) THEN [blocks EXCEPT ![call[c].key] = StoreIn(@, num, data)] ELSE blocks BY <1>2 DEF AzureUploadBlock
  <2>4. f = "served" => Acts(f) BY DEF Acts
  <2>5. QED BY <1>0, <2>1, <2>2, <2>3, <2>4
<1>3. CASE Is("gcs") /\ GcsUploadChunk BY <1>3 DEF GcsUploadChunk, Is
<1>4. QED BY <1>1, <1>2, <1>3 DEF Sends

\* A part added to what the provider has is right if it holds what the part of its number should.
LEMMA KeptStores ==
  ASSUME NEW c, NEW s, NEW x, NEW parts, NEW n \in 1..Sent(s, x), NEW d, d = PartAt(c, s, n), Kept(c, s, x, parts)
  PROVE  Kept(c, s, x, StoreIn(parts, n, d))
BY DEF StoreIn, Kept

LEMMA StoredStores ==
  ASSUME NEW c, NEW s, NEW t, NEW bl, NEW n, NEW d, d = PartAt(c, s, n), Stored(c, s, bl),
         Nums(t) \cup In(t, "ok") \subseteq Nums(s) \cup In(s, "ok") \cup {n},
         \A k \in Nums(t) \cup In(t, "ok") : PartAt(c, t, k) = PartAt(c, s, k)
  PROVE  Stored(c, t, StoreIn(bl, n, d))
<1> DEFINE m == StoreIn(bl, n, d)
<1>1. DOMAIN m = DOMAIN bl \cup {n} /\ m[n] = d /\ \A k \in DOMAIN bl : k # n => m[k] = bl[k] BY DEF StoreIn
<1> HIDE DEF m
<1>2. ASSUME NEW k \in Nums(t) \cup In(t, "ok") PROVE k \in DOMAIN m /\ m[k] = PartAt(c, t, k)
  <2>1. CASE k = n BY <1>1, <1>2, <2>1
  <2>2. CASE k # n
    <3>1. k \in DOMAIN bl /\ bl[k] = PartAt(c, s, k) BY <1>2, <2>2, Zenon DEF Stored
    <3>2. QED BY <1>1, <1>2, <2>2, <3>1
  <2>3. QED BY <2>1, <2>2
<1>3. QED BY <1>2 DEF Stored, m

LEMMA PartDoneIs ==
  ASSUME Types, NEW c \in Callers, PartDone(c)
  PROVE  \E n \in In(strm[c], "run"), f \in Fates :
           /\ Sends(c, n, strm[c].pend[n].data, f, Result(c, f))
           /\ Result(c, f).st \in {"ok", "fail"}
           /\ strm'[c].pend[n].data = strm[c].pend[n].data /\ strm'[c].pend[n].st = Result(c, f).st
           /\ DOMAIN strm'[c].pend = DOMAIN strm[c].pend
           /\ \A m \in DOMAIN strm[c].pend : m # n => strm'[c].pend[m] = strm[c].pend[m]
           /\ strm'[c].buf = strm[c].buf /\ strm'[c].took = strm[c].took /\ strm'[c].cur = strm[c].cur
           /\ strm'[c].written = strm[c].written /\ strm'[c].ids = strm[c].ids /\ strm'[c].done = strm[c].done
           /\ strm'[c].fin = strm[c].fin /\ strm'[c].abt = strm[c].abt /\ strm'[c].bad = strm[c].bad
           /\ strm'[c].shared = strm[c].shared
<1>0. StreamsType /\ strm[c] \in Streams /\ conf \in ScenarioType BY StreamParts DEF Types, StreamsType
<1>1. PICK n \in In(strm[c], "run"), f \in Fates :
        /\ Sends(c, n, strm[c].pend[n].data, f, Result(c, f))
        /\ strm' = [strm EXCEPT ![c].pend[n].st = Result(c, f).st, ![c].pend[n].etag = Result(c, f).etag]
  BY DEF PartDone
<1> DEFINE st == Result(c, f).st
<1> DEFINE e == Result(c, f).etag
<1>2. st \in {"ok", "fail"}
  BY <1>0, ProviderIs DEF Result, S3PartResult, AzureBlockResult, GcsChunkResult
<1>3. strm' = [strm EXCEPT ![c].pend[n].st = st, ![c].pend[n].etag = e] BY <1>1
<1> HIDE DEF st, e
<1> DEFINE s1 == [strm EXCEPT ![c].pend[n].st = st]
<1>4. strm' = [s1 EXCEPT ![c].pend[n].etag = e] BY <1>3
<1>5. DOMAIN s1 = Callers /\ s1[c] = [strm[c] EXCEPT !.pend[n].st = st] BY <1>0 DEF StreamsType
<1>6. strm'[c] = [s1[c] EXCEPT !.pend[n].etag = e] BY <1>4, <1>5
<1> HIDE DEF s1
<1> DEFINE s == strm[c]
<1> DEFINE t == strm'[c]
<1>7. s.pend \in Lists BY <1>0 DEF Streams
<1>8. n \in DOMAIN s.pend /\ s.pend \in [DOMAIN s.pend -> Pending] /\ s.pend[n] \in Pending BY <1>1, <1>7, ListParts DEF In
<1> DEFINE l1 == [s.pend EXCEPT ![n].st = st]
<1> DEFINE l2 == [l1 EXCEPT ![n].etag = e]
<1>9. DOMAIN l1 = DOMAIN s.pend /\ l1[n] = [s.pend[n] EXCEPT !.st = st] /\ \A m \in DOMAIN s.pend : m # n => l1[m] = s.pend[m] BY <1>8
<1>10. s1[c] = [s EXCEPT !.pend = l1] BY <1>5
<1> HIDE DEF l1
<1>11. s1[c].pend = l1 BY <1>0, <1>10 DEF Streams
<1>12. t = [s1[c] EXCEPT !.pend = l2] BY <1>6, <1>11
<1>13. DOMAIN l2 = DOMAIN s.pend /\ l2[n] = [l1[n] EXCEPT !.etag = e] /\ \A m \in DOMAIN s.pend : m # n => l2[m] = s.pend[m] BY <1>8, <1>9
<1>14. l2[n].data = s.pend[n].data /\ l2[n].st = st BY <1>8, <1>9, <1>13 DEF Pending
<1> HIDE DEF l2, s, t
<1>15. t = [s EXCEPT !.pend = l2] BY <1>10, <1>12, <1>0 DEF Streams, s
<1>16. /\ t.pend = l2 /\ t.buf = s.buf /\ t.took = s.took /\ t.cur = s.cur /\ t.written = s.written /\ t.ids = s.ids /\ t.done = s.done
       /\ t.fin = s.fin /\ t.abt = s.abt /\ t.bad = s.bad /\ t.shared = s.shared
  BY <1>0, <1>15 DEF Streams, s
<1>17. QED BY <1>1, <1>2, <1>13, <1>14, <1>16, Zenon DEF s, t, st

LEMMA PartDoneSound == ASSUME Types, Owns, NEW c \in Callers, Sound(c), PartDone(c) PROVE Sound(c)'
<1> DEFINE s == strm[c]
<1> DEFINE x == call[c]
<1> DEFINE t == strm'[c]
<1>0. CallType /\ StreamsType /\ IsStream(s) BY DEF Types, StreamsType
<1>1. call' = call /\ conf' = conf BY DEF PartDone
<1>2. PICK n \in In(s, "run"), f \in Fates :
        /\ Sends(c, n, s.pend[n].data, f, Result(c, f))
        /\ Result(c, f).st \in {"ok", "fail"}
        /\ t.pend[n].data = s.pend[n].data /\ t.pend[n].st = Result(c, f).st
        /\ DOMAIN t.pend = DOMAIN s.pend
        /\ \A m \in DOMAIN s.pend : m # n => t.pend[m] = s.pend[m]
        /\ t.buf = s.buf /\ t.took = s.took /\ t.cur = s.cur
        /\ t.written = s.written /\ t.ids = s.ids /\ t.done = s.done
        /\ t.fin = s.fin /\ t.abt = s.abt /\ t.bad = s.bad
        /\ t.shared = s.shared
  BY PartDoneIs
<1> DEFINE r == Result(c, f)
<1>3. n \in DOMAIN s.pend /\ s.pend[n].st = "run" BY <1>2 DEF In
<1>4. x.pc \in StreamPlaces /\ x.key \in Keys
  <2>1. s.pend # <<>> BY <1>3
  <2>2. QED BY <1>0, <2>1, AtStream DEF Owns
<1>5. Course(s, x) BY <1>4 DEF Sound
<1>6. n \in 1..(s.cur - 1) BY <1>0, <1>3 DEF IsStream, StreamHolds
<1>7. s.cur \in Nat \ {0} BY <1>0 DEF IsStream, Streams
<1>8. /\ uploads'[c].open = uploads[c].open
      /\ uploads'[c].parts = uploads[c].parts \/ uploads'[c].parts = StoreIn(uploads[c].parts, n, s.pend[n].data)
      /\ blocks'[x.key] = blocks[x.key] \/ blocks'[x.key] = StoreIn(blocks[x.key], n, s.pend[n].data)
      /\ Is("azure") /\ r.st = "ok" => blocks'[x.key] = StoreIn(blocks[x.key], n, s.pend[n].data)
  BY <1>2, <1>4, SendsIs
<1> HIDE DEF s, x, t, r
<1>9. Course(t, x) BY <1>2, <1>5 DEF Course
<1>10. Sent(t, x) = Sent(s, x) BY <1>2 DEF Sent, Tailed
<1>11. ASSUME Going(t, x)
       PROVE  /\ Works(c, t, x)
              /\ Is("s3") /\ uploads'[c].open => Kept(c, t, x, uploads'[c].parts)
              /\ Is("azure") => IdsListed(t, x)
              /\ Is("azure") /\ ~t.shared => Stored(c, t, blocks'[x.key])
  <2>1. Going(s, x) BY <1>2, <1>11 DEF Going
  <2>2. /\ Works(c, s, x)
        /\ Is("s3") /\ uploads[c].open => Kept(c, s, x, uploads[c].parts)
        /\ Is("azure") => IdsListed(s, x)
        /\ Is("azure") /\ ~s.shared => Stored(c, s, blocks[x.key])
    BY <2>1 DEF Sound, s, x
  <2>3. Handed(c, s, x) BY <2>2 DEF Works
  <2>4. s.pend[n].data = PartAt(c, s, n) BY <1>3, <1>6, <1>7, <2>3 DEF Handed, PartAt
  <2>5. n \in 1..Sent(s, x) BY <1>3, <2>3 DEF Handed
  <2>6. Handed(c, t, x)
    <3>1. \A m \in DOMAIN t.pend : t.pend[m].data = Part(c, m, PartSize) /\ t.pend[m].st # "taken"
      BY <1>2, <1>3, <2>3 DEF Handed
    <3>2. Nums(t) = Nums(s) BY <1>2 DEF Nums
    <3>3. QED BY <1>2, <1>10, <2>3, <3>1, <3>2 DEF Handed
  <2>7. Works(c, t, x) BY <1>2, <2>2, <2>6 DEF Works, Filled, Tallied
  <2>8. ASSUME Is("s3"), uploads'[c].open PROVE Kept(c, t, x, uploads'[c].parts)
    <3>1. Kept(c, s, x, uploads[c].parts) BY <1>8, <2>2, <2>8
    <3>2. Kept(c, s, x, uploads'[c].parts) BY <1>8, <2>4, <2>5, <3>1, KeptStores
    <3>3. QED BY <1>2, <1>10, <3>2 DEF Kept, PartAt
  <2>9. Is("azure") => IdsListed(t, x) BY <1>2, <1>10, <2>2 DEF IdsListed
  <2>10. ASSUME Is("azure"), ~t.shared PROVE Stored(c, t, blocks'[x.key])
    <3>1. Stored(c, s, blocks[x.key]) BY <1>2, <2>2, <2>10
    <3>2. \A k : PartAt(c, t, k) = PartAt(c, s, k) BY <1>2 DEF PartAt
    <3>3. Nums(t) = Nums(s) BY <1>2 DEF Nums
    <3>4. \A m \in In(t, "ok") : m = n \/ m \in In(s, "ok") BY <1>2 DEF In
    <3>5. CASE blocks'[x.key] = StoreIn(blocks[x.key], n, s.pend[n].data)
      <4>1. Nums(t) \cup In(t, "ok") \subseteq Nums(s) \cup In(s, "ok") \cup {n} BY <3>3, <3>4
      <4>2. QED BY <2>4, <3>1, <3>2, <3>5, <4>1, StoredStores
    <3>6. CASE blocks'[x.key] = blocks[x.key] /\ r.st # "ok"
      <4>1. n \notin In(t, "ok") BY <1>2, <3>6 DEF In, r
      <4>2. \A m \in In(t, "ok") : m \in In(s, "ok") BY <3>4, <4>1
      <4>3. QED BY <3>1, <3>2, <3>3, <3>6, <4>2 DEF Stored
    <3>7. QED BY <1>8, <2>10, <3>5, <3>6
  <2>11. QED BY <2>7, <2>8, <2>9, <2>10
<1>12. QED BY <1>1, <1>9, <1>11 DEF Sound, Is, t, x

LEMMA SendTailIs ==
  ASSUME Types, NEW c \in Callers, SendTail(c)
  PROVE  \E f \in Fates :
           /\ Sends(c, strm[c].cur, strm[c].buf, f, Result(c, f))
           /\ IF Result(c, f).st = "ok"
              THEN /\ Go(c, "waitall") /\ Nums(strm'[c]) = Nums(strm[c]) \cup {strm[c].cur} /\ strm'[c].pend = strm[c].pend
                   /\ strm'[c].buf = strm[c].buf /\ strm'[c].took = strm[c].took /\ strm'[c].cur = strm[c].cur
                   /\ strm'[c].written = strm[c].written
                   /\ strm'[c].ids = IF Is("azure") THEN Append(strm[c].ids, strm[c].cur) ELSE strm[c].ids
                   /\ strm'[c].fin = strm[c].fin /\ strm'[c].abt = strm[c].abt /\ strm'[c].bad = strm[c].bad
                   /\ strm'[c].shared = strm[c].shared
              ELSE call'[c].pc \in {"user", "undo"} /\ call'[c].res = "failed" /\ strm'[c].bad
<1> DEFINE s == strm[c]
<1>0. StreamsType /\ CallType /\ s \in Streams BY StreamParts DEF Types, StreamsType
<1> DEFINE j == IF Is("azure") THEN Append(s.ids, s.cur) ELSE s.ids
<1> DEFINE t == IF Is("azure") THEN [s EXCEPT !.ids = Append(@, s.cur)] ELSE s
<1>1. PICK f \in Fates :
        /\ Sends(c, s.cur, s.buf, f, Result(c, f))
        /\ SetStream(c, IF Result(c, f).st = "ok" THEN [t EXCEPT !.done = @ \cup {[num |-> s.cur, etag |-> Result(c, f).etag]}]
                        ELSE Failed(t))
        /\ IF Result(c, f).st = "ok" THEN Go(c, "waitall")
           ELSE IF Is("s3")
           THEN call' = [call EXCEPT ![c].pc = "undo", ![c].res = "failed", ![c].next = "user"]
           ELSE Returns(c, "failed")
  BY DEF SendTail
<1>2. t = [s EXCEPT !.ids = j]
  <2>1. s = [s EXCEPT !.ids = s.ids] BY <1>0 DEF Streams
  <2>2. QED BY <2>1
<1> DEFINE p == [num |-> s.cur, etag |-> Result(c, f).etag]
<1> DEFINE d == s.done \cup {p}
<1> HIDE DEF j
<1>3. CASE Result(c, f).st = "ok"
  <2>1. strm'[c] = [t EXCEPT !.done = @ \cup {p}] BY <1>0, <1>1, <1>3 DEF SetStream, StreamsType
  <2> HIDE DEF p, t
  <2>2. t.done = s.done BY <1>0, <1>2 DEF Streams
  <2>3. strm'[c] = [t EXCEPT !.done = d] BY <2>1, <2>2
  <2> HIDE DEF d
  <2>4. strm'[c] = [s EXCEPT !.ids = j, !.done = d] BY <1>0, <1>2, <2>3 DEF Streams
  <2> DEFINE u == strm'[c]
  <2>5. /\ u.done = d /\ u.pend = s.pend /\ u.buf = s.buf /\ u.took = s.took /\ u.cur = s.cur /\ u.written = s.written
        /\ u.ids = j /\ u.fin = s.fin /\ u.abt = s.abt /\ u.bad = s.bad /\ u.shared = s.shared
    BY <1>0, <2>4 DEF Streams
  <2>6. Nums(u) = Nums(s) \cup {s.cur}
    <3>1. p.num = s.cur BY DEF p
    <3>2. {q.num : q \in d} = {q.num : q \in s.done} \cup {s.cur} BY <3>1 DEF d
    <3>3. QED BY <2>5, <3>2 DEF Nums
  <2>7. Go(c, "waitall") BY <1>1, <1>3
  <2>8. QED BY <1>1, <1>3, <2>5, <2>6, <2>7 DEF j
<1>4. CASE Result(c, f).st # "ok"
  <2>1. strm'[c] = Failed(t) BY <1>0, <1>1, <1>4 DEF SetStream, StreamsType
  <2> HIDE DEF t
  <2>2. Failed(t).bad BY <1>0, <1>2, Zenon DEF Failed, Streams
  <2>3. call'[c].pc \in {"user", "undo"} /\ call'[c].res = "failed" BY <1>0, <1>1, <1>4, UndoOrReturnTo
  <2>4. QED BY <1>1, <1>4, <2>1, <2>2, <2>3
<1>5. QED BY <1>3, <1>4

LEMMA SendTailSound == ASSUME Types, NEW c \in Callers, Sound(c), SendTail(c) PROVE Sound(c)'
<1> DEFINE s == strm[c]
<1> DEFINE x == call[c]
<1> DEFINE t == strm'[c]
<1> DEFINE y == call'[c]
<1>0. CallType /\ StreamsType /\ IsStream(s) /\ s \in Streams BY StreamParts DEF Types, StreamsType
<1>1. x.pc = "tail" /\ conf' = conf BY DEF SendTail, At
<1>2. x.key \in Keys BY <1>0, <1>1, AtStream DEF StreamPlaces
<1>3. PICK f \in Fates :
        /\ Sends(c, s.cur, s.buf, f, Result(c, f))
        /\ IF Result(c, f).st = "ok"
           THEN /\ Go(c, "waitall") /\ Nums(t) = Nums(s) \cup {s.cur} /\ t.pend = s.pend
                /\ t.buf = s.buf /\ t.took = s.took /\ t.cur = s.cur
                /\ t.written = s.written
                /\ t.ids = IF Is("azure") THEN Append(s.ids, s.cur) ELSE s.ids
                /\ t.fin = s.fin /\ t.abt = s.abt /\ t.bad = s.bad
                /\ t.shared = s.shared
           ELSE y.pc \in {"user", "undo"} /\ y.res = "failed" /\ t.bad
  BY SendTailIs
<1>4. CASE Result(c, f).st # "ok"
  <2>1. y.pc \in {"user", "undo"} /\ y.res = "failed" /\ t.bad BY <1>3, <1>4
  <2>2. QED BY <2>1, FailedSound
<1>5. CASE Result(c, f).st = "ok"
  <2>1. /\ Go(c, "waitall") /\ Nums(t) = Nums(s) \cup {s.cur} /\ t.pend = s.pend
        /\ t.buf = s.buf /\ t.took = s.took /\ t.cur = s.cur
        /\ t.written = s.written
        /\ t.ids = IF Is("azure") THEN Append(s.ids, s.cur) ELSE s.ids
        /\ t.fin = s.fin /\ t.abt = s.abt /\ t.bad = s.bad
        /\ t.shared = s.shared
    BY <1>3, <1>5
  <2>2. y.pc = "waitall" /\ y.res = x.res /\ y.key = x.key /\ y.n = x.n /\ y.todo = x.todo BY <1>0, <2>1, GoesOn
  <2>3. /\ uploads'[c].open = uploads[c].open
        /\ uploads'[c].parts = uploads[c].parts \/ uploads'[c].parts = StoreIn(uploads[c].parts, s.cur, s.buf)
        /\ Is("azure") => blocks'[x.key] = StoreIn(blocks[x.key], s.cur, s.buf)
    BY <1>2, <1>3, <1>5, SendsIs
  <2>4. Course(s, x) BY <1>1 DEF Sound, StreamPlaces
  <2>5. s.cur \in Nat \ {0} BY <1>0 DEF Streams
  <2> HIDE DEF s, x, t, y
  <2>6. Course(t, y) BY <1>1, <2>1, <2>2, <2>4 DEF Course, Busy
  <2>7. ASSUME Going(t, y)
        PROVE  /\ Works(c, t, y)
               /\ Is("s3") /\ uploads'[c].open => Kept(c, t, y, uploads'[c].parts)
               /\ Is("azure") => IdsListed(t, y)
               /\ Is("azure") /\ ~t.shared => Stored(c, t, blocks'[y.key])
    <3>1. Going(s, x) BY <1>1, <2>1, <2>2, <2>4, <2>7 DEF Going, Course, Busy, StreamPlaces
    <3>2. /\ Works(c, s, x)
          /\ Is("s3") /\ uploads[c].open => Kept(c, s, x, uploads[c].parts)
          /\ Is("azure") => IdsListed(s, x)
          /\ Is("azure") /\ ~s.shared => Stored(c, s, blocks[x.key])
      BY <3>1 DEF Sound, s, x
    <3>3. s.buf # <<>> BY <1>1, <3>2 DEF Works, Filled
    <3>4. Sent(s, x) = s.cur - 1 /\ Sent(t, y) = s.cur BY <1>1, <2>1, <2>2, <3>3 DEF Sent, Tailed
    <3>5. \A k : PartAt(c, t, k) = PartAt(c, s, k) BY <2>1 DEF PartAt
    <3>6. PartAt(c, s, s.cur) = s.buf /\ s.cur \in 1..s.cur /\ \A k \in 1..(s.cur - 1) : k \in 1..s.cur BY <2>5 DEF PartAt
    <3>7. Handed(c, s, x) BY <3>2 DEF Works
    <3>8. Works(c, t, y)
      <4>1. Filled(c, t, y) /\ Tallied(t, y) BY <1>1, <2>1, <2>2, <3>2 DEF Works, Filled, Tallied
      <4>2. Nums(t) \cup DOMAIN t.pend = 1..s.cur
        <5>1. Nums(t) \cup DOMAIN t.pend = 1..(s.cur - 1) \cup {s.cur} BY <2>1, <3>4, <3>7 DEF Handed
        <5>2. QED BY <2>5, <5>1
      <4>3. Handed(c, t, y) BY <2>1, <2>2, <3>4, <3>7, <4>2 DEF Handed
      <4>4. QED BY <4>1, <4>3 DEF Works
    <3>9. ASSUME Is("s3"), uploads'[c].open PROVE Kept(c, t, y, uploads'[c].parts)
      <4>1. Kept(c, s, x, uploads[c].parts) BY <2>3, <3>2, <3>9
      <4>2. Kept(c, t, y, uploads[c].parts) BY <3>4, <3>5, <3>6, <4>1 DEF Kept
      <4>3. s.cur \in 1..Sent(t, y) /\ s.buf = PartAt(c, t, s.cur) BY <3>4, <3>5, <3>6
      <4>4. Kept(c, t, y, StoreIn(uploads[c].parts, s.cur, s.buf)) BY <4>2, <4>3, KeptStores
      <4>5. QED BY <2>3, <4>2, <4>4
    <3>10. ASSUME Is("azure") PROVE IdsListed(t, y)
      <4>1. s.ids = [i \in 1..(s.cur - 1) |-> i] BY <3>2, <3>4, <3>10 DEF IdsListed
      <4>2. s.cur - 1 \in Nat /\ s.cur = (s.cur - 1) + 1 BY <2>5
      <4>3. Append(s.ids, s.cur) = [i \in 1..s.cur |-> i] BY <4>1, <4>2, AppendOne
      <4>4. QED BY <2>1, <3>4, <3>10, <4>3 DEF IdsListed
    <3>11. ASSUME Is("azure"), ~t.shared PROVE Stored(c, t, blocks'[y.key])
      <4>1. Stored(c, s, blocks[x.key]) BY <2>1, <3>2, <3>11
      <4>2. In(t, "ok") = In(s, "ok") BY <2>1 DEF In
      <4>3. Nums(t) \cup In(t, "ok") \subseteq Nums(s) \cup In(s, "ok") \cup {s.cur} BY <2>1, <4>2
      <4>4. Stored(c, t, StoreIn(blocks[x.key], s.cur, s.buf)) BY <3>5, <3>6, <4>1, <4>3, StoredStores
      <4>5. QED BY <2>2, <2>3, <3>11, <4>4
    <3>12. QED BY <3>8, <3>9, <3>10, <3>11
  <2>8. QED BY <1>1, <2>6, <2>7 DEF Sound, Is, t, y
<1>6. QED BY <1>4, <1>5

-----------------------------------------------------------------------------
(* What a step of one caller leaves of the others.                          *)
\* a stream but for another one of the same blob
Like(s, t) ==
  /\ t.buf = s.buf /\ t.took = s.took /\ t.cur = s.cur /\ t.written = s.written /\ t.pend = s.pend /\ t.done = s.done
  /\ t.ids = s.ids /\ t.fin = s.fin /\ t.abt = s.abt /\ t.bad = s.bad
  /\ s.shared => t.shared

Touches(c) ==
  /\ conf' = conf
  /\ \A d \in Callers \ {c} : call'[d] = call[d] /\ uploads'[d] = uploads[d] /\ Like(strm[d], strm'[d])
  /\ \A k \in Keys : k # call[c].key \/ call[c].pc \notin StreamPlaces => blocks'[k] = blocks[k]

LEMMA OthersSound ==
  ASSUME NEW d \in Callers, Sound(d), conf' = conf, call'[d] = call[d], uploads'[d] = uploads[d], Like(strm[d], strm'[d]),
         Is("azure") /\ call[d].pc \in StreamPlaces /\ ~strm[d].shared => blocks'[call[d].key] = blocks[call[d].key]
  PROVE  Sound(d)'
<1> DEFINE s == strm[d]
<1> DEFINE t == strm'[d]
<1> DEFINE x == call[d]
<1>1. /\ t.buf = s.buf /\ t.took = s.took /\ t.cur = s.cur /\ t.written = s.written /\ t.pend = s.pend /\ t.done = s.done
      /\ t.ids = s.ids /\ t.fin = s.fin /\ t.abt = s.abt /\ t.bad = s.bad
      /\ s.shared => t.shared
  BY DEF Like
<1>2. /\ x.pc \in StreamPlaces => Course(s, x)
      /\ Going(s, x) =>
           /\ Works(d, s, x)
           /\ Is("s3") /\ uploads[d].open => Kept(d, s, x, uploads[d].parts)
           /\ Is("azure") => IdsListed(s, x)
           /\ Is("azure") /\ ~s.shared => Stored(d, s, blocks[x.key])
  BY DEF Sound
<1>9. Going(s, x) => x.pc \in StreamPlaces BY DEF Going
<1>10. Is("azure") /\ x.pc \in StreamPlaces /\ ~s.shared => blocks'[x.key] = blocks[x.key] OBVIOUS
<1>11. call'[d] = x /\ uploads'[d] = uploads[d] OBVIOUS
<1> HIDE DEF s, t, x
<1>3. Course(s, x) => Course(t, x) BY <1>1 DEF Course
<1>4. (Going(t, x) => Going(s, x)) /\ Sent(t, x) = Sent(s, x) BY <1>1 DEF Going, Sent, Tailed
<1>5. \A n : PartAt(d, t, n) = PartAt(d, s, n) BY <1>1 DEF PartAt
<1>6. Nums(t) = Nums(s) /\ In(t, "ok") = In(s, "ok") BY <1>1 DEF Nums, In
<1>7. Works(d, s, x) => Works(d, t, x) BY <1>1, <1>4, <1>6 DEF Works, Filled, Tallied, Handed
<1>8. /\ Kept(d, s, x, uploads[d].parts) => Kept(d, t, x, uploads[d].parts)
      /\ IdsListed(s, x) => IdsListed(t, x)
      /\ Stored(d, s, blocks[x.key]) => Stored(d, t, blocks[x.key])
  BY <1>1, <1>4, <1>5, <1>6 DEF Kept, IdsListed, Stored
<1>12. Going(t, x) =>
           /\ Works(d, t, x)
           /\ Is("s3") /\ uploads'[d].open => Kept(d, t, x, uploads'[d].parts)
           /\ Is("azure") => IdsListed(t, x)
           /\ Is("azure") /\ ~t.shared => Stored(d, t, blocks'[x.key])
  BY <1>1, <1>2, <1>4, <1>7, <1>8, <1>9, <1>10, <1>11
<1>13. QED BY <1>2, <1>3, <1>11, <1>12 DEF Sound, Is, t, x

LEMMA LikeItself == ASSUME NEW s PROVE Like(s, s)
BY DEF Like

LEMMA CallStepTouches == ASSUME Types, NEW c \in Callers, CallStep(c) PROVE Touches(c)
BY CallStepIs, LikeItself DEF Types, Touches, Alone

LEMMA PartDoneTouches == ASSUME Types, Owns, NEW c \in Callers, PartDone(c) PROVE Touches(c)
<1>0. CallType /\ StreamsType BY DEF Types, StreamsType
<1>1. PICK n \in In(strm[c], "run"), f \in Fates :
        /\ Sends(c, n, strm[c].pend[n].data, f, Result(c, f))
        /\ strm' = [strm EXCEPT ![c].pend[n].st = Result(c, f).st, ![c].pend[n].etag = Result(c, f).etag]
  BY DEF PartDone
<1>2. strm[c].pend # <<>> BY <1>1 DEF In
<1>3. call[c].pc \in StreamPlaces /\ call[c].key \in Keys BY <1>0, <1>2, AtStream DEF Owns
<1>4. /\ \A d \in Callers \ {c} : uploads'[d] = uploads[d]
      /\ \A k \in Keys \ {call[c].key} : blocks'[k] = blocks[k]
  BY <1>1, <1>3, SendsIs
<1>5. \A d \in Callers \ {c} : strm'[d] = strm[d]
  <2> DEFINE st == Result(c, f).st
  <2> DEFINE e == Result(c, f).etag
  <2>1. strm' = [strm EXCEPT ![c].pend[n].st = st, ![c].pend[n].etag = e] BY <1>1
  <2> HIDE DEF st, e
  <2> DEFINE s1 == [strm EXCEPT ![c].pend[n].st = st]
  <2>2. strm' = [s1 EXCEPT ![c].pend[n].etag = e] BY <2>1
  <2>3. DOMAIN s1 = Callers /\ \A d \in Callers \ {c} : s1[d] = strm[d] BY <1>0 DEF StreamsType
  <2> HIDE DEF s1
  <2>4. QED BY <2>2, <2>3
<1>6. QED BY <1>3, <1>4, <1>5, LikeItself DEF Touches, PartDone

LEMMA SendTailTouches == ASSUME Types, NEW c \in Callers, SendTail(c) PROVE Touches(c)
<1>0. CallType /\ StreamsType BY DEF Types, StreamsType
<1>1. PICK f \in Fates : Sends(c, strm[c].cur, strm[c].buf, f, Result(c, f)) BY DEF SendTail
<1>2. call[c].pc = "tail" /\ call[c].pc \in StreamPlaces BY DEF SendTail, At, StreamPlaces
<1>3. call[c].key \in Keys BY <1>0, <1>2, AtStream
<1>4. /\ \A d \in Callers \ {c} : uploads'[d] = uploads[d]
      /\ \A k \in Keys \ {call[c].key} : blocks'[k] = blocks[k]
  BY <1>1, <1>3, SendsIs
<1>5. StreamStep(c) BY DEF StreamStep
<1>6. ~OpenStream(c) BY <1>2 DEF OpenStream, At
<1>7. Alone(c) /\ Others(c) /\ conf' = conf BY <1>0, <1>5, <1>6, StreamStepIs
<1>8. QED BY <1>2, <1>4, <1>7, LikeItself DEF Touches, Alone, Others

LEMMA OpenTouches == ASSUME Types, NEW c \in Callers, OpenStream(c) PROVE Touches(c)
<1>0. CallType /\ StreamsType /\ uploads \in [Callers -> UploadRecords] BY DEF Types, StreamsType
<1>1. StreamStep(c) BY DEF StreamStep
<1>2. Alone(c) /\ conf' = conf /\ blocks' = blocks BY <1>0, <1>1, StreamStepIs DEF OpenStream
<1>3. \A d \in Callers \ {c} : uploads'[d] = uploads[d] /\ Like(strm[d], strm'[d])
  <2>1. CASE UNCHANGED <<strm, uploads>> BY <2>1, LikeItself
  <2>2. CASE \E f \in Fates : S3InitiateMultipart(c, f)
    BY <1>0, <2>2, LikeItself DEF S3InitiateMultipart, SetStream, StreamsType
  <2>3. CASE SetStream(c, NewStream) /\ uploads' = uploads BY <1>0, <2>3, LikeItself DEF SetStream, StreamsType
  <2>4. CASE AzureOpen(c) /\ uploads' = uploads
    <3> DEFINE others == {d \in Callers \ {c} : Streaming(d) /\ call[d].key = call[c].key}
    <3>1. ASSUME NEW d \in Callers \ {c} PROVE Like(strm[d], strm'[d])
      <4> DEFINE b == strm[d].shared \/ d \in others
      <4>1. strm'[d] = [strm[d] EXCEPT !.shared = b] BY <2>4 DEF AzureOpen
      <4>2. strm[d].shared => b OBVIOUS
      <4> HIDE DEF b
      <4>3. strm[d] \in Streams BY <1>0, StreamParts
      <4>4. QED BY <4>1, <4>2, <4>3 DEF Like, Streams
    <3>2. QED BY <2>4, <3>1
  <2>5. QED BY <2>1, <2>2, <2>3, <2>4 DEF OpenStream
<1>4. QED BY <1>2, <1>3 DEF Touches, Alone

LEMMA CommitTouches == ASSUME Types, NEW c \in Callers, Commit(c) PROVE Touches(c)
<1>0. CallType /\ StreamsType /\ uploads \in [Callers -> UploadRecords] /\ blocks \in [Keys -> Maps(Nat)] BY DEF Types, StreamsType
<1>1. call[c].pc = "commit" /\ call[c].pc \in StreamPlaces /\ strm' = strm /\ conf' = conf BY DEF Commit, At, StreamPlaces
<1>2. StreamStep(c) BY DEF StreamStep
<1>3. Alone(c) BY <1>0, <1>2, StreamStepIs
<1>4. \A d \in Callers \ {c} : uploads'[d] = uploads[d]
  <2>1. uploads' = uploads \/ uploads' = [uploads EXCEPT ![c].open = FALSE]
    BY DEF Commit, S3Complete, AzureCommitBlockList, GcsFinalizeUpload
  <2>2. QED BY <1>0, <2>1
<1>5. \A k \in Keys \ {call[c].key} : blocks'[k] = blocks[k]
  <2>1. blocks' = blocks \/ blocks' = [blocks EXCEPT ![call[c].key] = <<>>]
    BY DEF Commit, S3Complete, AzureCommitBlockList, GcsFinalizeUpload
  <2>2. QED BY <1>0, <2>1
<1>6. QED BY <1>1, <1>3, <1>4, <1>5, LikeItself DEF Touches, Alone

LEMMA StreamStepTouches == ASSUME Types, NEW c \in Callers, StreamStep(c) PROVE Touches(c)
<1>0. CallType /\ StreamsType /\ uploads \in [Callers -> UploadRecords] BY DEF Types, StreamsType
<1>1. CASE OpenStream(c) BY <1>1, OpenTouches
<1>2. CASE SendTail(c) BY <1>2, SendTailTouches
<1>3. CASE Commit(c) BY <1>3, CommitTouches
<1>4. CASE ~OpenStream(c) /\ ~SendTail(c) /\ ~Commit(c)
  <2>1. Alone(c) /\ Others(c) /\ conf' = conf BY <1>0, <1>4, StreamStepIs, Zenon
  <2>2. blocks' = blocks
    BY <1>4, Zenon DEF StreamStep, Write, Fill, WaitForSlot, Submit, Finalize, WaitAll, Abort, S3AbortMultipart, Drop, Join
  <2>3. uploads' = uploads \/ uploads' = [uploads EXCEPT ![c] = NoUpload]
    BY <1>4 DEF StreamStep, Write, Fill, WaitForSlot, Submit, Finalize, WaitAll, Abort, S3AbortMultipart, Drop, Join
  <2>4. \A d \in Callers \ {c} : uploads'[d] = uploads[d] BY <1>0, <2>3
  <2>5. QED BY <2>1, <2>2, <2>4, LikeItself DEF Touches, Alone, Others
<1>5. QED BY <1>1, <1>2, <1>3, <1>4

\* Only creating a stream starts the places of one.
LEMMA CallPlaces == ASSUME Types, NEW c \in Callers, CallStep(c) PROVE call'[c].pc \notin StreamPlaces
<1>0. CallType /\ conf \in ScenarioType /\ call[c] \in CallRecords BY CallParts DEF Types
<1>1. call[c].pc \notin StreamPlaces BY <1>0, CallStepIs
<1>2. ASSUME NEW r, EndsWith(c, r) PROVE call'[c].pc = "end" BY <1>0, <1>2 DEF EndsWith, CallType, CallRecords
<1>3. ASSUME NEW p, Go(c, p) PROVE call'[c].pc = p BY <1>0, <1>3, GoesOn
<1>4. ASSUME NEW g, NextKey(c, g) PROVE call'[c].pc \in {"end", "check"} BY <1>0, <1>4 DEF NextKey, CallType, CallRecords
<1>5. Fails(c) => call'[c].pc = "end" BY <1>2 DEF Fails
<1>6. {"end", "check", "send", "token", "pretend", "open", "access", "read", "save"} \cap StreamPlaces = {} BY SomePlaces
<1>7. CASE Begin(c)
  <2>2. PICK op \in conf.calls : Begins(c, op) BY <1>7 DEF Begin
  <2>3. op \in CallNames BY <1>0, <2>2, ConfParts
  <2>4. CASE op \in {"connect", "disconnect", "presign"}
    <3>1. call'[c] = call[c] \/ call'[c].pc \in {"access", "end"}
      BY <1>0, <2>2, <2>4, Zenon DEF Begins, Connecting, Disconnect, NoCall, CallType
    <3>2. QED BY <1>1, <1>6, <3>1
  <2>5. CASE op \notin {"connect", "disconnect", "presign"}
    <3>1. call' = call \/ \E k \in conf.keys, j \in IF op \in {"copy", "compose"} THEN conf.keys ELSE {1},
                             n \in IF op \in {"upload", "upload_file"} THEN conf.sizes ELSE {0} :
               call' = [call EXCEPT ![c] = [NoCall EXCEPT !.op = op, !.key = k, !.to = j, !.n = n,
                                                          !.pc = Goes(op, n)]]
      BY <2>2, <2>5 DEF Begins
    <3>2. call' = call \/ \E n \in Nat : call'[c].pc = Goes(op, n)
      <4>1. conf.sizes \subseteq Nat /\ {0} \subseteq Nat BY <1>0, ConfParts
      <4>2. ASSUME NEW k, NEW j, NEW n \in Nat,
                   call' = [call EXCEPT ![c] = [NoCall EXCEPT !.op = op, !.key = k, !.to = j, !.n = n, !.pc = Goes(op, n)]]
            PROVE  call'[c].pc = Goes(op, n)
        <5> DEFINE g == Goes(op, n)
        <5>1. call' = [call EXCEPT ![c] = [NoCall EXCEPT !.op = op, !.key = k, !.to = j, !.n = n, !.pc = g]] BY <4>2
        <5> HIDE DEF g
        <5>2. call'[c].pc = g BY <1>0, <5>1 DEF CallType, NoCall
        <5>3. QED BY <5>2 DEF g
      <4>3. CASE call' = call BY <4>3
      <4>4. CASE call' # call
        <5>1. PICK k \in conf.keys, j \in IF op \in {"copy", "compose"} THEN conf.keys ELSE {1},
                   n \in IF op \in {"upload", "upload_file"} THEN conf.sizes ELSE {0} :
                 call' = [call EXCEPT ![c] = [NoCall EXCEPT !.op = op, !.key = k, !.to = j, !.n = n, !.pc = Goes(op, n)]]
          BY <3>1, <4>4
        <5>2. n \in Nat BY <4>1
        <5>3. QED BY <4>2, <5>1, <5>2
      <4>5. QED BY <4>3, <4>4
    <3>3. \A n \in Nat : Goes(op, n) \notin StreamPlaces BY <1>0, <2>3, <2>5, GoesTo, SomePlaces
    <3>4. QED BY <1>1, <3>2, <3>3
  <2>6. QED BY <2>4, <2>5
<1>8. CASE LoadFile(c)
  <2>1. call[c].n \in Nat BY <1>0, CallParts
  <2>2. UploadGoes(call[c].n) \in {"open", "send", "token", "pretend"} BY <1>0, <2>1, UploadGoesTo
  <2>3. QED BY <1>3, <1>5, <1>6, <1>8, <2>2 DEF LoadFile
<1>9. CASE TokenFor(c) \/ CheckAgain(c)
  <2>1. TokenFails(c) => call'[c].pc \in {"end", "check"} BY <1>4, <1>5 DEF TokenFails
  <2>2. call'[c].pc \in {"end", "check", "send", "token"} BY <1>3, <1>4, <1>5, <1>9, <2>1 DEF TokenFor, CheckAgain
  <2>3. QED BY <1>6, <2>2
<1>10. CASE AzurePretends(c) \/ StubStream(c) \/ Connect(c) \/ SaveFile(c)
  <2>1. call'[c].pc = "end" BY <1>2, <1>5, <1>10 DEF AzurePretends, StubStream, Connect, SaveFile
  <2>2. QED BY <1>6, <2>1
<1>11. CASE End(c) BY <1>0, <1>11 DEF End, NoCall, CallType, StreamPlaces
<1>12. CASE Send(c)
  <2>1. PICK f \in Fates : \/ PutObject(c, f) \/ GetObject(c, f) \/ DeleteObject(c, f) \/ DeleteNext(c, f)
                           \/ Exists(c, f) \/ GetMetadata(c, f) \/ CopyObject(c, f) \/ ComposeObjects(c, f)
                           \/ ListObjects(c, f)
    BY <1>12 DEF Send
  <2>2. CASE GetObject(c, f)
    <3>1. call'[c].pc \in {"save", "end"} BY <1>0, <2>2 DEF GetObject, CallType, CallRecords
    <3>2. QED BY <1>6, <3>1
  <2>3. CASE ListObjects(c, f)
    <3>1. CASE Fails(c) BY <1>5, <1>6, <3>1
    <3>2. CASE ~Fails(c)
      <4>1. PICK p \in Pages(c) :
              LET c1 == [call[c] EXCEPT !.seen = @ \cup p, !.todo = Max(p \cup {0})]
              IN call' = [call EXCEPT ![c] = IF Truncated(c, p) THEN [c1 EXCEPT !.pc = "check"]
                                             ELSE [c1 EXCEPT !.pc = "end", !.res = "listed"]]
        BY <2>3, <3>2 DEF ListObjects
      <4> DEFINE m == Max(p \cup {0})
      <4> HIDE DEF m
      <4> DEFINE c1 == [call[c] EXCEPT !.seen = @ \cup p, !.todo = m]
      <4>2. call' = [call EXCEPT ![c] = IF Truncated(c, p) THEN [c1 EXCEPT !.pc = "check"]
                                        ELSE [c1 EXCEPT !.pc = "end", !.res = "listed"]] BY <4>1 DEF m
      <4>3. call'[c].pc \in {"check", "end"} BY <1>0, <4>2 DEF CallType, CallRecords
      <4>4. QED BY <1>6, <4>3
    <3>3. QED BY <3>1, <3>2
  <2>4. CASE DeleteNext(c, f) BY <1>4, <1>6, <2>4 DEF DeleteNext
  <2>5. CASE PutObject(c, f) \/ DeleteObject(c, f) \/ Exists(c, f) \/ GetMetadata(c, f) \/ CopyObject(c, f) \/ ComposeObjects(c, f)
    <3>1. call'[c].pc = "end" BY <1>2, <2>5 DEF PutObject, DeleteObject, Exists, GetMetadata, CopyObject, ComposeObjects
    <3>2. QED BY <1>6, <3>1
  <2>6. QED BY <2>1, <2>2, <2>3, <2>4, <2>5
<1>13. CASE OpenDownload(c)
  <2>1. call'[c].pc \in {"read", "end"}
    <3>1. Fails(c) \/ call' = [call EXCEPT ![c].pc = "read", ![c].n = Len(bucket[call[c].key])] BY <1>13 DEF OpenDownload
    <3>2. QED BY <1>0, <1>5, <3>1 DEF CallType, CallRecords
  <2>2. QED BY <1>6, <2>1
<1>14. CASE ReadRange(c)
  <2>1. EndsWith(c, "read") \/ Fails(c) \/ \E g : call' = [call EXCEPT ![c].got = g]
    BY <1>14 DEF ReadRange
  <2>2. call'[c].pc \in {"end", "read"}
    <3>1. call[c].pc = "read" BY <1>14 DEF ReadRange, At
    <3>2. QED BY <1>0, <1>2, <1>5, <2>1, <3>1 DEF CallType, CallRecords
  <2>3. QED BY <1>6, <2>2, Zenon
<1>15. QED BY <1>7, <1>8, <1>9, <1>10, <1>11, <1>12, <1>13, <1>14 DEF CallStep

\* A stream's call keeps its key, and the stream what it knows of others.
LEMMA StreamKeepsShared ==
  ASSUME Types, NEW c \in Callers, StreamStep(c), ~OpenStream(c), ~Join(c) PROVE strm'[c].shared = strm[c].shared
<1> DEFINE s == strm[c]
<1>0. CallType /\ StreamsType /\ IsStream(s) /\ s \in Streams BY StreamParts DEF Types, StreamsType
<1>1. Collected(s) \in Streams /\ Waited(s) \in Streams BY <1>0, CollectedType, WaitedType DEF IsStream
<1>2. Collected(s).shared = s.shared /\ Waited(s).shared = s.shared BY <1>0 DEF Collected, Waited, Streams
<1>3. \A z \in Streams : Failed(z).shared = z.shared BY DEF Failed, Streams
<1>4. WriteFails(c) => strm'[c].shared = s.shared
  <2>1. WriteFails(c) => strm'[c] = Failed(Collected(s)) BY <1>0 DEF WriteFails, SetStream, StreamsType
  <2>2. QED BY <1>1, <1>2, <1>3, <2>1
<1>5. CASE strm' = strm BY <1>5
<1>6. CASE Fill(c)
  <2>1. \E b, m, w : strm' = [strm EXCEPT ![c] = [s EXCEPT !.buf = b, !.took = m, !.written = w]]
    <3> DEFINE k == Min({call[c].todo, PartSize - Len(s.buf)})
    <3> DEFINE new == [i \in 1..k |-> <<c, Len(s.took) + i>>]
    <3> DEFINE w == IF ~(Len(s.buf) + k >= PartSize) /\ k = call[c].todo THEN s.written + call[c].n ELSE s.written
    <3>1. strm' = [strm EXCEPT ![c] = [s EXCEPT !.buf = s.buf \o new, !.took = s.took \o new, !.written = w]]
      BY <1>6 DEF Fill, SetStream
    <3>2. QED BY <3>1, Zenon
  <2>2. PICK b, m, w : strm' = [strm EXCEPT ![c] = [s EXCEPT !.buf = b, !.took = m, !.written = w]] BY <2>1
  <2>3. strm'[c] = [s EXCEPT !.buf = b, !.took = m, !.written = w] BY <1>0, <2>2 DEF StreamsType
  <2>4. QED BY <1>0, <2>3, Zenon DEF Streams
<1>7. CASE WaitForSlot(c)
  <2>1. SetStream(c, Collected(s)) => strm'[c] = Collected(s) BY <1>0 DEF SetStream, StreamsType
  <2>2. QED BY <1>2, <1>4, <1>7, <2>1 DEF WaitForSlot
<1>8. CASE Submit(c)
  <2>1. CASE WriteFails(c) BY <1>4, <2>1
  <2>2. CASE ~CollectFails(s)
    <3> DEFINE z == Collected(s)
    <3>1. \E w : strm' = [strm EXCEPT ![c] = Counting(PutIn(z), w)] BY <1>8, <2>2 DEF Submit, SetStream, Counting, PutIn
    <3>2. IsStream(z) /\ conf \in ScenarioType BY <1>0, CollectedType DEF Types
    <3>3. PICK w : strm'[c] = Counting(PutIn(z), w) BY <1>0, <3>1 DEF StreamsType
    <3>4. z.shared = s.shared BY <1>2
    <3> HIDE DEF z
    <3>5. HandsOver(z, strm'[c], w) BY <3>2, <3>3, PutInIs
    <3>6. QED BY <3>4, <3>5 DEF HandsOver
  <2>3. QED BY <1>8, <2>1, <2>2 DEF Submit
<1>9. CASE SendTail(c)
  <2> DEFINE j == IF Is("azure") THEN Append(s.ids, s.cur) ELSE s.ids
  <2> DEFINE t == IF Is("azure") THEN [s EXCEPT !.ids = Append(@, s.cur)] ELSE s
  <2>1. t = [s EXCEPT !.ids = j]
    <3>1. s = [s EXCEPT !.ids = s.ids] BY <1>0 DEF Streams
    <3>2. QED BY <3>1
  <2>2. strm'[c] = Failed(t) \/ \E d : strm'[c] = [t EXCEPT !.done = d]
    <3>1. \E f \in Fates :
            SetStream(c, IF Result(c, f).st = "ok" THEN [t EXCEPT !.done = @ \cup {[num |-> s.cur, etag |-> Result(c, f).etag]}]
                         ELSE Failed(t))
      BY <1>9 DEF SendTail
    <3> HIDE DEF t
    <3>2. QED BY <1>0, <3>1 DEF SetStream, StreamsType
  <2> HIDE DEF j, t
  <2>3. t.shared = s.shared /\ \A d : [t EXCEPT !.done = d].shared = s.shared BY <1>0, <2>1 DEF Streams
  <2>4. Failed(t).shared = s.shared BY <1>0, <2>1 DEF Failed, Streams
  <2>5. QED BY <2>2, <2>3, <2>4
<1>10. CASE WaitAll(c)
  <2>1. strm'[c] = Failed(Waited(s)) \/ strm'[c] = Finished(s) BY <1>0, <1>10 DEF WaitAll, SetStream, StreamsType, Finished
  <2>2. Finished(s).shared = s.shared BY <1>1, <1>2 DEF Finished, Streams
  <2>3. QED BY <1>1, <1>2, <1>3, <2>1, <2>2
<1>11. CASE strm' = [strm EXCEPT ![c].abt = TRUE] BY <1>0, <1>11 DEF StreamsType, Streams
<1>12. Write(c) \/ Finalize(c) \/ Drop(c) \/ Commit(c) => strm' = strm BY DEF Write, Finalize, Drop, Commit
<1>13. Abort(c) \/ S3AbortMultipart(c) => strm' = strm \/ strm' = [strm EXCEPT ![c].abt = TRUE] BY DEF Abort, S3AbortMultipart
<1>14. QED BY <1>5, <1>6, <1>7, <1>8, <1>9, <1>10, <1>11, <1>12, <1>13 DEF StreamStep

LEMMA StreamKeepsKey ==
  ASSUME Types, NEW c \in Callers, StreamStep(c), ~Join(c), call'[c] # NoCall PROVE call'[c].key = call[c].key
<1>0. CallType /\ call[c] \in CallRecords BY CallParts DEF Types
<1>1. ASSUME NEW r, Returns(c, r) PROVE call'[c].key = call[c].key BY <1>0, <1>1, ReturnsTo
<1>2. ASSUME NEW p, Go(c, p) PROVE call'[c].key = call[c].key BY <1>0, <1>2, GoesOn
<1>3. ASSUME NEW r, call' = [call EXCEPT ![c].pc = "undo", ![c].res = r, ![c].next = "user"] PROVE call'[c].key = call[c].key
  BY <1>0, <1>3, UndoesTo
<1>4. CASE OpenStream(c)
  <2>1. call' # [call EXCEPT ![c] = NoCall] BY <1>0 DEF CallType
  <2>2. Returns(c, "opened") BY <1>4, <2>1 DEF OpenStream
  <2>3. QED BY <1>1, <2>2
<1>5. CASE Write(c) \/ Drop(c)
  <2>1. \/ Returns(c, "closed")
        \/ \E n : call' = [call EXCEPT ![c].pc = "fill", ![c].n = n, ![c].todo = n]
        \/ \E p : call' = [call EXCEPT ![c].pc = p, ![c].next = "join"]
    BY <1>5 DEF Write, Drop
  <2>2. QED BY <1>0, <1>1, <2>1, Zenon DEF CallType, CallRecords
<1>6. CASE Finalize(c) BY <1>1, <1>2, <1>6 DEF Finalize
<1>7. CASE Fill(c)
  <2>1. \E m, p, r : call' = [call EXCEPT ![c].todo = m, ![c].pc = p, ![c].res = r] BY <1>7 DEF Fill
  <2>2. QED BY <1>0, <2>1 DEF CallType, CallRecords
<1>8. CASE WaitForSlot(c) \/ Submit(c) BY <1>1, <1>2, <1>8 DEF WaitForSlot, Submit, WriteFails
<1>9. CASE SendTail(c) \/ WaitAll(c) BY <1>1, <1>2, <1>3, <1>9 DEF SendTail, WaitAll
<1>10. CASE Commit(c) BY <1>10, CommitReturns
<1>11. CASE Abort(c) \/ S3AbortMultipart(c) BY <1>1, <1>2, <1>3, <1>11 DEF Abort, S3AbortMultipart
<1>12. QED BY <1>4, <1>5, <1>6, <1>7, <1>8, <1>9, <1>10, <1>11 DEF StreamStep

LEMMA OwnSound ==
  ASSUME StreamInv, NEW c \in Callers, StreamStep(c) PROVE Sound(c)'
<1>0. Types /\ Owns /\ Sound(c) BY DEF StreamInv, Base
<1>1. CASE OpenStream(c) \/ Write(c) \/ Fill(c) \/ WaitForSlot(c) BY <1>0, <1>1, OpenSound, WriteSound, FillSound, WaitForSlotSound
<1>2. CASE Submit(c) \/ Finalize(c) \/ SendTail(c) \/ WaitAll(c) BY <1>0, <1>2, SubmitSound, FinalizeSound, SendTailSound, WaitAllSound
<1>3. CASE Commit(c) \/ Abort(c) \/ S3AbortMultipart(c) \/ Drop(c) \/ Join(c)
  BY <1>0, <1>3, CommitSound, AbortSound, UndoSound, DropSound, JoinSound
<1>4. QED BY <1>1, <1>2, <1>3 DEF StreamStep

\* The others' streams are left as they were, or share a blob with the one that steps.
LEMMA TheirsSound ==
  ASSUME StreamInv, NEW c \in Callers, Touches(c), NEW d \in Callers \ {c} PROVE Sound(d)'
<1>0. Types /\ Sound(d) /\ Know(c, d) BY DEF StreamInv, Base
<1>1. conf' = conf /\ call'[d] = call[d] /\ uploads'[d] = uploads[d] /\ Like(strm[d], strm'[d]) BY DEF Touches
<1>2. ASSUME Is("azure"), call[d].pc \in StreamPlaces, ~strm[d].shared PROVE blocks'[call[d].key] = blocks[call[d].key]
  <2>1. call[d].key \in Keys BY <1>0, <1>2, AtStream DEF Types
  <2>2. call[c].pc \notin StreamPlaces \/ call[c].key # call[d].key BY <1>0, <1>2 DEF Know
  <2>3. QED BY <2>1, <2>2 DEF Touches
<1>3. QED BY <1>0, <1>1, <1>2, OthersSound

\* Two streams of one blob know of each other from the opening of the second.
LEMMA OpenKnows ==
  ASSUME Types, NEW c \in Callers, NEW d \in Callers \ {c}, OpenStream(c) PROVE Know(c, d)' /\ Know(d, c)'
<1>0. CallType /\ StreamsType BY DEF Types, StreamsType
<1>1. CASE call' = [call EXCEPT ![c] = NoCall]
  <2>1. call'[c].pc = "idle" BY <1>0, <1>1 DEF CallType, NoCall
  <2>2. QED BY <2>1 DEF Know, StreamPlaces
<1>2. CASE Returns(c, "opened") /\ ~Is("azure")
  <2>1. conf' = conf BY DEF OpenStream
  <2>2. QED BY <1>2, <2>1 DEF Know, Is
<1>3. CASE Returns(c, "opened") /\ Is("azure")
  <2>1. call'[c].key = call[c].key /\ call'[d] = call[d] /\ call'[c].pc = "user"
    BY <1>0, <1>3, ReturnsTo DEF Returns, CallType
  <2>2. ~Is("s3") /\ ~Is("gcs") BY <1>3 DEF Is
  <2>3. call' # [call EXCEPT ![c] = NoCall] BY <1>0, <2>1 DEF CallType, NoCall
  <2>4. AzureOpen(c) BY <2>2, <2>3 DEF OpenStream
  <2>5. ASSUME call[d].pc \in StreamPlaces, call[d].key = call[c].key PROVE strm'[c].shared /\ strm'[d].shared
    <3> DEFINE others == {e \in Callers \ {c} : Streaming(e) /\ call[e].key = call[c].key}
    <3>1. Streaming(d)
      <4>1. CallHolds(call[d]) BY <1>0, CallParts
      <4>2. call[d].op \in Uploads BY <2>5, <4>1 DEF CallHolds
      <4>3. call[d].pc \notin {"idle", "load", "open"} BY <2>5 DEF StreamPlaces
      <4>4. QED BY <4>2, <4>3 DEF Streaming, Uploads
    <3>2. d \in others BY <2>5, <3>1
    <3>3. strm' = [e \in Callers |-> IF e = c THEN [NewStream EXCEPT !.shared = others # {}]
                                     ELSE [strm[e] EXCEPT !.shared = @ \/ e \in others]]
      BY <2>4 DEF AzureOpen
    <3> HIDE DEF others
    <3>4. others # {} BY <3>2
    <3> DEFINE b == others # {}
    <3>5. strm'[c] = [NewStream EXCEPT !.shared = b] BY <3>3
    <3>6. b BY <3>4
    <3> HIDE DEF b
    <3>7. strm'[c].shared BY <3>5, <3>6 DEF NewStream
    <3> DEFINE a == strm[d].shared \/ d \in others
    <3>8. strm'[d] = [strm[d] EXCEPT !.shared = a] BY <3>3
    <3>9. a BY <3>2
    <3> HIDE DEF a
    <3>10. strm[d] \in Streams BY <1>0, StreamParts
    <3>11. strm'[d].shared BY <3>8, <3>9, <3>10 DEF Streams
    <3>12. QED BY <3>7, <3>11
  <2>6. QED BY <2>1, <2>5 DEF Know
<1>4. QED BY <1>2, <1>1, <1>3 DEF OpenStream

LEMMA StillKnows ==
  ASSUME StreamInv, NEW c \in Callers, Touches(c), NEW d \in Callers \ {c},
         call'[c].pc \in StreamPlaces => call[c].pc \in StreamPlaces /\ call'[c].key = call[c].key /\ strm'[c].shared = strm[c].shared
  PROVE  Know(c, d)' /\ Know(d, c)'
<1>1. Know(c, d) /\ Know(d, c) BY DEF StreamInv
<1>2. conf' = conf /\ call'[d] = call[d] /\ (strm[d].shared => strm'[d].shared) BY DEF Touches, Like
<1>3. QED BY <1>1, <1>2 DEF Know, Is

LEMMA OthersKnow ==
  ASSUME StreamInv, NEW c \in Callers, Touches(c), NEW a \in Callers \ {c}, NEW b \in Callers \ {c}, a # b PROVE Know(a, b)'
<1>1. Know(a, b) BY DEF StreamInv
<1>2. /\ conf' = conf /\ call'[a] = call[a] /\ (strm[a].shared => strm'[a].shared)
      /\ call'[b] = call[b] /\ (strm[b].shared => strm'[b].shared)
  BY DEF Touches, Like
<1>3. QED BY <1>1, <1>2 DEF Know, Is

LEMMA StepKeepsStreams ==
  ASSUME StreamInv, NEW c \in Callers, CallStep(c) \/ StreamStep(c) \/ PartDone(c)
  PROVE  (\A d \in Callers : Sound(d)') /\ (\A a, b \in Callers : a # b => Know(a, b)')
<1>0. Types /\ Owns /\ CallType /\ StreamsType /\ Sound(c) BY DEF StreamInv, Base, Types, StreamsType
<1>1. Touches(c) BY <1>0, CallStepTouches, StreamStepTouches, PartDoneTouches
<1>2. Sound(c)'
  <2>1. CASE CallStep(c) BY <1>0, <2>1, CallPlaces, LeavesSound
  <2>2. CASE StreamStep(c) BY <2>2, OwnSound
  <2>3. CASE PartDone(c) BY <1>0, <2>3, PartDoneSound
  <2>4. QED BY <2>1, <2>2, <2>3
<1>3. ASSUME NEW d \in Callers \ {c} PROVE Know(c, d)' /\ Know(d, c)'
  <2>1. CASE CallStep(c)
    <3>1. call'[c].pc \notin StreamPlaces BY <1>0, <2>1, CallPlaces
    <3>2. QED BY <1>1, <1>3, <3>1, StillKnows
  <2>2. CASE OpenStream(c) BY <1>0, <1>3, <2>2, OpenKnows
  <2>3. CASE StreamStep(c) /\ ~OpenStream(c)
    <3>1. ASSUME call'[c].pc \in StreamPlaces
          PROVE  call[c].pc \in StreamPlaces /\ call'[c].key = call[c].key /\ strm'[c].shared = strm[c].shared
      <4>1. call'[c] # NoCall BY <3>1 DEF NoCall, StreamPlaces
      <4>2. ~Join(c) BY <1>0, <4>1 DEF Join, CallType
      <4>3. call[c].pc \in StreamPlaces
        <5>1. call[c].pc # "open" BY <2>3, <4>2, Zenon DEF StreamStep, At, Write, Fill, WaitForSlot, Submit, Finalize, SendTail, WaitAll, Commit, Abort, S3AbortMultipart, Drop, Does
        <5>2. QED BY <1>0, <2>3, <5>1, StreamStepIs, Zenon
      <4>4. QED BY <1>0, <2>3, <4>1, <4>2, <4>3, StreamKeepsKey, StreamKeepsShared
    <3>2. QED BY <1>1, <1>3, <3>1, StillKnows
  <2>4. CASE PartDone(c)
    <3>1. call' = call /\ strm'[c].shared = strm[c].shared
      <4>1. call' = call BY <2>4 DEF PartDone
      <4>2. strm'[c].shared = strm[c].shared BY <1>0, <2>4, PartDoneIs
      <4>3. QED BY <4>1, <4>2, Zenon
    <3>2. QED BY <1>1, <1>3, <3>1, StillKnows
  <2>5. QED BY <2>1, <2>2, <2>3, <2>4
<1>4. ASSUME NEW d \in Callers PROVE Sound(d)'
  <2>1. CASE d = c BY <1>2, <2>1
  <2>2. CASE d # c BY <1>1, <2>2, TheirsSound
  <2>3. QED BY <2>1, <2>2
<1>5. ASSUME NEW a \in Callers, NEW b \in Callers, a # b PROVE Know(a, b)'
  <2>1. CASE a = c BY <1>3, <1>5, <2>1
  <2>2. CASE b = c BY <1>3, <1>5, <2>2
  <2>3. CASE a # c /\ b # c BY <1>1, <1>5, <2>3, OthersKnow
  <2>4. QED BY <2>1, <2>2, <2>3
<1>6. QED BY <1>4, <1>5

LEMMA InitStreams == Init => StreamInv
<1> SUFFICES ASSUME Init PROVE StreamInv OBVIOUS
<1>1. Base BY InitBase
<1>2. \A c \in Callers : call[c].pc = "idle" BY DEF Init, NoCall
<1>3. "idle" \notin StreamPlaces BY DEF StreamPlaces
<1>4. QED BY <1>1, <1>2, <1>3 DEF StreamInv, Sound, Know, Going

LEMMA NextKeepsStreams == StreamInv /\ [Next]_storageVars => StreamInv'
<1> SUFFICES ASSUME StreamInv, [Next]_storageVars PROVE StreamInv' OBVIOUS
<1>1. Base' BY NextKeepsBase DEF StreamInv
<1>2. CASE \E c \in Callers : CallStep(c) \/ StreamStep(c) \/ PartDone(c) BY <1>1, <1>2, StepKeepsStreams DEF StreamInv
<1>3. CASE UNCHANGED <<conf, call, strm, uploads, blocks>>
  <2>1. \A c \in Callers : Sound(c)' BY <1>3 DEF StreamInv, Sound, Is
  <2>2. \A c, d \in Callers : c # d => Know(c, d)' BY <1>3 DEF StreamInv, Know, Is
  <2>3. QED BY <1>1, <2>1, <2>2 DEF StreamInv
<1>4. QED BY <1>2, <1>3 DEF Next, Steps, Parts, Around, EnvironmentChanges, Refresh, Expire, storageVars, streamVars

\* The parts a stream has sent, put together, are what it took.
LEMMA PutTogether ==
  ASSUME NEW c \in Callers, NEW s, IsStream(s), NEW x, x.pc = "commit", Works(c, s, x),
         NEW ss, ss = [n \in 1..Sent(s, x) |-> PartAt(c, s, n)]
  PROVE  FlattenSeq(ss) = s.took /\ s.written = Len(s.took)
<1> DEFINE q == s.cur - 1
<1> DEFINE l == Len(s.buf)
<1> DEFINE m == Sent(s, x)
<1>1. s.cur \in Nat \ {0} /\ s.buf \in Seq(Piece) BY DEF IsStream, Streams, Data
<1>2. q \in Nat /\ l \in Nat /\ s.cur = q + 1 BY <1>1, LenProperties
<1>3. s.buf = <<>> <=> l = 0 BY <1>1, EmptySeq
<1>4. (m = q \/ m = q + 1) /\ (m = q => l = 0) /\ m \in Nat BY <1>2, <1>3 DEF Sent, Tailed
<1>5. Filled(c, s, x) /\ Tallied(s, x) BY DEF Works
<1>6. s.buf = Part(c, q + 1, l) BY <1>2, <1>5 DEF Filled
<1>7. Len(s.took) = q * PartSize + l /\ s.took = From(c, 0, Len(s.took)) BY <1>5 DEF Filled
<1> HIDE DEF q, l, m
<1>8. ss = Pieces(c, q, l, m)
  <2>1. \A n \in 1..m : PartAt(c, s, n) = IF n <= q THEN Part(c, n, PartSize) ELSE Part(c, q + 1, l)
    <3>1. \A n \in 1..m : n < s.cur <=> n <= q BY <1>2, <1>4
    <3>2. QED BY <1>6, <3>1 DEF PartAt
  <2>2. QED BY <2>1 DEF m, Pieces
<1>9. FlattenSeq(ss) = From(c, 0, Len(s.took))
  <2>1. Cut(Len(s.took), q, l, m) BY <1>2, <1>4, <1>7 DEF Cut
  <2>2. FlattenSeq(Pieces(c, q, l, m)) = From(c, 0, Len(s.took)) BY <2>1, PartsTogether
  <2>3. QED BY <1>8, <2>2
<1>10. QED BY <1>5, <1>7, <1>9 DEF Tallied

LEMMA CommitIntact ==
  ASSUME StreamInv, NEW c \in Callers, Commit(c), call'[c].res = "stored", ~strm[c].bad, ~strm[c].shared
  PROVE  bucket'[call[c].key] = strm[c].took /\ strm[c].written = Len(strm[c].took)
<1> DEFINE s == strm[c]
<1> DEFINE x == call[c]
<1> DEFINE m == Sent(s, x)
<1>0. Types /\ CallType /\ StreamsType /\ IsStream(s) /\ s \in Streams /\ Sound(c) BY StreamParts DEF StreamInv, Base, Types, StreamsType
<1>1. x.pc = "commit" BY DEF Commit, At
<1>2. Going(s, x) BY <1>0, <1>1 DEF Sound, StreamPlaces, Course, Busy, Going
<1>3. /\ Works(c, s, x)
      /\ Is("s3") /\ uploads[c].open => Kept(c, s, x, uploads[c].parts)
      /\ Is("azure") => IdsListed(s, x) /\ Stored(c, s, blocks[x.key])
  BY <1>0, <1>2 DEF Sound
<1>4. Nums(s) = 1..m BY <1>1, <1>3 DEF Works, Handed
<1>5. m \in Nat
  <2>1. s.cur \in Nat \ {0} BY <1>0 DEF Streams
  <2>2. QED BY <2>1 DEF Sent
<1>6. ASSUME NEW r, Returns(c, r) PROVE r = "stored"
  <2>1. call'[c].res = r BY <1>0, <1>6, ReturnsTo
  <2>2. QED BY <2>1
<1>7. ASSUME NEW parts, \A n \in 1..m : parts[n] = PartAt(c, s, n), NEW nums, nums = [i \in 1..m |-> i],
             bucket' = Put(x.key, Joined(parts, nums))
      PROVE  bucket'[x.key] = s.took /\ s.written = Len(s.took)
  <2>1. Joined(parts, nums) = FlattenSeq([n \in 1..m |-> PartAt(c, s, n)])
    <3>1. DOMAIN nums = 1..m /\ \A i \in 1..m : nums[i] = i BY <1>7
    <3>2. [i \in DOMAIN nums |-> parts[nums[i]]] = [n \in 1..m |-> PartAt(c, s, n)] BY <1>7, <3>1
    <3>3. QED BY <3>2 DEF Joined
  <2> DEFINE ss == [n \in 1..m |-> PartAt(c, s, n)]
  <2>2. ss = [n \in 1..Sent(s, x) |-> PartAt(c, s, n)] OBVIOUS
  <2> HIDE DEF ss
  <2>3. FlattenSeq(ss) = s.took /\ s.written = Len(s.took) BY <1>0, <1>1, <1>3, <2>2, PutTogether
  <2>4. bucket'[x.key] = Joined(parts, nums) BY <1>7 DEF Put
  <2>5. QED BY <2>1, <2>3, <2>4 DEF ss
<1>8. CASE Is("s3")
  <2>1. PICK f \in Fates : S3Complete(c, f) BY <1>8 DEF Commit, Is
  <2>2. "stored" = IF ~conf.endpoint \/ Lost(f) THEN "made up"
                   ELSE IF f = "served" /\ Accepts(c) THEN "stored" ELSE "failed"
    BY <1>6, <2>1 DEF S3Complete
  <2>3. conf.endpoint /\ Accepts(c) /\ Acts(f) BY <2>2 DEF Acts
  <2>4. bucket' = Put(x.key, Joined(uploads[c].parts, Sorted(Nums(s)))) BY <2>1, <2>3 DEF S3Complete, Nums
  <2>5. Sorted(Nums(s)) = [i \in 1..m |-> i] BY <1>4, <1>5, SortedInterval
  <2>6. \A n \in 1..m : uploads[c].parts[n] = PartAt(c, s, n)
    <3>1. uploads[c].open /\ \A n \in Nums(s) : n \in DOMAIN uploads[c].parts BY <2>3 DEF Accepts, Nums
    <3>2. QED BY <1>3, <1>4, <1>8, <3>1 DEF Kept
  <2>7. QED BY <1>7, <2>4, <2>5, <2>6
<1>9. CASE Is("azure")
  <2>1. PICK f \in Fates : AzureCommitBlockList(c, f) BY <1>9 DEF Commit, Is
  <2> DEFINE good == \A i \in DOMAIN s.ids : s.ids[i] \in DOMAIN blocks[x.key]
  <2>2. "stored" = IF f = "served" /\ good THEN "stored" ELSE "failed" BY <1>6, <2>1 DEF AzureCommitBlockList
  <2>3. good /\ Acts(f) BY <2>2 DEF Acts
  <2>4. bucket' = Put(x.key, Joined(blocks[x.key], s.ids)) BY <2>1, <2>3 DEF AzureCommitBlockList
  <2>5. s.ids = [i \in 1..m |-> i] BY <1>3, <1>9 DEF IdsListed
  <2>6. \A n \in 1..m : blocks[x.key][n] = PartAt(c, s, n) BY <1>3, <1>4, <1>9 DEF Stored
  <2>7. QED BY <1>7, <2>4, <2>5, <2>6
<1>10. CASE Is("gcs")
  <2>1. Returns(c, "made up") BY <1>10 DEF Commit, GcsFinalizeUpload, Is
  <2>2. QED BY <1>6, <2>1
<1>11. QED BY <1>0, <1>8, <1>9, <1>10, ProviderIs DEF Types

\* Only the commit of a stream gives its call the result of one.
LEMMA OnlyCommitStores ==
  ASSUME StreamInv, [Next]_storageVars, NEW c \in Callers, At(c, "commit"), call'[c].res = "stored" PROVE Commit(c)
<1>0. Types /\ CallType /\ StreamsType /\ Sound(c) BY DEF StreamInv, Base, Types, StreamsType
<1>1. call[c].pc = "commit" /\ call[c].pc \in StreamPlaces BY DEF At, StreamPlaces
<1>2. call[c].res # "stored" BY <1>0, <1>1 DEF Sound, Course, Busy
<1>3. call'[c] # call[c] BY <1>2
<1>4. PICK d \in Callers : CallStep(d) \/ StreamStep(d)
  <2>1. call' # call BY <1>3
  <2>2. ~(\E d \in Callers : Parts(d)) /\ ~Around BY <2>1 DEF Parts, PartDone, Around, EnvironmentChanges, Refresh, Expire, streamVars
  <2>3. QED BY <2>1, <2>2 DEF Next, Steps, storageVars, streamVars
<1>5. Alone(d) BY <1>0, <1>4, CallStepIs, StreamStepIs
<1>6. d = c BY <1>3, <1>5 DEF Alone
<1>7. ~CallStep(c) BY <1>0, <1>1, CallStepIs
<1>8. StreamStep(c) BY <1>4, <1>6, <1>7
<1>9. QED BY <1>1, <1>8
  DEF StreamStep, At, OpenStream, Write, Fill, WaitForSlot, Submit, Finalize, SendTail, WaitAll, Abort, S3AbortMultipart, Drop, Join, Does

\* When finalize is told that the object was put together it is what write took,
\* all of it and in order, for any part size, number of parts and answers to
\* their requests, if no earlier call of the stream failed and no other stream
\* writes to the same blob.
THEOREM CommitsIntact == Spec => CommittedIntact
<1> DEFINE A == \A c \in Callers :
                   LET s == strm[c]
                   IN (At(c, "commit") /\ call'[c].res = "stored" /\ ~s.bad /\ ~s.shared)
                        => bucket'[call[c].key] = s.took /\ s.written = Len(s.took)
<1>1. Init => StreamInv BY InitStreams
<1>2. StreamInv /\ [Next]_storageVars => StreamInv' BY NextKeepsStreams
<1>3. StreamInv /\ [Next]_storageVars => [A]_streamVars BY OnlyCommitStores, CommitIntact
<1>4. QED BY <1>1, <1>2, <1>3, PTL DEF Spec, CommittedIntact

=============================================================================
