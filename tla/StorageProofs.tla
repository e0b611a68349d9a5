---------------------------- MODULE StorageProofs ----------------------------
(***************************************************************************)
(* The storage manager and its policy keep what they promise, for any      *)
(* numbers of threads, keys and data, all configurations, rules, ages and  *)
(* retentions, and any number of requests that fail.                       *)
(*                                                                         *)
(* ReadsCurrent and HoldersHold rest on StoreInv: what every call under    *)
(* way knows of a backend it did not clash in (Claims), what a move may    *)
(* carry that is not the truth (Strays), and what is so in a sound backend *)
(* while calls move its object (Sounds).  ProtectedStays rests on Vetted,  *)
(* TierFollows on Dues: where the action that is due is at every moment.   *)
(***************************************************************************)
EXTENDS StoragePolicy, SequenceTheorems, FiniteSetTheorems, NaturalsInduction, WellFoundedInduction, TLAPS

(***************************************************************************)
(* Objects, calls and what the policy keeps, with their types.             *)
(***************************************************************************)
Contents == Data \cup {Torn}

Busies == {"get", "open", "write", "remove", "returned"}
Pcs    == {"idle", "connected", "disconnected", "evaluate", "act"} \cup Busies
Ops    == {"none", "initialize", "retrieve", "shutdown", "evaluate"} \cup Mutators

Calls ==
  [op : Ops, pc : Pcs, key : Keys \cup {None}, data : Contents \cup {None}, class : Classes \cup {None},
   over : BOOLEAN, at : Backends, dst : Backends, ok : BOOLEAN,
   failed : SUBSET ({"get", "put", "remove"} \X Backends), clash : SUBSET Backends]

ActionRecords == [key : Keys, target : Tiers, action : Actions]
Metadatas     == [key : Keys, size : 0..2, age : 0..MaxAge, tier : Tiers]

StoreTypes ==
  /\ config \in Configs
  /\ objects \in [Backends -> [Keys -> Objects \cup {None}]]
  /\ call \in [Threads -> Calls]
  /\ truth \in [Keys -> Contents \cup {None}]
  /\ sound \in SUBSET (Backends \X Keys)

CountTypes ==
  initialized \in BOOLEAN /\ connected \in [Backends -> BOOLEAN] /\ calls \in Nat /\ faults \in Nat

PolicyTypes ==
  /\ rules \in SUBSET Rules /\ retention \in RetentionType
  /\ pending \in Seq(ActionRecords)
  /\ work \in [Threads -> [metas : SUBSET Metadatas, todo : Seq(ActionRecords)]]
  /\ due \in [Keys -> Tiers \cup {None}] /\ vetted \in SUBSET Keys

TypeOK == StoreTypes /\ CountTypes /\ PolicyTypes

(***************************************************************************)
(* The forms a call takes, R saying whether stores are replicated.         *)
(***************************************************************************)
Execs == {"execute", "execute_pending"}

Idles(c)     == c.key = None /\ c.pc \notin Busies /\ c.class = None /\ (c.pc = "act" => c.op \in Execs)
Retrieves(c) == c.op = "retrieve" /\ c.class = None /\ c.pc \in {"get", "returned"}
Removes(c)   == c.op \in Execs \cup {"remove"} /\ c.class = None /\ c.pc \in {"remove", "returned"}
Stores(c)    == c.op = "store" /\ c.class = None /\ c.data # None /\ c.pc \in {"open", "write", "returned"}
Moves(c) ==
  /\ c.op \in Execs \cup {"change_tier"} /\ c.class # None /\ c.over
  /\ c.pc \in {"get", "open", "write", "returned"}
  /\ c.pc = "get" => c.data = None
  /\ c.pc \in {"open", "write"} => c.data # None
  /\ c.pc = "returned" /\ c.ok => c.data # None
Copies(c) ==
  /\ c.op = "copy" /\ c.class = None /\ c.over
  /\ c.pc \in {"get", "open", "write", "returned"}
  /\ c.pc = "get" => c.data = None /\ c.at # c.dst
  /\ c.pc \in {"open", "write"} => c.data # None /\ c.at = c.dst
  /\ c.pc = "returned" /\ c.ok => c.data # None
  /\ \A b \in Backends : <<"put", b>> \in c.failed => b = c.dst

Form(c, R) ==
  \/ Idles(c)
  \/ /\ c.key \in Keys
     /\ Retrieves(c) \/ Removes(c) \/ Stores(c) \/ Moves(c) \/ Copies(c)
     /\ c.op # "copy" /\ c.at = "secondary" /\ c.pc \in {"open", "write"} => R
     /\ c.op # "copy" /\ <<"put", "secondary">> \in c.failed => R
     /\ c.pc = "get" => \A b \in Backends : <<"put", b>> \notin c.failed

Works(c) == c.op \in Mutators /\ c.key \in Keys

(***************************************************************************)
(* What a call knows of a backend it did not clash in: x is what is stored *)
(* there under its key, y what the callers take the key to have, s whether *)
(* the backend was known to be sound, T the backends a store is for.       *)
(***************************************************************************)
Agrees(x, y) == IF x # None THEN x.data = y ELSE y = None

Pre(x, y, s)     == s => Agrees(x, y)
Post(c, b, x, y) == <<"put", b>> \notin c.failed /\ (c.class # None => c.data = y) => Agrees(x, c.data)

Tried(c, T) ==
  CASE c.pc \in {"open", "write"} /\ c.op # "copy" /\ c.at = "secondary" -> {"primary"}
    [] c.pc = "returned" /\ c.ok -> IF c.op = "copy" THEN {c.dst} ELSE T
    [] OTHER -> {}

RemoveClaim(c, b, x) ==
  c.pc = "returned" \/ (b = "primary" /\ c.at = "secondary") =>
    (<<"remove", b>> \notin c.failed => x = None)

PutClaim(c, b, x, y, s, T) ==
  /\ c.pc = "write" /\ b = c.at => x # None
  /\ b \in Tried(c, T) => Post(c, b, x, y)
  /\ b \notin Tried(c, T) /\ <<"put", b>> \notin c.failed /\ ~(c.pc = "write" /\ b = c.at) => Pre(x, y, s)
  /\ c.op = "copy" /\ c.data # None /\ b # c.dst => Agrees(x, c.data)

Claim(c, b, x, y, s, T) == IF Removes(c) THEN RemoveClaim(c, b, x) ELSE PutClaim(c, b, x, y, s, T)

Dirty(c, y) == c.class # None /\ c.data # None /\ c.data # y

(***************************************************************************)
(* The invariant.                                                          *)
(***************************************************************************)
Forms == \A t \in Threads : Form(call[t], config.replicate)

Clashes ==
  \A t, u \in Threads :
    t # u /\ call[u].key = call[t].key /\ call[t].key \in Keys /\ call[u].op \in Mutators =>
      /\ \A b \in Backends : Local(b) => b \in call[t].clash
      /\ call[u].class = None \/ (call[t].op \in Mutators /\ call[t].class = None) => Backends \subseteq call[t].clash

Whole(c)  == Works(c) /\ c.class = None => c.clash = {} \/ c.clash = Backends
Wholes    == \A t \in Threads : Whole(call[t])

Strays ==
  \A t \in Threads :
    Works(call[t]) /\ Dirty(call[t], truth[call[t].key]) =>
      /\ Stale(call[t])
      /\ \A u \in Threads \ {t} : call[u].key = call[t].key => Backends \subseteq call[u].clash

Claims ==
  \A t \in Threads : \A b \in Backends \ call[t].clash :
    Works(call[t]) =>
      Claim(call[t], b, objects[b][call[t].key], truth[call[t].key], <<b, call[t].key>> \in sound, Targets)

Undisturbed(b, k) ==
  \A t \in Threads : Works(call[t]) /\ call[t].key = k =>
    ~Local(b) /\ call[t].class # None /\ ~Dirty(call[t], truth[k])

Sounds ==
  \A b \in Backends, k \in Keys :
    <<b, k>> \in sound /\ Undisturbed(b, k) => Agrees(objects[b][k], truth[k])

Todos ==
  \A t \in Threads :
    call[t].pc = "act" \/ (call[t].op \in Execs /\ call[t].pc # "evaluate") => work[t].todo # <<>>

BaseInv  == TypeOK /\ Forms /\ Todos
StoreInv == BaseInv /\ Clashes /\ Wholes /\ Strays /\ Claims /\ Sounds /\ ReadsCurrent

(***************************************************************************)
(* What the policy has promised.                                           *)
(***************************************************************************)
Working(t, k) == Works(call[t]) /\ call[t].key = k

\* a deletion that is due stays one the retention allows, and nothing else is done to its object
Vetted ==
  \A k \in vetted :
    /\ ~retention.hold
    /\ objects["primary"][k] # None => objects["primary"][k].age >= retention.min
    /\ \A t \in Threads : Working(t, k) => Removes(call[t])

HasKey(s, k) == \E i \in 1..Len(s) : s[i].key = k

\* the last action of s for k is a move to the tier x
Ends(s, k, x) ==
  \E i \in 1..Len(s) :
    /\ s[i].key = k /\ s[i].action # "delete_obj" /\ s[i].target = x
    /\ \A j \in 1..Len(s) : j > i => s[j].key # k

Fits(x, tier) == x # None => TierOf(x.class) = tier

\* the move c has stored its object in the primary
Moved(c) == (c.pc = "returned" /\ c.ok) \/ (c.pc \in {"open", "write"} /\ c.at = "secondary")

Coming(t, k) ==
  /\ Ends(work[t].todo, k, due[k])
  /\ \A u \in Threads \ {t} : ~HasKey(work[u].todo, k)
  /\ Working(t, k) /\ call[t].op \in Execs /\ ~HasKey(Tail(work[t].todo), k) =>
       /\ \A u \in Threads \ {t} : ~Working(u, k)
       /\ call[t].class = ClassOf[due[k]]
       /\ Moved(call[t]) => Fits(objects["primary"][k], due[k])

Arrived(k) ==
  /\ \A t \in Threads : ~HasKey(work[t].todo, k) /\ ~Working(t, k)
  /\ Fits(objects["primary"][k], due[k])

\* a tier that is due comes with the last pending action for the key, with the last that some thread
\* has taken on, or is the one the object is in
DueAt(k) ==
  due[k] # None =>
    IF HasKey(pending, k) THEN Ends(pending, k, due[k]) ELSE Arrived(k) \/ \E t \in Threads : Coming(t, k)

Dues == ~Local("primary") /\ ~config.dry => \A k \in Keys : DueAt(k)

Tasks ==
  \A t \in Threads :
    /\ work[t].todo # <<>> => call[t].op \in Execs /\ call[t].pc \in Busies \cup {"act"}
    /\ Works(call[t]) /\ call[t].op \in Execs => call[t].key = Head(work[t].todo).key
    /\ call[t].pc = "write" => Local(call[t].at)

(***************************************************************************)
(* The calls, as they are made and as the backends take them on.           *)
(***************************************************************************)
LEMMA Constants ==
  /\ None \notin Keys /\ None \notin Contents /\ None \notin Objects /\ None \notin Classes
  /\ None \notin Backends /\ None \notin Tiers
  /\ Torn \in Contents /\ Present \in Contents \cup {None} /\ Inputs \subseteq Contents
BY ManagerAssumption, NoneAssumption DEF Contents

LEMMA ClassesOf == ASSUME NEW tier \in Tiers PROVE ClassOf[tier] \in Classes /\ ClassOf[tier] # None
BY Constants DEF ClassOf, Classes, Tiers

\* c and d differ in their clashes at most
Same(c, d) ==
  /\ c.op = d.op /\ c.pc = d.pc /\ c.key = d.key /\ c.data = d.data /\ c.class = d.class
  /\ c.over = d.over /\ c.at = d.at /\ c.dst = d.dst /\ c.ok = d.ok /\ c.failed = d.failed

LEMMA NoCallForm == NoCall \in Calls /\ Idles(NoCall)
BY DEF NoCall, Calls, Idles, Ops, Pcs, Busies, Backends

LEMMA IdleForm ==
  ASSUME NEW op \in Ops, NEW pc \in Pcs, pc \notin Busies, pc = "act" => op \in Execs
  PROVE  [NoCall EXCEPT !.op = op, !.pc = pc] \in Calls /\ Idles([NoCall EXCEPT !.op = op, !.pc = pc])
BY DEF NoCall, Calls, Idles, Backends

StoreCall(k, d, over) ==
  [NoCall EXCEPT !.op = "store", !.pc = "open", !.key = k, !.data = d, !.over = over]

LEMMA StoreForm ==
  ASSUME NEW k \in Keys, NEW d \in Inputs, NEW over \in BOOLEAN, NEW c, c = StoreCall(k, d, over)
  PROVE  c \in Calls /\ Stores(c) /\ c.key = k /\ c.at = "primary" /\ c.failed = {} /\ c.op = "store" /\ c.pc = "open"
BY Constants DEF StoreCall, NoCall, Calls, Stores, Backends, Ops, Mutators, Pcs, Busies

LEMMA RetrieveForm ==
  ASSUME NEW k \in Keys, NEW c, c = [NoCall EXCEPT !.op = "retrieve", !.pc = "get", !.key = k]
  PROVE  c \in Calls /\ Retrieves(c) /\ c.key = k /\ c.at = "primary" /\ c.pc = "get" /\ c.failed = {}
BY DEF NoCall, Calls, Retrieves, Backends, Ops, Pcs, Busies

RemoveCall(op, k) == [NoCall EXCEPT !.op = op, !.pc = "remove", !.key = k]

LEMMA RemoveForm ==
  ASSUME NEW k \in Keys, NEW op \in {"remove", "execute", "execute_pending"}, NEW c, c = RemoveCall(op, k)
  PROVE  c \in Calls /\ Removes(c) /\ c.key = k /\ c.at = "primary" /\ c.pc = "remove" /\ c.failed = {} /\ c.op = op
BY DEF RemoveCall, NoCall, Calls, Removes, Execs, Backends, Ops, Mutators, Pcs, Busies

LEMMA MoveForm ==
  ASSUME NEW k \in Keys, NEW op \in {"change_tier", "execute", "execute_pending"}, NEW tier \in Tiers,
         NEW c, c = Moving(op, k, tier)
  PROVE  c \in Calls /\ Moves(c) /\ c.key = k /\ c.at = "primary" /\ c.pc = "get" /\ c.failed = {} /\ c.op = op
BY Constants, ClassesOf DEF Moving, NoCall, Calls, Moves, Execs, Backends, Ops, Mutators, Pcs, Busies

LEMMA CopyForm ==
  ASSUME NEW k \in Keys, NEW src \in Backends, NEW dst \in Backends, src # dst, NEW c,
         c = [NoCall EXCEPT !.op = "copy", !.pc = "get", !.key = k, !.at = src, !.dst = dst, !.over = TRUE]
  PROVE  c \in Calls /\ Copies(c) /\ c.key = k /\ c.pc = "get" /\ c.failed = {}
BY DEF NoCall, Calls, Copies, Backends, Ops, Mutators, Pcs, Busies

LEMMA SetFields ==
  ASSUME NEW c \in Calls, NEW pc \in Pcs, NEW ok \in BOOLEAN, NEW b \in Backends
  PROVE  /\ [c EXCEPT !.pc = pc, !.ok = ok] \in Calls /\ [c EXCEPT !.at = b, !.pc = pc] \in Calls
         /\ [c EXCEPT !.at = b, !.ok = ok] \in Calls /\ [c EXCEPT !.at = b] \in Calls
<1>1. [c EXCEPT !.pc = pc, !.ok = ok] \in Calls BY DEF Calls
<1>2. [c EXCEPT !.at = b, !.pc = pc] \in Calls BY DEF Calls
<1>3. [c EXCEPT !.at = b, !.ok = ok] \in Calls BY DEF Calls
<1>4. [c EXCEPT !.at = b] \in Calls BY DEF Calls
<1>5. QED BY <1>1, <1>2, <1>3, <1>4

LEMMA Places == Busies \subseteq Pcs /\ "open" \in Pcs /\ "returned" \in Pcs /\ "secondary" \in Backends
BY DEF Pcs, Busies, Backends

(* What the end of a request makes of a call.                              *)
Request(c, d) ==
  d.op = c.op /\ d.key = c.key /\ d.class = c.class /\ d.over = c.over /\ d.clash = c.clash

Noted(c, request, fine, d) == d.failed = IF fine THEN c.failed ELSE c.failed \cup {<<request, c.at>>}

PutEnds(c, fine, ok, d, R) ==
  /\ Request(c, d) /\ Noted(c, "put", fine, d) /\ d.data = c.data /\ d.dst = c.dst
  /\ \/ c.op # "copy" /\ c.at = "primary" /\ ok /\ R /\ d.at = "secondary" /\ d.pc = "open"
     \/ /\ c.op = "copy" \/ c.at = "secondary" \/ ~ok \/ ~R
        /\ d.at = c.at /\ d.pc = "returned" /\ d.ok = (ok \/ (c.op # "copy" /\ c.at = "secondary"))

LEMMA PutEndsType ==
  ASSUME StoreTypes, NEW c \in Calls, NEW fine \in BOOLEAN, NEW ok \in BOOLEAN, NEW d,
         d = AfterPut(After(c, "put", fine), ok)
  PROVE  d \in Calls /\ PutEnds(c, fine, ok, d, config.replicate)
<1> DEFINE f == IF fine THEN c.failed ELSE c.failed \cup {<<"put", c.at>>}
<1> DEFINE e == After(c, "put", fine)
<1>1. f \in SUBSET ({"get", "put", "remove"} \X Backends) BY DEF Calls
<1>2. e = [c EXCEPT !.failed = f] BY DEF After, Calls
<1> HIDE DEF f
<1>3. e \in Calls /\ e.failed = f /\ Same(e, [c EXCEPT !.failed = f]) BY <1>1, <1>2 DEF Calls, Same
<1>3a. Request(c, e) /\ e.data = c.data /\ e.dst = c.dst /\ e.at = c.at BY <1>2 DEF Calls, Request
<1> HIDE DEF e
<1>4. d = IF e.op # "copy" /\ e.at = "primary" /\ ok /\ config.replicate
          THEN [e EXCEPT !.at = "secondary", !.pc = "open"]
          ELSE [e EXCEPT !.pc = "returned", !.ok = ok \/ (e.op # "copy" /\ e.at = "secondary")]
  BY DEF AfterPut, Returned, e
<1>5. d \in Calls
  <2>1. [e EXCEPT !.at = "secondary", !.pc = "open"] \in Calls BY <1>3, SetFields, Places
  <2>2. \A o \in BOOLEAN : [e EXCEPT !.pc = "returned", !.ok = o] \in Calls BY <1>3, SetFields, Places
  <2>3. (ok \/ (e.op # "copy" /\ e.at = "secondary")) \in BOOLEAN OBVIOUS
  <2>4. QED BY <1>4, <2>1, <2>2, <2>3, Zenon
<1>6. Request(e, d) /\ d.failed = e.failed /\ d.data = e.data /\ d.dst = e.dst BY <1>3, <1>4 DEF Calls, Request
<1>7. CASE e.op # "copy" /\ e.at = "primary" /\ ok /\ config.replicate
  <2>1. d.at = "secondary" /\ d.pc = "open" BY <1>3, <1>4, <1>7 DEF Calls
  <2>2. QED BY <2>1, <1>3, <1>3a, <1>5, <1>6, <1>7 DEF PutEnds, Request, Noted, f
<1>8. CASE ~(e.op # "copy" /\ e.at = "primary" /\ ok /\ config.replicate)
  <2>1. d.at = e.at /\ d.pc = "returned" /\ d.ok = (ok \/ (e.op # "copy" /\ e.at = "secondary"))
    BY <1>3, <1>4, <1>8 DEF Calls
  <2>2. c.op = "copy" \/ c.at = "secondary" \/ ~ok \/ ~config.replicate
    BY <1>3a, <1>8, <1>3 DEF Request, Calls, Backends
  <2>3. QED BY <2>1, <2>2, <1>3, <1>3a, <1>5, <1>6 DEF PutEnds, Request, Noted, f
<1>9. QED BY <1>7, <1>8

LEMMA PutEndsForm ==
  ASSUME NEW R \in BOOLEAN, NEW c \in Calls, NEW d \in Calls, NEW fine \in BOOLEAN, NEW ok \in BOOLEAN,
         c.pc \in {"open", "write"}, c.key \in Keys, Form(c, R), PutEnds(c, fine, ok, d, R)
  PROVE  Form(d, R) /\ ~Idles(d)
<1>1. ~Idles(c) /\ ~Idles(d) BY Constants DEF Idles, PutEnds, Request
<1>2. Stores(c) \/ Moves(c) \/ Copies(c) BY <1>1 DEF Form, Retrieves, Removes
<1>2a. d.op # "copy" /\ <<"put", "secondary">> \in d.failed => R
  <2>1. SUFFICES ASSUME c.op # "copy", <<"put", "secondary">> \in d.failed, ~R PROVE FALSE BY DEF PutEnds, Request
  <2>2. <<"put", "secondary">> \notin c.failed BY <1>1, <2>1 DEF Form
  <2>3. c.at = "secondary" BY <2>1, <2>2 DEF PutEnds, Noted
  <2>4. QED BY <1>1, <2>1, <2>3 DEF Form
<1>3. CASE Stores(c) BY <1>1, <1>2a, <1>3 DEF Form, Stores, PutEnds, Request
<1>4. CASE Moves(c) BY <1>1, <1>2a, <1>4 DEF Form, Moves, PutEnds, Request
<1>5. CASE Copies(c)
  <2>1. Copies(d) BY <1>5 DEF Copies, PutEnds, Request, Noted
  <2>2. QED BY <1>1, <1>5, <2>1 DEF Form, PutEnds, Request, Copies
<1>6. QED BY <1>2, <1>3, <1>4, <1>5

(* What Get makes of a call: d is the call with the answer, R and I say    *)
(* whether stores are replicated and the manager is initialized.           *)
Misses(c, fine, d) ==
  /\ Request(c, d) /\ Noted(c, "get", fine, d) /\ d.data = c.data /\ d.dst = c.dst
  /\ \/ c.op # "copy" /\ c.at = "primary" /\ d.at = "secondary" /\ d.pc = "get"
     \/ d.at = c.at /\ d.pc = "returned" /\ ~d.ok

Gets(c, data, d) ==
  /\ Request(c, d) /\ d.failed = c.failed
  /\ \/ c.op = "retrieve" /\ d.data = data /\ d.at = c.at /\ d.dst = c.dst /\ d.pc = "returned" /\ d.ok
     \/ c.op = "copy" /\ d.data = data /\ d.at = c.dst /\ d.dst = c.dst /\ d.pc = "open"
     \/ c.class # None /\ d.data = data /\ d.dst = c.at /\ d.at = "primary" /\ d.pc = "open"
     \/ c.class # None /\ d.data = c.data /\ d.dst = c.dst /\ d.at = c.at /\ d.pc = "returned" /\ ~d.ok

LEMMA GetEndsType ==
  ASSUME StoreTypes, NEW c \in Calls, c.pc = "get", NEW fine \in BOOLEAN, NEW d, d = AfterMiss(After(c, "get", fine))
  PROVE  d \in Calls /\ Misses(c, fine, d)
<1> DEFINE f == IF fine THEN c.failed ELSE c.failed \cup {<<"get", c.at>>}
<1> DEFINE e == After(c, "get", fine)
<1>1. f \in SUBSET ({"get", "put", "remove"} \X Backends) BY DEF Calls
<1>2. e = [c EXCEPT !.failed = f] BY DEF After, Calls
<1> HIDE DEF f
<1>3. e \in Calls /\ e.failed = f /\ Same(e, [c EXCEPT !.failed = f]) BY <1>1, <1>2 DEF Calls, Same
<1>3a. Request(c, e) /\ e.data = c.data /\ e.dst = c.dst /\ e.at = c.at /\ e.pc = c.pc BY <1>2 DEF Calls, Request
<1> HIDE DEF e
<1>4. d = IF e.op # "copy" /\ e.at = "primary" /\ config.fallback
          THEN [e EXCEPT !.at = "secondary"] ELSE [e EXCEPT !.pc = "returned", !.ok = FALSE]
  BY DEF AfterMiss, Returned, e
<1>5. d \in Calls
  <2>1. [e EXCEPT !.at = "secondary"] \in Calls BY <1>3, SetFields, Places
  <2>2. [e EXCEPT !.pc = "returned", !.ok = FALSE] \in Calls BY <1>3, SetFields, Places
  <2>3. QED BY <1>4, <2>1, <2>2, Zenon
<1>6. Request(e, d) /\ d.failed = e.failed /\ d.data = e.data /\ d.dst = e.dst BY <1>3, <1>4 DEF Calls, Request
<1>7. CASE e.op # "copy" /\ e.at = "primary" /\ config.fallback
  <2>1. d.at = "secondary" /\ d.pc = e.pc BY <1>3, <1>4, <1>7 DEF Calls
  <2>2. QED BY <2>1, <1>3, <1>3a, <1>5, <1>6, <1>7 DEF Misses, Request, Noted, f
<1>8. CASE ~(e.op # "copy" /\ e.at = "primary" /\ config.fallback)
  <2>1. d.at = e.at /\ d.pc = "returned" /\ ~d.ok BY <1>3, <1>4, <1>8 DEF Calls
  <2>3. QED BY <2>1, <1>3, <1>3a, <1>5, <1>6 DEF Misses, Request, Noted, f
<1>9. QED BY <1>7, <1>8

LEMMA GetsType ==
  ASSUME StoreTypes, NEW c \in Calls, NEW data \in Contents, NEW d, d = AfterGet(c, data),
         Retrieves(c) \/ Moves(c) \/ Copies(c)
  PROVE  d \in Calls /\ Gets(c, data, d)
<1>1. CASE Retrieves(c)
  <2>1. d = [[c EXCEPT !.data = data] EXCEPT !.pc = "returned", !.ok = TRUE]
    BY <1>1 DEF AfterGet, Returned, Retrieves, Move
  <2>2. QED BY <1>1, <2>1 DEF Calls, Gets, Request, Retrieves, Pcs, Busies
<1>2. CASE Copies(c)
  <2>1. d = [c EXCEPT !.data = data, !.at = c.dst, !.pc = "open"] BY <1>2 DEF AfterGet, Copies, Move
  <2>2. QED BY <1>2, <2>1 DEF Calls, Gets, Request, Copies, Pcs, Busies
<1>3. CASE Moves(c)
  <2>1. CASE initialized
    <3>1. d = [c EXCEPT !.data = data, !.dst = c.at, !.at = "primary", !.pc = "open"]
      BY <1>3, <2>1 DEF AfterGet, Moves, Move, Execs
    <3>2. QED BY <1>3, <3>1 DEF Calls, Gets, Request, Moves, Pcs, Busies, Backends
  <2>2. CASE ~initialized
    <3>1. d = [c EXCEPT !.pc = "returned", !.ok = FALSE]
      BY <1>3, <2>2 DEF AfterGet, Moves, Move, Execs, Returned
    <3>2. QED BY <1>3, <3>1 DEF Calls, Gets, Request, Moves, Pcs, Busies
  <2>3. QED BY <2>1, <2>2
<1>4. QED BY <1>1, <1>2, <1>3

LEMMA GetForm ==
  ASSUME NEW R \in BOOLEAN, NEW c \in Calls, NEW d \in Calls, c.pc = "get", c.key \in Keys, Form(c, R),
         NEW data \in Contents, NEW fine \in BOOLEAN, Misses(c, fine, d) \/ Gets(c, data, d)
  PROVE  Form(d, R) /\ ~Idles(d) /\ ~Removes(d)
<1>0. ~Idles(c) /\ ~Idles(d) BY Constants DEF Idles, Misses, Gets, Request
<1>1. Retrieves(c) \/ Moves(c) \/ Copies(c) BY <1>0 DEF Form, Stores, Removes
<1>2. data # None BY Constants
<1>2a. \A b \in Backends : <<"put", b>> \notin d.failed
  <2>1. \A b \in Backends : <<"put", b>> \notin c.failed BY <1>0 DEF Form
  <2>2. CASE Misses(c, fine, d)
    <3>1. \A b : <<"put", b>> # <<"get", c.at>> OBVIOUS
    <3>2. d.failed \subseteq c.failed \cup {<<"get", c.at>>} BY <2>2 DEF Misses, Noted
    <3>3. QED BY <2>1, <3>1, <3>2
  <2>3. CASE Gets(c, data, d) BY <2>1, <2>3 DEF Gets
  <2>4. QED BY <2>2, <2>3
<1>2b. <<"put", "secondary">> \notin d.failed BY <1>2a DEF Backends
<1>3. CASE Retrieves(c) BY <1>0, <1>2a, <1>2b, <1>3 DEF Form, Retrieves, Removes, Misses, Gets, Request, Execs
<1>4. CASE Moves(c)
  <2>1. Moves(d) /\ (d.pc \in {"open", "write"} => d.at = "primary")
    BY <1>2, <1>4 DEF Moves, Misses, Gets, Request, Execs
  <2>2. QED BY <1>0, <1>2a, <1>2b, <2>1, <1>4 DEF Form, Moves, Removes, Misses, Gets, Request
<1>5. CASE Copies(c)
  <2>1. d.op = "copy" /\ (\A b \in Backends : <<"put", b>> \in d.failed => <<"put", b>> \in c.failed)
    <3>1. CASE Misses(c, fine, d) BY <1>5, <3>1 DEF Copies, Misses, Request, Noted
    <3>2. CASE Gets(c, data, d) BY <1>5, <3>2 DEF Copies, Gets, Request
    <3>3. QED BY <3>1, <3>2
  <2>1a. d.dst = c.dst BY <1>5 DEF Copies, Misses, Gets
  <2>2. Copies(d) BY <2>1, <2>1a, <1>2, <1>5 DEF Copies, Misses, Gets, Request
  <2>3. QED BY <1>0, <1>2a, <2>1, <2>2, <1>5 DEF Form, Copies, Removes, Misses, Gets, Request, Execs
<1>6. QED BY <1>1, <1>3, <1>4, <1>5

(* What a removal makes of a call: gone says whether the primary had it.   *)
Unlinks(c, fine, d) ==
  /\ Request(c, d) /\ Noted(c, "remove", fine, d) /\ d.data = c.data /\ d.dst = c.dst
  /\ \/ c.at = "primary" /\ d.at = "secondary" /\ d.pc = c.pc
     \/ c.at = "secondary" /\ d.at = c.at /\ d.pc = "returned"

LEMMA UnlinkType ==
  ASSUME StoreTypes, NEW c \in Calls, NEW fine \in BOOLEAN, NEW d, d = AfterUnlink(After(c, "remove", fine), fine)
  PROVE  d \in Calls /\ Unlinks(c, fine, d)
<1> DEFINE f == IF fine THEN c.failed ELSE c.failed \cup {<<"remove", c.at>>}
<1> DEFINE e == After(c, "remove", fine)
<1>1. f \in SUBSET ({"get", "put", "remove"} \X Backends) BY DEF Calls
<1>2. e = [c EXCEPT !.failed = f] BY DEF After, Calls
<1> HIDE DEF f
<1>3. e \in Calls /\ e.failed = f /\ Same(e, [c EXCEPT !.failed = f]) BY <1>1, <1>2 DEF Calls, Same
<1>3a. Request(c, e) /\ e.data = c.data /\ e.dst = c.dst /\ e.at = c.at /\ e.pc = c.pc BY <1>2 DEF Calls, Request
<1> HIDE DEF e
<1> DEFINE o == fine /\ (Has(e.at, e.key) \/ ~Local(e.at))
<1>4. d = IF e.at = "primary" THEN [e EXCEPT !.at = "secondary", !.ok = o] ELSE [e EXCEPT !.pc = "returned", !.ok = e.ok]
  BY DEF AfterUnlink, Returned, e
<1>4a. o \in BOOLEAN OBVIOUS
<1> HIDE DEF o
<1>5. d \in Calls
  <2>1. e.ok \in BOOLEAN BY <1>3 DEF Calls
  <2>2. [e EXCEPT !.at = "secondary", !.ok = o] \in Calls BY <1>3, <1>4a, SetFields, Places
  <2>3. [e EXCEPT !.pc = "returned", !.ok = e.ok] \in Calls BY <1>3, <2>1, SetFields, Places
  <2>4. QED BY <1>4, <2>2, <2>3, Zenon
<1>6. Request(e, d) /\ d.failed = e.failed /\ d.data = e.data /\ d.dst = e.dst BY <1>3, <1>4 DEF Calls, Request
<1>7. CASE e.at = "primary"
  <2>1. d.at = "secondary" /\ d.pc = e.pc BY <1>3, <1>4, <1>7 DEF Calls
  <2>2. QED BY <2>1, <1>3, <1>3a, <1>5, <1>6, <1>7 DEF Unlinks, Request, Noted, f
<1>8. CASE e.at = "secondary"
  <2>1. d.at = e.at /\ d.pc = "returned" BY <1>3, <1>4, <1>8 DEF Calls
  <2>3. QED BY <2>1, <1>3, <1>3a, <1>5, <1>6, <1>8 DEF Unlinks, Request, Noted, f
<1>9. QED BY <1>3, <1>7, <1>8 DEF Calls, Backends

LEMMA UnlinkForm ==
  ASSUME NEW R \in BOOLEAN, NEW c \in Calls, NEW d \in Calls, c.pc = "remove", c.key \in Keys, Form(c, R),
         NEW fine \in BOOLEAN, Unlinks(c, fine, d)
  PROVE  Removes(c) /\ Form(d, R) /\ Removes(d) /\ ~Idles(d)
<1>1. ~Idles(c) /\ ~Idles(d) BY Constants DEF Idles, Unlinks, Request
<1>2. Removes(c) BY <1>1 DEF Form, Stores, Moves, Copies, Retrieves
<1>3. Removes(d) /\ d.pc \in {"remove", "returned"} BY <1>2 DEF Removes, Unlinks, Request
<1>4. d.op # "copy" /\ <<"put", "secondary">> \in d.failed => R
  <2>1. SUFFICES ASSUME c.op # "copy", <<"put", "secondary">> \in d.failed PROVE R BY DEF Unlinks, Request
  <2>2. <<"put", "secondary">> # <<"remove", c.at>> OBVIOUS
  <2>3. <<"put", "secondary">> \in c.failed BY <2>1, <2>2 DEF Unlinks, Noted
  <2>4. QED BY <1>1, <2>1, <2>3 DEF Form
<1>5. QED BY <1>1, <1>2, <1>3, <1>4 DEF Form, Unlinks, Request

LEMMA SameForm ==
  ASSUME NEW c, NEW d, Same(c, d), NEW R \in BOOLEAN
  PROVE  /\ Form(c, R) <=> Form(d, R)
         /\ Idles(c) <=> Idles(d)
         /\ Works(c) <=> Works(d)
<1>1. (Idles(c) <=> Idles(d)) /\ (Retrieves(c) <=> Retrieves(d)) BY DEF Same, Idles, Retrieves
<1>2. (Removes(c) <=> Removes(d)) /\ (Stores(c) <=> Stores(d)) /\ (Moves(c) <=> Moves(d)) BY DEF Same, Removes, Stores, Moves
<1>3. Copies(c) <=> Copies(d) BY DEF Same, Copies
<1>4. QED BY <1>1, <1>2, <1>3 DEF Form, Works, Same

LEMMA ClashIn == ASSUME NEW c, NEW d PROVE Clash(c, d) \subseteq Backends
BY DEF Clash

\* t enters c: what the other calls know of c, and c of them
LEMMA ClashWhole ==
  ASSUME NEW c, c.op \in Mutators, c.class = None, NEW d PROVE Clash(c, d) = {} \/ Clash(c, d) = Backends
BY DEF Clash, Move

LEMMA EnterEffect ==
  ASSUME StoreTypes, NEW t \in Threads, NEW c \in Calls, Enter(t, c)
  PROVE  /\ call' \in [Threads -> Calls]
         /\ Same(c, call'[t])
         /\ \A v \in Threads \ {t} : Clash(c, call[v]) \subseteq call'[t].clash
         /\ Whole(call'[t])
         /\ \A u \in Threads \ {t} : Same(call[u], call'[u]) /\ call'[u].clash = call[u].clash \cup Clash(call[u], c)
<1> DEFINE K == UNION {Clash(c, call[v]) : v \in Threads \ {t}}
<1> DEFINE d == [c EXCEPT !.clash = K]
<1> DEFINE e(u) == [call[u] EXCEPT !.clash = @ \cup Clash(call[u], c)]
<1>1. K \in SUBSET Backends BY ClashIn
<1>2. \A v \in Threads \ {t} : Clash(c, call[v]) \subseteq K OBVIOUS
<1>3. call' = [u \in Threads |-> IF u = t THEN d ELSE e(u)] BY DEF Enter
<1>3a. c.op \in Mutators /\ c.class = None => K = {} \/ K = Backends
  <2>1. SUFFICES ASSUME c.op \in Mutators, c.class = None, K # {} PROVE K = Backends OBVIOUS
  <2>2. PICK v \in Threads \ {t} : Clash(c, call[v]) # {} BY <2>1
  <2>3. Clash(c, call[v]) = Backends BY <2>1, <2>2, ClashWhole
  <2> HIDE DEF K
  <2>4. QED BY <1>1, <1>2, <2>3
<1> HIDE DEF K
<1>4. d \in Calls /\ Same(c, d) /\ d.clash = K BY <1>1 DEF Calls, Same
<1>5. ASSUME NEW u \in Threads \ {t}
      PROVE  e(u) \in Calls /\ Same(call[u], e(u)) /\ e(u).clash = call[u].clash \cup Clash(call[u], c)
  <2> DEFINE C == Clash(call[u], c)
  <2>1. C \in SUBSET Backends BY ClashIn
  <2>2. call[u] \in Calls BY DEF StoreTypes
  <2>3. e(u) = [call[u] EXCEPT !.clash = call[u].clash \cup C] BY <2>2 DEF Calls
  <2> HIDE DEF C
  <2>4. call[u].clash \cup C \in SUBSET Backends BY <2>1, <2>2 DEF Calls
  <2>5. e(u) \in Calls /\ Same(call[u], e(u)) /\ e(u).clash = call[u].clash \cup C
    BY <2>2, <2>3, <2>4 DEF Calls, Same
  <2>6. QED BY <2>5 DEF C
<1> HIDE DEF d, e
<1>6. call'[t] = d /\ \A u \in Threads \ {t} : call'[u] = e(u) BY <1>3
<1>7. Whole(d) BY <1>3a, <1>4 DEF Whole, Works, Same
<1>8. call' \in [Threads -> Calls] BY <1>3, <1>4, <1>5
<1>9. QED BY <1>2, <1>4, <1>5, <1>6, <1>7, <1>8

(***************************************************************************)
(* What the policy makes of metadata.                                      *)
(***************************************************************************)
LEMMA LeastNat == ASSUME NEW S \in SUBSET Nat, S # {} PROVE \E m \in S : \A x \in Nat : x < m => x \notin S
<1>1. PICK m \in S : \A x \in S : ~ (<<x, m>> \in OpToRel(<, Nat)) BY NatLessThanWellFounded, WFMin
<1>2. \A x \in S : x < m => <<x, m>> \in OpToRel(<, Nat) BY DEF OpToRel
<1>3. \A x \in S : ~ (x < m) BY <1>1, <1>2, Zenon
<1>4. QED BY <1>3

Top(r, S) == \A s \in S : r.priority >= s.priority

\* among rules there is one of the highest priority
LEMMA TopRule == ASSUME NEW S \in SUBSET Rules, S # {} PROVE \E r \in S : Top(r, S)
<1> DEFINE Bad(n) == \E T \in SUBSET Rules : T # {} /\ Cardinality(T) = n /\ ~(\E r \in T : Top(r, T))
<1> DEFINE B == {n \in Nat : Bad(n)}
<1>0. IsFiniteSet(Rules) /\ \A r \in Rules : r.priority \in Int BY PolicyAssumption DEF RuleType
<1>1. SUFFICES ASSUME ~(\E r \in S : Top(r, S)) PROVE FALSE OBVIOUS
<1>2. \A T \in SUBSET Rules : IsFiniteSet(T) /\ Cardinality(T) \in Nat BY <1>0, FS_Subset, FS_CardinalityType
<1>3. Cardinality(S) \in B BY <1>1, <1>2
<1>4. PICK n \in B : \A x \in Nat : x < n => x \notin B BY <1>3, LeastNat
<1>5. PICK T \in SUBSET Rules : T # {} /\ Cardinality(T) = n /\ ~(\E r \in T : Top(r, T)) BY <1>4
<1>6. PICK q \in T : TRUE BY <1>5
<1>7. Cardinality(T \ {q}) = n - 1 /\ n - 1 \in Nat
  BY <1>2, <1>5, <1>6, FS_RemoveElement, FS_CardinalityType, FS_EmptySet
<1>8. CASE T \ {q} = {}
  <2>1. Top(q, T) BY <1>0, <1>6, <1>8 DEF Top
  <2>2. QED BY <1>5, <1>6, <2>1
<1>9. CASE T \ {q} # {}
  <2>1. ~Bad(n - 1) BY <1>4, <1>7
  <2>2. PICK r \in T \ {q} : Top(r, T \ {q}) BY <1>5, <1>7, <1>9, <2>1
  <2>3. r.priority >= q.priority \/ q.priority >= r.priority BY <1>0, <1>6, <2>2
  <2>4. r.priority >= q.priority => Top(r, T) BY <2>2 DEF Top
  <2>5. q.priority >= r.priority => Top(q, T) BY <1>0, <1>6, <2>2 DEF Top
  <2>6. QED BY <1>5, <1>6, <2>2, <2>3, <2>4, <2>5
<1>10. QED BY <1>8, <1>9

LEMMA RecommendedType ==
  ASSUME PolicyTypes, NEW m \in Metadatas
  PROVE  Recommended(m) \in ActionRecords /\ Recommended(m).key = m.key
<1>1. CASE Matching(m) # {}
  <2> DEFINE r == CHOOSE r \in Matching(m) : \A s \in Matching(m) : r.priority >= s.priority
  <2>1. Matching(m) \in SUBSET Rules BY DEF Matching, PolicyTypes
  <2>2. \E x \in Matching(m) : \A s \in Matching(m) : x.priority >= s.priority BY <1>1, <2>1, TopRule DEF Top
  <2>3. r \in Rules BY <2>1, <2>2
  <2>4. r.target \in Tiers /\ r.action \in Actions BY <2>3, PolicyAssumption DEF RuleType
  <2>5. Recommended(m) = [key |-> m.key, target |-> r.target, action |-> r.action] BY <1>1 DEF Recommended
  <2> HIDE DEF r
  <2>6. QED BY <2>4, <2>5 DEF ActionRecords, Metadatas
<1>2. CASE Matching(m) = {}
  <2> DEFINE x == IF AgeTarget(m) # m.tier THEN AgeTarget(m) ELSE SizeTarget(m)
  <2>1. Recommended(m) = [key |-> m.key, action |-> "move", target |-> x] BY <1>2 DEF Recommended
  <2>2. AgeTarget(m) \in Tiers BY DEF AgeTarget, Tiers, Metadatas
  <2>3. SizeTarget(m) \in Tiers BY DEF SizeTarget, Tiers, Metadatas
  <2>4. x \in Tiers BY <2>2, <2>3
  <2> HIDE DEF x
  <2>5. QED BY <2>1, <2>4 DEF ActionRecords, Metadatas, Actions
<1>3. QED BY <1>1, <1>2

LEMMA MetadataType ==
  ASSUME StoreTypes, NEW b \in Backends, NEW k \in Keys, Has(b, k)
  PROVE  Listed(b, k) \in Metadatas /\ Metadata(b, k) \in Metadatas
<1> DEFINE x == objects[b][k]
<1>1. x \in Objects BY DEF StoreTypes, Has
<1>2. x.data \in Contents /\ x.age \in 0..MaxAge BY <1>1 DEF Objects, Contents
<1>3. SizeOf(x.data) \in 0..2 BY <1>2, ManagerAssumption DEF SizeOf, Contents
<1>4. Listed(b, k) = [key |-> k, size |-> SizeOf(x.data), age |-> x.age, tier |-> "hot"] BY DEF Listed
<1>5. TierOf(x.class) \in Tiers BY DEF TierOf, TierOfClass, Tiers
<1> HIDE DEF x
<1>6. Listed(b, k) \in Metadatas BY <1>2, <1>3, <1>4 DEF Metadatas, Tiers
<1>7. [Listed(b, k) EXCEPT !.tier = TierOf(x.class)] \in Metadatas BY <1>5, <1>6 DEF Metadatas
<1>8. QED BY <1>6, <1>7 DEF Metadata, x

LEMMA ListingType ==
  ASSUME StoreTypes, NEW lost \in SUBSET Backends, NEW prefix \in SUBSET Keys
  PROVE  Listing(lost, prefix) \subseteq Metadatas
<1>1. \A b \in Backends, k \in Keys : Has(b, k) => Listed(b, k) \in Metadatas BY MetadataType
<1>2. QED BY <1>1 DEF Listing, Backends

(***************************************************************************)
(* The kinds of steps, by what they change in the stores and the calls.    *)
(***************************************************************************)
Sets(t, d) ==
  call' \in [Threads -> Calls] /\ call'[t] = d /\ \A u \in Threads \ {t} : call'[u] = call[u]

Writes(b0, k0, x) ==
  /\ objects' \in [Backends -> [Keys -> Objects \cup {None}]]
  /\ objects'[b0][k0] = x
  /\ \A b \in Backends, k \in Keys : b # b0 \/ k # k0 => objects'[b][k] = objects[b][k]

Told == UNCHANGED <<config, truth, sound>>

QuietStep(t) ==
  Idles(call[t]) /\ Told /\ UNCHANGED objects /\ \E d \in Calls : Idles(d) /\ Sets(t, d)

\* a call that begins, with no request made yet
Begins(c) ==
  /\ c.key \in Keys /\ c.failed = {}
  /\ \/ Retrieves(c) /\ c.pc = "get"
     \/ Removes(c) /\ c.pc = "remove" /\ c.at = "primary"
     \/ Stores(c) /\ c.pc = "open" /\ c.at = "primary"
     \/ Moves(c) /\ c.pc = "get"
     \/ Copies(c) /\ c.pc = "get"

EnterStep(t) ==
  /\ Idles(call[t]) /\ call' \in [Threads -> Calls] /\ Told /\ UNCHANGED objects
  /\ \E c \in Calls :
       /\ Begins(c) /\ Same(c, call'[t]) /\ Whole(call'[t])
       /\ \A u \in Threads \ {t} :
            /\ Clash(c, call[u]) \subseteq call'[t].clash
            /\ Same(call[u], call'[u]) /\ call'[u].clash = call[u].clash \cup Clash(call[u], c)

OpenStep(t) ==
  LET c == call[t] IN
  /\ c.pc = "open" /\ Local(c.at) /\ Told
  /\ \E d \in Calls, x \in Objects :
       /\ Request(c, d) /\ d.data = c.data /\ d.at = c.at /\ d.dst = c.dst /\ d.pc = "write" /\ d.failed = c.failed
       /\ Sets(t, d) /\ Writes(c.at, c.key, x)

\* fine: the request did not fail; over what is in the way x is left
PutResult(c, fine, ok, old, x) ==
  \/ fine /\ ok /\ x # None /\ x.data = c.data
  \/ fine /\ ok /\ c.pc = "write" /\ old = None /\ x = None
  \/ fine /\ ~ok /\ c.pc = "open" /\ c.at = "primary" /\ ~c.over /\ x = old
  \/ ~fine /\ (x = old \/ (x # None /\ x.data = c.data))

PutStep(t) ==
  LET c == call[t] IN
  /\ c.pc \in {"open", "write"} /\ Told
  /\ \E d \in Calls, fine, ok \in BOOLEAN, x \in Objects \cup {None} :
       /\ PutEnds(c, fine, ok, d, config.replicate) /\ PutResult(c, fine, ok, objects[c.at][c.key], x)
       /\ Sets(t, d) /\ Writes(c.at, c.key, x)

GetStep(t) ==
  LET c == call[t]
      x == objects[c.at][c.key] IN
  /\ c.pc = "get" /\ Told /\ UNCHANGED objects /\ call' \in [Threads -> Calls]
  /\ \A u \in Threads : Whole(call[u]) => Whole(call'[u])
  /\ \E d \in Calls, fine \in BOOLEAN :
       /\ (Misses(c, fine, d) /\ (fine => x = None)) \/ (fine /\ x # None /\ Gets(c, x.data, d))
       /\ Same(d, call'[t]) /\ c.clash \subseteq call'[t].clash
       /\ d.op = "retrieve" /\ d.pc = "returned" /\ <<d.at, d.key>> \notin sound => d.at \in call'[t].clash
       /\ \A u \in Threads \ {t} :
            /\ Same(call[u], call'[u]) /\ call[u].clash \subseteq call'[u].clash
            /\ d.class # None /\ Stale(d) => Clash(call[u], d) \subseteq call'[u].clash

UnlinkStep(t) ==
  LET c == call[t] IN
  /\ c.pc = "remove" /\ Told
  /\ \E d \in Calls, fine \in BOOLEAN, x \in Objects \cup {None} :
       /\ Unlinks(c, fine, d) /\ (x = None \/ (~fine /\ x = objects[c.at][c.key]))
       /\ Sets(t, d) /\ Writes(c.at, c.key, x)

EndStep(t) ==
  /\ call[t].pc = "returned" /\ UNCHANGED <<config, objects>> /\ Learn(call[t])
  /\ \E d \in Calls : Idles(d) /\ Sets(t, d)

AgeStep ==
  /\ UNCHANGED call /\ Told /\ (\A t \in Threads : call[t].pc = "idle")
  /\ objects' \in [Backends -> [Keys -> Objects \cup {None}]]
  /\ \A b \in Backends, k \in Keys :
       (objects[b][k] = None <=> objects'[b][k] = None) /\ (objects[b][k] # None => objects'[b][k].data = objects[b][k].data)

StillStep == UNCHANGED <<objects, call>> /\ Told

RequestStep(t) == OpenStep(t) \/ PutStep(t) \/ GetStep(t) \/ UnlinkStep(t)
StoreStep(t)   == QuietStep(t) \/ EnterStep(t) \/ RequestStep(t) \/ EndStep(t)

LEMMA SetCall ==
  ASSUME StoreTypes, NEW t \in Threads, NEW d \in Calls, call' = [call EXCEPT ![t] = d] PROVE Sets(t, d)
BY DEF StoreTypes, Sets

LEMMA SetObject ==
  ASSUME StoreTypes, NEW b0 \in Backends, NEW k0 \in Keys, NEW x \in Objects \cup {None},
         objects' = [objects EXCEPT ![b0][k0] = x]
  PROVE  Writes(b0, k0, x)
<1>1. objects[b0] \in [Keys -> Objects \cup {None}] BY DEF StoreTypes
<1>2. objects' = [objects EXCEPT ![b0] = [objects[b0] EXCEPT ![k0] = x]] OBVIOUS
<1>3. [objects[b0] EXCEPT ![k0] = x] \in [Keys -> Objects \cup {None}] BY <1>1
<1>4. QED BY <1>1, <1>2, <1>3 DEF StoreTypes, Writes

LEMMA SetNothing ==
  ASSUME StoreTypes, NEW b0 \in Backends, NEW k0 \in Keys, UNCHANGED objects
  PROVE  Writes(b0, k0, objects[b0][k0]) /\ objects[b0][k0] \in Objects \cup {None}
BY DEF StoreTypes, Writes

LEMMA WrittenType ==
  ASSUME StoreTypes, NEW c \in Calls, c.data # None
  PROVE  Written(c) \in Objects /\ Written(c).data = c.data /\ Written(c) # None
<1>1. MaxAge \in Nat BY ManagerAssumption
<1>2. Written(c) \in Objects BY <1>1 DEF Written, Objects, Calls, Contents
<1>3. QED BY <1>2, Constants DEF Written

\* a call that is in a backend has a key
LEMMA BusyForm ==
  ASSUME StoreTypes, Forms, NEW t \in Threads, call[t].pc \in Busies
  PROVE  /\ call[t] \in Calls /\ call[t].key \in Keys /\ call[t].at \in Backends /\ ~Idles(call[t])
         /\ Form(call[t], config.replicate) /\ config.replicate \in BOOLEAN
         /\ call[t].pc \in {"open", "write"} => call[t].data # None
<1>1. call[t] \in Calls /\ config.replicate \in BOOLEAN BY ManagerAssumption DEF StoreTypes, ConfigType
<1>2. Form(call[t], config.replicate) BY DEF Forms
<1>3. ~Idles(call[t]) BY DEF Idles
<1>4. call[t].pc \in {"open", "write"} => call[t].data # None
  BY <1>2, <1>3 DEF Form, Retrieves, Removes, Stores, Moves, Copies
<1>5. QED BY <1>1, <1>2, <1>3, <1>4 DEF Form, Calls

(***************************************************************************)
(* Every step of the manager is of one of these kinds.                     *)
(***************************************************************************)
LEMMA PutToCloudKind ==
  ASSUME StoreTypes, Forms, NEW t \in Threads, PutToCloud(t) PROVE PutStep(t)
<1> DEFINE c == call[t]
<1>1. c.pc = "open" /\ c \in Calls /\ c.key \in Keys /\ c.at \in Backends /\ c.data # None
  BY BusyForm DEF PutToCloud, At, Busies
<1>2. PICK ok \in BOOLEAN, done \in BOOLEAN :
        /\ ok => done
        /\ objects' = IF done THEN [objects EXCEPT ![c.at][c.key] = Written(c)] ELSE objects
        /\ call' = [call EXCEPT ![t] = AfterPut(After(c, "put", ok), ok)]
  BY DEF PutToCloud
<1>3. Told BY DEF PutToCloud, Told
<1> DEFINE d == AfterPut(After(c, "put", ok), ok)
<1> HIDE DEF c
<1>4. d \in Calls /\ PutEnds(c, ok, ok, d, config.replicate) BY <1>1, PutEndsType
<1>5. Sets(t, d) BY <1>2, <1>4, SetCall
<1>6. Written(c) \in Objects /\ Written(c).data = c.data /\ Written(c) # None BY <1>1, WrittenType
<1> HIDE DEF d
<1>7. PICK x \in Objects \cup {None} : Writes(c.at, c.key, x) /\ (done => x = Written(c)) /\ (~done => x = objects[c.at][c.key])
  <2>1. CASE done BY <1>1, <1>2, <1>6, <2>1, SetObject
  <2>2. CASE ~done BY <1>1, <1>2, <2>2, SetNothing
  <2>3. QED BY <2>1, <2>2
<1>8. PutResult(c, ok, ok, objects[c.at][c.key], x) BY <1>2, <1>6, <1>7 DEF PutResult
<1>9. QED BY <1>1, <1>3, <1>4, <1>5, <1>7, <1>8 DEF PutStep, c

LEMMA OpenFileKind ==
  ASSUME StoreTypes, Forms, NEW t \in Threads, OpenFile(t) PROVE OpenStep(t) \/ PutStep(t)
<1> DEFINE c == call[t]
<1> DEFINE torn == [data |-> Torn, class |-> None, age |-> 0]
<1>1. c.pc = "open" /\ c \in Calls /\ c.key \in Keys /\ c.at \in Backends /\ c.data # None /\ Local(c.at)
  BY BusyForm DEF OpenFile, At, Busies
<1>2. PICK ok \in BOOLEAN :
        /\ objects' = IF ok THEN [objects EXCEPT ![c.at][c.key] = torn] ELSE objects
        /\ call' = [call EXCEPT ![t] = IF ok THEN [c EXCEPT !.pc = "write"] ELSE AfterPut(After(c, "put", ok), FALSE)]
  BY DEF OpenFile
<1>3. Told BY DEF OpenFile, Told
<1>3a. torn \in Objects BY Constants, ManagerAssumption DEF Objects, Contents
<1> HIDE DEF c, torn
<1>4. CASE ok
  <2> DEFINE d == [c EXCEPT !.pc = "write"]
  <2>1. d \in Calls /\ Request(c, d) /\ d.data = c.data /\ d.at = c.at /\ d.dst = c.dst /\ d.pc = "write" /\ d.failed = c.failed
    BY <1>1 DEF Calls, Request, Pcs, Busies
  <2>2. call' = [call EXCEPT ![t] = d] BY <1>2, <1>4
  <2> HIDE DEF d
  <2>3. Sets(t, d) BY <2>1, <2>2, SetCall
  <2>4. Writes(c.at, c.key, torn) BY <1>1, <1>2, <1>3a, <1>4, SetObject
  <2>5. QED BY <1>1, <1>3, <1>3a, <2>1, <2>3, <2>4 DEF OpenStep, c
<1>5. CASE ~ok
  <2> DEFINE d == AfterPut(After(c, "put", FALSE), FALSE)
  <2>0. ok = FALSE BY <1>5
  <2>1. d \in Calls /\ PutEnds(c, FALSE, FALSE, d, config.replicate) BY <1>1, PutEndsType
  <2>2. call' = [call EXCEPT ![t] = d] BY <1>2, <2>0
  <2> HIDE DEF d
  <2>3. Sets(t, d) BY <2>1, <2>2, SetCall
  <2>4. UNCHANGED objects BY <1>2, <1>5
  <2> DEFINE x == objects[c.at][c.key]
  <2>5. Writes(c.at, c.key, x) /\ x \in Objects \cup {None} BY <1>1, <2>4, SetNothing
  <2>6. PutResult(c, FALSE, FALSE, objects[c.at][c.key], x) BY DEF PutResult
  <2> HIDE DEF x
  <2>7. QED BY <1>1, <1>3, <2>1, <2>3, <2>5, <2>6 DEF PutStep, c
<1>6. QED BY <1>4, <1>5

LEMMA RefuseFileKind ==
  ASSUME StoreTypes, Forms, NEW t \in Threads, RefuseFile(t) PROVE PutStep(t)
<1> DEFINE c == call[t]
<1> DEFINE fine == (c.at = "primary")
<1> DEFINE d == AfterPut(After(c, "put", fine), FALSE)
<1> DEFINE x == objects[c.at][c.key]
<1>1. c.pc = "open" /\ c \in Calls /\ c.key \in Keys /\ c.at \in Backends BY BusyForm DEF RefuseFile, At, Busies
<1>2. call' = [call EXCEPT ![t] = d] /\ UNCHANGED objects /\ Told BY DEF RefuseFile, Told
<1>3. fine \in BOOLEAN /\ ~c.over BY DEF RefuseFile, Refused
<1>4. d \in Calls /\ PutEnds(c, fine, FALSE, d, config.replicate) BY <1>1, <1>3, PutEndsType
<1> HIDE DEF d
<1>5. Sets(t, d) BY <1>2, <1>4, SetCall
<1>6. Writes(c.at, c.key, x) /\ x \in Objects \cup {None} BY <1>1, <1>2, SetNothing
<1>7. PutResult(c, fine, FALSE, objects[c.at][c.key], x) BY <1>1, <1>3 DEF PutResult
<1> HIDE DEF x, fine
<1>8. QED BY <1>1, <1>2, <1>3, <1>4, <1>5, <1>6, <1>7 DEF PutStep

LEMMA WriteFileKind ==
  ASSUME StoreTypes, Forms, NEW t \in Threads, WriteFile(t) PROVE PutStep(t)
<1> DEFINE c == call[t]
<1> DEFINE old == objects[c.at][c.key]
<1>1. c.pc = "write" /\ c \in Calls /\ c.key \in Keys /\ c.at \in Backends /\ c.data # None
  BY BusyForm DEF WriteFile, At, Busies
<1>2. PICK ok \in BOOLEAN, done \in BOOLEAN :
        /\ done => ok
        /\ objects' = IF done /\ Has(c.at, c.key) THEN [objects EXCEPT ![c.at][c.key] = Written(c)] ELSE objects
        /\ call' = [call EXCEPT ![t] = AfterPut(After(c, "put", done), ok)]
  BY DEF WriteFile
<1>3. Told BY DEF WriteFile, Told
<1>3a. Has(c.at, c.key) <=> old # None BY DEF Has
<1> DEFINE d == AfterPut(After(c, "put", done), ok)
<1> HIDE DEF c
<1>4. d \in Calls /\ PutEnds(c, done, ok, d, config.replicate) BY <1>1, PutEndsType
<1>5. Sets(t, d) BY <1>2, <1>4, SetCall
<1>6. Written(c) \in Objects /\ Written(c).data = c.data /\ Written(c) # None BY <1>1, WrittenType
<1> HIDE DEF d
<1>7. PICK x \in Objects \cup {None} : Writes(c.at, c.key, x) /\ x = IF done /\ old # None THEN Written(c) ELSE old
  <2>1. CASE done /\ old # None BY <1>1, <1>2, <1>3a, <1>6, <2>1, SetObject
  <2>2. CASE ~(done /\ old # None) BY <1>1, <1>2, <1>3a, <2>2, SetNothing
  <2>3. QED BY <2>1, <2>2
<1>8. PutResult(c, done, ok, old, x) BY <1>1, <1>2, <1>6, <1>7 DEF PutResult
<1>9. QED BY <1>1, <1>3, <1>4, <1>5, <1>7, <1>8 DEF PutStep, c

LEMMA UnlinkKind ==
  ASSUME StoreTypes, Forms, NEW t \in Threads, Unlink(t) PROVE UnlinkStep(t)
<1> DEFINE c == call[t]
<1>1. c.pc = "remove" /\ c \in Calls /\ c.key \in Keys /\ c.at \in Backends BY BusyForm DEF Unlink, At, Busies
<1>2. PICK ok \in BOOLEAN, done \in BOOLEAN :
        /\ ok => done
        /\ objects' = IF done THEN [objects EXCEPT ![c.at][c.key] = None] ELSE objects
        /\ call' = [call EXCEPT ![t] = AfterUnlink(After(c, "remove", ok), ok)]
  BY DEF Unlink
<1>3. Told BY DEF Unlink, Told
<1> DEFINE d == AfterUnlink(After(c, "remove", ok), ok)
<1> HIDE DEF c
<1>4. d \in Calls /\ Unlinks(c, ok, d) BY <1>1, UnlinkType
<1>5. Sets(t, d) BY <1>2, <1>4, SetCall
<1> HIDE DEF d
<1>7. PICK x \in Objects \cup {None} : Writes(c.at, c.key, x) /\ (done => x = None) /\ (~done => x = objects[c.at][c.key])
  <2>1. CASE done BY <1>1, <1>2, <2>1, SetObject
  <2>2. CASE ~done BY <1>1, <1>2, <2>2, SetNothing
  <2>3. QED BY <2>1, <2>2
<1>9. QED BY <1>1, <1>2, <1>3, <1>4, <1>5, <1>7 DEF UnlinkStep, c

LEMMA GetKind ==
  ASSUME StoreTypes, Forms, NEW t \in Threads, Get(t) PROVE GetStep(t)
<1> DEFINE c == call[t]
<1> DEFINE x == objects[c.at][c.key]
<1>1. c.pc = "get" /\ c \in Calls /\ c.key \in Keys /\ c.at \in Backends /\ (Retrieves(c) \/ Moves(c) \/ Copies(c))
  <2>1. c.pc = "get" BY DEF Get, At
  <2>2. c \in Calls /\ c.key \in Keys /\ c.at \in Backends /\ ~Idles(c) /\ Form(c, config.replicate)
    BY <2>1, BusyForm DEF Busies
  <2>3. QED BY <2>1, <2>2 DEF Form, Stores, Removes
<1>2. Told /\ UNCHANGED objects BY DEF Get, Told
<1> DEFINE D(ok) == IF ok /\ Has(c.at, c.key) THEN AfterGet(c, x.data) ELSE AfterMiss(After(c, "get", ok))
<1> DEFINE e(u, d) == IF u = t THEN Judged(d)
                      ELSE IF Move(d) /\ Stale(d) THEN [call[u] EXCEPT !.clash = @ \cup Clash(call[u], d)] ELSE call[u]
<1>3. PICK ok \in BOOLEAN : call' = [u \in Threads |-> e(u, D(ok))] BY DEF Get
<1> DEFINE d == D(ok)
<1>4. d \in Calls /\ ((Misses(c, ok, d) /\ (ok => x = None)) \/ (ok /\ x # None /\ Gets(c, x.data, d)))
  <2>1. CASE ok /\ x # None
    <3>1. x \in Objects BY <1>1, <2>1 DEF StoreTypes
    <3>2. x.data \in Contents BY <3>1 DEF Objects, Contents
    <3>3. d = AfterGet(c, x.data) BY <2>1 DEF Has
    <3> HIDE DEF c, x
    <3>4. QED BY <1>1, <2>1, <3>2, <3>3, GetsType
  <2>2. CASE ~(ok /\ x # None)
    <3>1. d = AfterMiss(After(c, "get", ok)) BY <2>2 DEF Has
    <3> HIDE DEF c, x, d
    <3>2. d \in Calls /\ Misses(c, ok, d) BY <1>1, <3>1, GetEndsType
    <3>3. QED BY <2>2, <3>2
  <2>3. QED BY <2>1, <2>2
<1>5. call' = [u \in Threads |-> e(u, d)] BY <1>3
<1> HIDE DEF d, D, x
<1>6. Judged(d) \in Calls /\ Same(d, Judged(d)) /\ d.clash \subseteq Judged(d).clash
      /\ (d.op = "retrieve" /\ d.pc = "returned" /\ <<d.at, d.key>> \notin sound => d.at \in Judged(d).clash)
  <2>1. CASE d.op = "retrieve" /\ d.pc = "returned" /\ <<d.at, d.key>> \notin sound
    <3> DEFINE K == d.clash \cup {d.at}
    <3>1. K \in SUBSET Backends BY <1>4 DEF Calls
    <3>2. Judged(d) = [d EXCEPT !.clash = K] BY <1>4, <2>1 DEF Judged, Calls
    <3>3. d.at \in K /\ d.clash \subseteq K OBVIOUS
    <3> HIDE DEF K
    <3>4. QED BY <1>4, <3>1, <3>2, <3>3 DEF Calls, Same
  <2>2. CASE ~(d.op = "retrieve" /\ d.pc = "returned" /\ <<d.at, d.key>> \notin sound)
    <3>1. Judged(d) = d BY <2>2 DEF Judged
    <3>2. QED BY <1>4, <2>2, <3>1 DEF Same
  <2>3. QED BY <2>1, <2>2
<1>7. ASSUME NEW u \in Threads \ {t}
      PROVE  /\ Whole(call[u]) => Whole(e(u, d))
             /\ e(u, d) \in Calls /\ Same(call[u], e(u, d)) /\ call[u].clash \subseteq e(u, d).clash
             /\ d.class # None /\ Stale(d) => Clash(call[u], d) \subseteq e(u, d).clash
  <2> DEFINE K == call[u].clash \cup Clash(call[u], d)
  <2>1. call[u] \in Calls BY DEF StoreTypes
  <2>2. K \in SUBSET Backends BY <2>1, ClashIn DEF Calls
  <2>3. call[u].clash \subseteq K /\ Clash(call[u], d) \subseteq K OBVIOUS
  <2>3a. call[u].op \in Mutators /\ call[u].class = None => Clash(call[u], d) = {} \/ Clash(call[u], d) = Backends
    BY ClashWhole
  <2>3b. Whole(call[u]) /\ Works(call[u]) /\ call[u].class = None => K = {} \/ K = Backends
    BY <2>2, <2>3a DEF Whole, Works
  <2>4. CASE Move(d) /\ Stale(d)
    <3>1. e(u, d) = [call[u] EXCEPT !.clash = K] BY <2>1, <2>4 DEF Calls
    <3> HIDE DEF K
    <3>2. e(u, d) \in Calls /\ Same(call[u], e(u, d)) /\ e(u, d).clash = K BY <2>1, <2>2, <3>1 DEF Calls, Same
    <3>3. QED BY <2>3, <2>3b, <3>2 DEF Same, Whole, Works
  <2>5. CASE ~(Move(d) /\ Stale(d))
    <3>1. e(u, d) = call[u] BY <2>5
    <3>2. QED BY <2>1, <2>5, <3>1 DEF Same, Move
  <2>6. QED BY <2>4, <2>5
<1>8. call' \in [Threads -> Calls] /\ call'[t] = Judged(d) /\ \A u \in Threads \ {t} : call'[u] = e(u, d)
  BY <1>5, <1>6, <1>7
<1> HIDE DEF e, c
<1>9. c.clash = d.clash BY <1>4 DEF Misses, Gets, Request
<1>10. /\ Same(d, call'[t]) /\ c.clash \subseteq call'[t].clash
       /\ d.op = "retrieve" /\ d.pc = "returned" /\ <<d.at, d.key>> \notin sound => d.at \in call'[t].clash
  BY <1>6, <1>8, <1>9
<1>11. \A u \in Threads \ {t} :
         /\ Same(call[u], call'[u]) /\ call[u].clash \subseteq call'[u].clash
         /\ d.class # None /\ Stale(d) => Clash(call[u], d) \subseteq call'[u].clash
  BY <1>7, <1>8
<1>11a. \A u \in Threads : Whole(call[u]) => Whole(call'[u])
  <2>1. ASSUME Whole(call[t]) PROVE Whole(call'[t])
    <3>1. d.op = c.op /\ d.key = c.key /\ d.class = c.class BY <1>4 DEF Misses, Gets, Request
    <3>2. c.op \in Mutators => Judged(d) = d BY <3>1 DEF Judged, Mutators
    <3>3. QED BY <1>8, <1>9, <2>1, <3>1, <3>2, <1>6 DEF Whole, Works, Same, c
  <2>2. ASSUME NEW u \in Threads \ {t}, Whole(call[u]) PROVE Whole(call'[u]) BY <1>7, <1>8, <2>2
  <2>3. QED BY <2>1, <2>2
<1>12. QED BY <1>11a, <1>1, <1>2, <1>4, <1>8, <1>10, <1>11 DEF GetStep, c, x

LEMMA IdleKind ==
  ASSUME StoreTypes, NEW t \in Threads, Idles(call[t]), NEW d \in Calls, Idles(d),
         call' = [call EXCEPT ![t] = d], UNCHANGED <<config, objects, truth, sound>>
  PROVE  QuietStep(t)
<1>1. Sets(t, d) BY SetCall
<1>2. QED BY <1>1 DEF QuietStep, Told

LEMMA IdlesAt ==
  ASSUME Forms, NEW t \in Threads, call[t].pc \notin Busies PROVE Idles(call[t])
BY DEF Forms, Form, Retrieves, Removes, Stores, Moves, Copies, Busies

LEMMA EnterKind ==
  ASSUME StoreTypes, NEW t \in Threads, Idles(call[t]), NEW c \in Calls, Begins(c), Enter(t, c),
         UNCHANGED <<config, objects>>
  PROVE  EnterStep(t)
<1>1. /\ call' \in [Threads -> Calls]
      /\ Same(c, call'[t])
      /\ \A v \in Threads \ {t} : Clash(c, call[v]) \subseteq call'[t].clash
      /\ Whole(call'[t])
      /\ \A u \in Threads \ {t} : Same(call[u], call'[u]) /\ call'[u].clash = call[u].clash \cup Clash(call[u], c)
  BY EnterEffect
<1>2. Told BY DEF Enter, Told
<1>3. QED BY <1>1, <1>2 DEF EnterStep

LEMMA BeginKind ==
  ASSUME StoreTypes, Forms, NEW t \in Threads, NEW c \in Calls, Begins(c), Begin(t, c) PROVE EnterStep(t)
<1>1. call[t].pc = "idle" BY DEF Begin, At
<1>2. Idles(call[t]) BY <1>1, IdlesAt DEF Busies
<1>3. QED BY <1>2, EnterKind DEF Begin

\* a step of the manager, seen by the policy
Follows(t) ==
  /\ call'[t].pc # "act"
  /\ call'[t].op \in Execs => call[t].op = call'[t].op /\ call[t].pc # "evaluate"
  /\ \A u \in Threads \ {t} : call'[u].op = call[u].op /\ call'[u].pc = call[u].pc

LEMMA RequestFollows ==
  ASSUME StoreTypes, NEW t \in Threads, RequestStep(t) PROVE Follows(t)
<1>1. CASE OpenStep(t) BY <1>1 DEF OpenStep, Sets, Request, Follows
<1>2. CASE PutStep(t) BY <1>2 DEF PutStep, PutEnds, Sets, Request, Follows
<1>3. CASE GetStep(t) BY <1>3 DEF GetStep, Misses, Gets, Same, Request, Follows
<1>4. CASE UnlinkStep(t) BY <1>4 DEF UnlinkStep, Unlinks, Sets, Request, Follows
<1>5. QED BY <1>1, <1>2, <1>3, <1>4 DEF RequestStep

LEMMA ManagerKind ==
  ASSUME StoreTypes, CountTypes, Forms, NEW t \in Threads, ManagerStep(t)
  PROVE  StoreStep(t) /\ CountTypes' /\ Follows(t)
<1>0. config \in ConfigType BY ManagerAssumption DEF StoreTypes
<1>a. \A b \in Backends, ok \in BOOLEAN : Attempt(b, ok) => faults' \in Nat BY DEF Attempt, CountTypes
<1>1. ASSUME Connect(t) PROVE StoreStep(t) /\ CountTypes' /\ Follows(t)
  <2>1. call[t].pc = "idle" BY <1>1 DEF Connect, At
  <2>2. Idles(call[t]) BY <2>1, IdlesAt DEF Busies
  <2> DEFINE d == [NoCall EXCEPT !.op = "initialize", !.pc = "connected"]
  <2>3. d \in Calls /\ Idles(d)
    <3>1. "initialize" \in Ops /\ "connected" \in Pcs /\ "connected" \notin Busies BY DEF Ops, Pcs, Busies
    <3>2. QED BY <3>1, IdleForm
  <2>4. call' = [call EXCEPT ![t] = d] /\ UNCHANGED <<config, objects, truth, sound>> BY <1>1 DEF Connect
  <2> HIDE DEF d
  <2>5. QuietStep(t) BY <2>2, <2>3, <2>4, IdleKind
  <2>5a. connected' \in [Backends -> BOOLEAN] BY <1>1 DEF Connect
  <2>5b. faults' \in Nat BY <1>1 DEF Connect, CountTypes
  <2>6. CountTypes' BY <1>1, <2>5a, <2>5b DEF Connect, CountTypes
  <2>6a. Follows(t)
    <3>1. d.op \notin Execs /\ d.pc # "act" BY DEF d, NoCall, Execs
    <3>2. QED BY <2>3, <2>4, <3>1, SetCall DEF Sets, Follows
  <2>7. QED BY <2>5, <2>6, <2>6a DEF StoreStep
<1>2. ASSUME SetInitialized(t) PROVE StoreStep(t) /\ CountTypes' /\ Follows(t)
  <2>1. call[t].pc = "connected" BY <1>2 DEF SetInitialized, At
  <2>2. Idles(call[t]) BY <2>1, IdlesAt DEF Busies
  <2>3. QuietStep(t) BY <1>2, <2>2, NoCallForm, IdleKind DEF SetInitialized
  <2>3a. Follows(t) BY <1>2, NoCallForm, SetCall DEF SetInitialized, Sets, Follows, NoCall, Execs
  <2>4. QED BY <1>2, <2>3, <2>3a DEF StoreStep, SetInitialized, CountTypes
<1>3. ASSUME Disconnect(t) PROVE StoreStep(t) /\ CountTypes' /\ Follows(t)
  <2>1. call[t].pc = "idle" BY <1>3 DEF Disconnect, At
  <2>2. Idles(call[t]) BY <2>1, IdlesAt DEF Busies
  <2> DEFINE d == [NoCall EXCEPT !.op = "shutdown", !.pc = "disconnected"]
  <2>3. d \in Calls /\ Idles(d)
    <3>1. "shutdown" \in Ops /\ "disconnected" \in Pcs /\ "disconnected" \notin Busies BY DEF Ops, Pcs, Busies
    <3>2. QED BY <3>1, IdleForm
  <2>4. call' = [call EXCEPT ![t] = d] /\ UNCHANGED <<config, objects, truth, sound>> BY <1>3 DEF Disconnect
  <2> HIDE DEF d
  <2>5. QuietStep(t) BY <2>2, <2>3, <2>4, IdleKind
  <2>6. CountTypes' BY <1>3 DEF Disconnect, CountTypes
  <2>6a. Follows(t)
    <3>1. d.op \notin Execs /\ d.pc # "act" BY DEF d, NoCall, Execs
    <3>2. QED BY <2>3, <2>4, <3>1, SetCall DEF Sets, Follows
  <2>7. QED BY <2>5, <2>6, <2>6a DEF StoreStep
<1>4. ASSUME SetShutDown(t) PROVE StoreStep(t) /\ CountTypes' /\ Follows(t)
  <2>1. call[t].pc = "disconnected" BY <1>4 DEF SetShutDown, At
  <2>2. Idles(call[t]) BY <2>1, IdlesAt DEF Busies
  <2>3. QuietStep(t) BY <1>4, <2>2, NoCallForm, IdleKind DEF SetShutDown
  <2>3a. Follows(t) BY <1>4, NoCallForm, SetCall DEF SetShutDown, Sets, Follows, NoCall, Execs
  <2>4. QED BY <1>4, <2>3, <2>3a DEF StoreStep, SetShutDown, CountTypes
<1>5. ASSUME NEW c \in Calls, Begins(c), Begin(t, c), c.op \notin Execs PROVE StoreStep(t) /\ CountTypes' /\ Follows(t)
  <2>1. EnterStep(t) BY <1>5, BeginKind
  <2>1a. c.pc # "act" BY <1>5 DEF Begins
  <2>2. Follows(t) BY <1>5, <2>1, <2>1a, EnterEffect DEF Begin, Follows, Same
  <2>3. QED BY <1>5, <2>1, <2>2 DEF StoreStep, Begin, CountTypes
<1>6. ASSUME NEW k \in Keys, NEW d \in Inputs, NEW over \in BOOLEAN, Store(t, k, d, over) PROVE StoreStep(t) /\ CountTypes' /\ Follows(t)
  <2>0. PICK c : c = StoreCall(k, d, over) OBVIOUS
  <2>1. Begin(t, c) BY <2>0, <1>6 DEF Store, StoreCall
  <2>2. c \in Calls /\ Stores(c) /\ c.key = k /\ c.at = "primary" /\ c.failed = {} /\ c.op = "store" /\ c.pc = "open" 
    BY <2>0, StoreForm
  <2>3. Begins(c) BY <2>2 DEF Begins
  <2>4. c.op \notin Execs BY <2>0 DEF StoreCall, NoCall, Execs
  <2>5. QED BY <1>5, <2>1, <2>2, <2>3, <2>4
<1>7. ASSUME NEW k \in Keys, Retrieve(t, k) PROVE StoreStep(t) /\ CountTypes' /\ Follows(t)
  <2> DEFINE c == [NoCall EXCEPT !.op = "retrieve", !.pc = "get", !.key = k]
  <2>1. Begin(t, c) BY <1>7 DEF Retrieve
  <2>2. c \in Calls /\ Retrieves(c) /\ c.key = k /\ c.pc = "get" /\ c.failed = {} BY RetrieveForm
  <2> HIDE DEF c
  <2>3. Begins(c) BY <2>2 DEF Begins
  <2>4. c.op \notin Execs BY DEF c, NoCall, Execs
  <2>5. QED BY <1>5, <2>1, <2>2, <2>3, <2>4
<1>8. ASSUME NEW k \in Keys, RemoveObject(t, k) PROVE StoreStep(t) /\ CountTypes' /\ Follows(t)
  <2>0. PICK c : c = RemoveCall("remove", k) OBVIOUS
  <2>1. Begin(t, c) BY <2>0, <1>8 DEF RemoveObject, RemoveCall
  <2>2. c \in Calls /\ Removes(c) /\ c.key = k /\ c.at = "primary" /\ c.pc = "remove" /\ c.failed = {} 
    BY <2>0, RemoveForm
  <2>3. Begins(c) BY <2>2 DEF Begins
  <2>4. c.op \notin Execs BY <2>0 DEF RemoveCall, NoCall, Execs
  <2>5. QED BY <1>5, <2>1, <2>2, <2>3, <2>4
<1>9. ASSUME NEW k \in Keys, NEW tier \in MoveTargets, ChangeTier(t, k, tier) PROVE StoreStep(t) /\ CountTypes' /\ Follows(t)
  <2> DEFINE c == Moving("change_tier", k, tier)
  <2>0. tier \in Tiers BY ManagerAssumption
  <2>1. Begin(t, c) BY <1>9 DEF ChangeTier
  <2>2. c \in Calls /\ Moves(c) /\ c.key = k /\ c.pc = "get" /\ c.failed = {} BY <2>0, MoveForm
  <2> HIDE DEF c
  <2>3. Begins(c) BY <2>2 DEF Begins
  <2>4. c.op \notin Execs BY DEF c, Moving, NoCall, Execs
  <2>5. QED BY <1>5, <2>1, <2>2, <2>3, <2>4
<1>10. ASSUME NEW k \in Keys, NEW from, NEW to, from # to, CopyBetweenBackends(t, k, from, to)
       PROVE  StoreStep(t) /\ CountTypes' /\ Follows(t)
  <2>1. PICK src \in Chosen(from), dst \in Chosen(to) :
          Begin(t, [NoCall EXCEPT !.op = "copy", !.pc = "get", !.key = k, !.at = src, !.dst = dst, !.over = TRUE])
    BY <1>10 DEF CopyBetweenBackends
  <2> DEFINE c == [NoCall EXCEPT !.op = "copy", !.pc = "get", !.key = k, !.at = src, !.dst = dst, !.over = TRUE]
  <2>2. src \in Backends /\ dst \in Backends /\ src # dst BY <1>10 DEF Chosen, Backends
  <2>3. c \in Calls /\ Copies(c) /\ c.key = k /\ c.pc = "get" /\ c.failed = {} BY <2>2, CopyForm
  <2>4. Begin(t, c) BY <2>1
  <2> HIDE DEF c
  <2>5. Begins(c) BY <2>3 DEF Begins
  <2>6. c.op \notin Execs BY <2>3 DEF Copies, Execs
  <2>7. QED BY <1>5, <2>3, <2>4, <2>5, <2>6
<1>11. ASSUME BackendStep(t) PROVE StoreStep(t) /\ CountTypes' /\ Follows(t)
  <2>0. UNCHANGED <<initialized, connected, calls>>
    BY <1>11 DEF BackendStep, PutToCloud, OpenFile, RefuseFile, WriteFile, Get, Unlink
  <2>1. call[t].at \in Backends /\ faults' \in Nat
    <3>1. call[t].pc \in Busies
      BY <1>11 DEF BackendStep, PutToCloud, OpenFile, RefuseFile, WriteFile, Get, Unlink, At, Busies
    <3>2. call[t].at \in Backends BY <3>1, BusyForm
    <3>3. CASE RefuseFile(t) BY <3>2, <3>3 DEF RefuseFile, CountTypes
    <3>4. CASE PutToCloud(t) BY <1>a, <3>2, <3>4 DEF PutToCloud
    <3>5. CASE OpenFile(t) BY <1>a, <3>2, <3>5 DEF OpenFile
    <3>6. CASE WriteFile(t) BY <1>a, <3>2, <3>6 DEF WriteFile
    <3>7. CASE Get(t) BY <1>a, <3>2, <3>7 DEF Get
    <3>8. CASE Unlink(t) BY <1>a, <3>2, <3>8 DEF Unlink
    <3>9. QED BY <1>11, <3>2, <3>3, <3>4, <3>5, <3>6, <3>7, <3>8 DEF BackendStep
  <2>2. RequestStep(t)
    BY <1>11, PutToCloudKind, OpenFileKind, RefuseFileKind, WriteFileKind, GetKind, UnlinkKind DEF BackendStep, RequestStep
  <2>3. Follows(t) BY <2>2, RequestFollows
  <2>4. QED BY <2>0, <2>1, <2>2, <2>3 DEF StoreStep, CountTypes
<1>12. ASSUME Return(t) PROVE StoreStep(t) /\ CountTypes' /\ Follows(t)
  <2>1. Sets(t, NoCall) BY <1>12, NoCallForm, SetCall DEF Return
  <2>2. EndStep(t) BY <1>12, <2>1, NoCallForm DEF EndStep, Return, At
  <2>3. Follows(t) BY <2>1 DEF Sets, Follows, NoCall, Execs
  <2>4. QED BY <1>12, <2>2, <2>3 DEF StoreStep, Return, CountTypes
<1>13. QED
  BY <1>1, <1>2, <1>3, <1>4, <1>6, <1>7, <1>8, <1>9, <1>10, <1>11, <1>12 DEF ManagerStep

(***************************************************************************)
(* The kinds of steps keep the types and the forms.                        *)
(***************************************************************************)
LEMMA OthersForms ==
  ASSUME StoreTypes, Forms, UNCHANGED config, NEW t \in Threads,
         \A u \in Threads \ {t} : Same(call[u], call'[u]), Form(call'[t], config.replicate)
  PROVE  Forms'
<1>1. config.replicate \in BOOLEAN BY ManagerAssumption DEF StoreTypes, ConfigType
<1>2. ASSUME NEW u \in Threads PROVE Form(call'[u], config'.replicate)
  <2>1. CASE u = t BY <2>1
  <2>2. CASE u # t
    <3>1. Form(call[u], config.replicate) /\ Same(call[u], call'[u]) BY <2>2 DEF Forms
    <3>2. Form(call'[u], config.replicate) BY <1>1, <3>1, SameForm
    <3>3. QED BY <3>2
  <2>3. QED BY <2>1, <2>2
<1>3. QED BY <1>2 DEF Forms

LEMMA SetsForms ==
  ASSUME StoreTypes, Forms, UNCHANGED config, NEW t \in Threads, NEW d \in Calls, Sets(t, d), Form(d, config.replicate)
  PROVE  Forms' /\ call' \in [Threads -> Calls]
<1>1. \A u \in Threads \ {t} : Same(call[u], call'[u]) BY DEF Sets, Same
<1>2. QED BY <1>1, OthersForms DEF Sets

LEMMA KindTypes ==
  ASSUME StoreTypes, Forms, NEW t \in Threads, StoreStep(t) PROVE StoreTypes' /\ Forms'
<1> DEFINE c == call[t]
<1> DEFINE R == config.replicate
<1>0. R \in BOOLEAN BY ManagerAssumption DEF StoreTypes, ConfigType
<1>1. CASE QuietStep(t)
  <2>1. PICK d \in Calls : Idles(d) /\ Sets(t, d) /\ Told /\ UNCHANGED objects BY <1>1 DEF QuietStep
  <2>2. Form(d, R) BY <2>1 DEF Form
  <2>3. Forms' /\ call' \in [Threads -> Calls] BY <2>1, <2>2, SetsForms DEF Told
  <2>4. QED BY <2>1, <2>3 DEF StoreTypes, Told
<1>2. CASE EnterStep(t)
  <2>1. PICK d \in Calls : Begins(d) /\ Same(d, call'[t]) /\ \A u \in Threads \ {t} : Same(call[u], call'[u])
    BY <1>2 DEF EnterStep
  <2>2. call' \in [Threads -> Calls] /\ Told /\ UNCHANGED objects BY <1>2 DEF EnterStep
  <2>3. Form(d, R) BY <2>1 DEF Begins, Form, Copies, Stores
  <2>4. Form(call'[t], R) BY <1>0, <2>1, <2>3, SameForm
  <2>5. Forms' BY <2>1, <2>2, <2>4, OthersForms DEF Told
  <2>6. QED BY <2>2, <2>5 DEF StoreTypes, Told
<1>3. CASE OpenStep(t)
  <2>1. c.pc = "open" /\ Told BY <1>3 DEF OpenStep
  <2>2. PICK d \in Calls, x \in Objects :
          /\ Request(c, d) /\ d.data = c.data /\ d.at = c.at /\ d.dst = c.dst /\ d.pc = "write" /\ d.failed = c.failed
          /\ Sets(t, d) /\ Writes(c.at, c.key, x)
    BY <1>3 DEF OpenStep
  <2>3. Form(c, R) /\ ~Idles(c) /\ c.key \in Keys BY <2>1, BusyForm DEF Busies
  <2>4. Form(d, R)
    <3>1. Stores(c) \/ Moves(c) \/ Copies(c) BY <2>1, <2>3 DEF Form, Retrieves, Removes
    <3>2. Stores(d) \/ Moves(d) \/ Copies(d) BY <2>1, <2>2, <3>1 DEF Stores, Moves, Copies, Request
    <3>3. QED BY <2>1, <2>2, <2>3, <3>2 DEF Form, Request
  <2>5. Forms' /\ call' \in [Threads -> Calls] BY <2>1, <2>2, <2>4, SetsForms DEF Told
  <2>6. QED BY <2>1, <2>2, <2>5 DEF StoreTypes, Told, Writes
<1>4. CASE PutStep(t)
  <2>1. c.pc \in {"open", "write"} /\ Told BY <1>4 DEF PutStep
  <2>2. PICK d \in Calls, fine, ok \in BOOLEAN, x \in Objects \cup {None} :
          PutEnds(c, fine, ok, d, R) /\ Sets(t, d) /\ Writes(c.at, c.key, x)
    BY <1>4 DEF PutStep
  <2>3. c \in Calls /\ Form(c, R) /\ c.key \in Keys BY <2>1, BusyForm DEF Busies
  <2> HIDE DEF c, R
  <2>4. Form(d, R) BY <1>0, <2>1, <2>2, <2>3, PutEndsForm
  <2>5. Forms' /\ call' \in [Threads -> Calls] BY <2>1, <2>2, <2>4, SetsForms DEF Told, R
  <2>6. QED BY <2>1, <2>2, <2>5 DEF StoreTypes, Told, Writes
<1>5. CASE GetStep(t)
  <2> DEFINE x == objects[c.at][c.key]
  <2>1. c.pc = "get" /\ Told /\ UNCHANGED objects /\ call' \in [Threads -> Calls] BY <1>5 DEF GetStep
  <2>2. PICK d \in Calls, fine \in BOOLEAN :
          /\ Misses(c, fine, d) \/ (x # None /\ Gets(c, x.data, d))
          /\ Same(d, call'[t]) /\ \A u \in Threads \ {t} : Same(call[u], call'[u])
    BY <1>5 DEF GetStep
  <2>3. c \in Calls /\ Form(c, R) /\ c.key \in Keys /\ c.at \in Backends BY <2>1, BusyForm DEF Busies
  <2>4. x # None => x.data \in Contents BY <2>3 DEF StoreTypes, Objects, Contents
  <2>5. Torn \in Contents BY Constants
  <2> HIDE DEF c, R, x
  <2>6. Form(d, R)
    <3>1. CASE Misses(c, fine, d) BY <1>0, <2>1, <2>3, <2>5, <3>1, GetForm
    <3>2. CASE x # None /\ Gets(c, x.data, d) BY <1>0, <2>1, <2>3, <2>4, <3>2, GetForm
    <3>3. QED BY <2>2, <3>1, <3>2
  <2>7. Form(call'[t], R) BY <1>0, <2>2, <2>6, SameForm
  <2>8. Forms' BY <2>1, <2>2, <2>7, OthersForms DEF Told, R
  <2>9. QED BY <2>1, <2>8 DEF StoreTypes, Told
<1>6. CASE UnlinkStep(t)
  <2>1. c.pc = "remove" /\ Told BY <1>6 DEF UnlinkStep
  <2>2. PICK d \in Calls, fine \in BOOLEAN, x \in Objects \cup {None} :
          Unlinks(c, fine, d) /\ Sets(t, d) /\ Writes(c.at, c.key, x)
    BY <1>6 DEF UnlinkStep
  <2>3. c \in Calls /\ Form(c, R) /\ c.key \in Keys BY <2>1, BusyForm DEF Busies
  <2> HIDE DEF c, R
  <2>4. Form(d, R) BY <1>0, <2>1, <2>2, <2>3, UnlinkForm
  <2>5. Forms' /\ call' \in [Threads -> Calls] BY <2>1, <2>2, <2>4, SetsForms DEF Told, R
  <2>6. QED BY <2>1, <2>2, <2>5 DEF StoreTypes, Told, Writes
<1>7. CASE EndStep(t)
  <2>1. c.pc = "returned" /\ UNCHANGED <<config, objects>> /\ Learn(c) BY <1>7 DEF EndStep
  <2>2. PICK d \in Calls : Idles(d) /\ Sets(t, d) BY <1>7 DEF EndStep
  <2>3. c \in Calls /\ Form(c, R) /\ c.key \in Keys /\ ~Idles(c) BY <2>1, BusyForm DEF Busies
  <2>4. Form(d, R) BY <2>2 DEF Form
  <2>5. Forms' /\ call' \in [Threads -> Calls] BY <2>1, <2>2, <2>4, SetsForms
  <2>6. truth' \in [Keys -> Contents \cup {None}] /\ sound' \in SUBSET (Backends \X Keys)
    <3>1. CASE c.op \notin Mutators BY <2>1, <3>1 DEF Learn, StoreTypes
    <3>2. CASE c.op \in Mutators
      <4>1. truth' = [truth EXCEPT ![c.key] = Lesson(c)] /\
            sound' = {p \in sound : p[2] # c.key} \cup ((Holders(c) \ c.clash) \X {c.key})
        BY <2>1, <3>2 DEF Learn
      <4>2. Lesson(c) \in Contents \cup {None}
        <5>1. truth[c.key] \in Contents \cup {None} BY <2>3 DEF StoreTypes
        <5>2. c.data \in Contents \cup {None} BY <2>3 DEF Calls
        <5>3. QED BY <5>1, <5>2 DEF Lesson
      <4>3. Holders(c) \subseteq Backends
        <5>1. Kept(c) \subseteq Backends /\ Targets \subseteq Backends BY DEF Kept, Targets, Backends
        <5>2. QED BY <5>1 DEF Holders
      <4>4. truth' \in [Keys -> Contents \cup {None}] BY <2>3, <4>1, <4>2 DEF StoreTypes
      <4>5. sound' \in SUBSET (Backends \X Keys) BY <2>3, <4>1, <4>3 DEF StoreTypes
      <4>6. QED BY <4>4, <4>5
    <3>3. QED BY <3>1, <3>2
  <2>7. QED BY <2>1, <2>5, <2>6 DEF StoreTypes
<1>8. QED BY <1>1, <1>2, <1>3, <1>4, <1>5, <1>6, <1>7 DEF StoreStep, RequestStep

LEMMA AgeTypes == ASSUME StoreTypes, Forms, AgeStep \/ StillStep PROVE StoreTypes' /\ Forms'
<1>1. StoreTypes' BY DEF AgeStep, StillStep, Told, StoreTypes
<1>2. UNCHANGED <<call, config>> BY DEF AgeStep, StillStep, Told
<1>3. Forms' BY <1>2 DEF Forms
<1>4. QED BY <1>1, <1>3

(***************************************************************************)
(* Every step of the policy is of one of the kinds, and keeps its types.   *)
(***************************************************************************)
LEMMA GoOnEffect ==
  ASSUME StoreTypes, PolicyTypes, Todos, NEW t \in Threads, NEW todo \in Seq(ActionRecords), GoOn(t, todo),
         todo # <<>> => call[t].op \in Execs
  PROVE  /\ \E d \in Calls : Idles(d) /\ call' = [call EXCEPT ![t] = d]
         /\ work' \in [Threads -> [metas : SUBSET Metadatas, todo : Seq(ActionRecords)]] /\ Todos'
<1> DEFINE d == IF todo = <<>> THEN NoCall ELSE [NoCall EXCEPT !.op = call[t].op, !.pc = "act"]
<1> DEFINE w == [metas |-> {}, todo |-> todo]
<1>1. call[t] \in Calls /\ call[t].op \in Ops BY DEF StoreTypes, Calls
<1>2. "act" \in Pcs /\ "act" \notin Busies BY DEF Pcs, Busies
<1>3. d \in Calls /\ Idles(d) BY <1>1, <1>2, NoCallForm, IdleForm
<1>4. call' = [call EXCEPT ![t] = d] /\ work' = [work EXCEPT ![t] = w] BY DEF GoOn
<1>5. d.pc = "act" \/ d.op \in Execs => todo # <<>> BY DEF NoCall, Execs
<1> HIDE DEF d
<1>6. w \in [metas : SUBSET Metadatas, todo : Seq(ActionRecords)] /\ w.todo = todo OBVIOUS
<1> HIDE DEF w
<1>7. work' \in [Threads -> [metas : SUBSET Metadatas, todo : Seq(ActionRecords)]] BY <1>4, <1>6 DEF PolicyTypes
<1>8. Todos'
  <2>1. ASSUME NEW u \in Threads, call'[u].pc = "act" \/ (call'[u].op \in Execs /\ call'[u].pc # "evaluate")
        PROVE  work'[u].todo # <<>>
    <3>1. CASE u = t BY <1>4, <1>5, <1>6, <2>1, <3>1 DEF StoreTypes, PolicyTypes
    <3>2. CASE u # t BY <1>4, <2>1, <3>2 DEF StoreTypes, PolicyTypes, Todos
    <3>3. QED BY <3>1, <3>2
  <2>2. QED BY <2>1 DEF Todos
<1>9. QED BY <1>3, <1>4, <1>7, <1>8

LEMMA ActHead ==
  ASSUME PolicyTypes, Todos, NEW t \in Threads, call[t].pc = "act" \/ (call[t].op \in Execs /\ call[t].pc # "evaluate")
  PROVE  /\ ActionOf(t) \in ActionRecords /\ Tail(work[t].todo) \in Seq(ActionRecords)
         /\ ActionOf(t).key \in Keys /\ ActionOf(t).target \in Tiers
<1>1. work[t].todo \in Seq(ActionRecords) /\ work[t].todo # <<>> BY DEF PolicyTypes, Todos
<1>2. ActionOf(t) \in ActionRecords /\ Tail(work[t].todo) \in Seq(ActionRecords) BY <1>1 DEF ActionOf
<1>3. QED BY <1>2 DEF ActionRecords

LEMMA BeginWorkKind ==
  ASSUME BaseInv, NEW t \in Threads, NEW op \in {"evaluate", "execute"}, NEW metas \in SUBSET Metadatas,
         BeginWork(t, op, metas)
  PROVE  QuietStep(t) /\ PolicyTypes' /\ Todos' /\ UNCHANGED <<initialized, connected>> /\ calls' \in Nat
<1> DEFINE d == [NoCall EXCEPT !.op = op, !.pc = "evaluate"]
<1>1. op \in Ops /\ "evaluate" \in Pcs /\ "evaluate" \notin Busies BY DEF Ops, Mutators, Pcs, Busies
<1>2. d \in Calls /\ Idles(d) BY <1>1, IdleForm
<1>3. call[t].pc = "idle" /\ Idles(call[t]) BY IdlesAt DEF BaseInv, BeginWork, At, Busies
<1>4. call' = [call EXCEPT ![t] = d] /\ work' = [work EXCEPT ![t].metas = metas] BY DEF BeginWork
<1>4a. d.pc = "evaluate" BY DEF NoCall
<1>5. UNCHANGED <<config, objects, truth, sound>> BY DEF BeginWork
<1> HIDE DEF d
<1>6. QuietStep(t) BY <1>2, <1>3, <1>4, <1>5, IdleKind DEF BaseInv, TypeOK
<1>7. work' \in [Threads -> [metas : SUBSET Metadatas, todo : Seq(ActionRecords)]] /\ \A u \in Threads : work'[u].todo = work[u].todo
  BY <1>4 DEF BaseInv, TypeOK, PolicyTypes
<1>8. Todos' BY <1>4, <1>4a, <1>7 DEF BaseInv, TypeOK, StoreTypes, Todos
<1>9. PolicyTypes' BY <1>7 DEF BeginWork, BaseInv, TypeOK, PolicyTypes
<1>10. calls' \in Nat BY DEF BeginWork, BaseInv, TypeOK, CountTypes
<1>11. QED BY <1>6, <1>8, <1>9, <1>10 DEF BeginWork

LEMMA CardNat ==
  ASSUME NEW S \in SUBSET Backends PROVE Cardinality(S) \in Nat
<1>1. IsFiniteSet(Backends)
  <2>1. IsFiniteSet({}) /\ IsFiniteSet({} \cup {"primary"}) /\ IsFiniteSet(({} \cup {"primary"}) \cup {"secondary"})
    BY FS_EmptySet, FS_AddElement
  <2>2. ({} \cup {"primary"}) \cup {"secondary"} = Backends BY DEF Backends
  <2>3. QED BY <2>1, <2>2
<1>2. QED BY <1>1, FS_Subset, FS_CardinalityType

LEMMA EvaluateKind ==
  ASSUME BaseInv, NEW t \in Threads, NEW k \in Keys, NEW op \in {"evaluate", "execute"}, Evaluate(t, k, op)
  PROVE  QuietStep(t) /\ PolicyTypes' /\ Todos' /\ CountTypes'
<1>1. PICK b \in Backends : GetMetadata(k, b) /\ BeginWork(t, op, {Metadata(b, k)}) BY DEF Evaluate
<1>2. Has(b, k)
  <2>1. b \in Knowing(k) \cup {None} BY <1>1 DEF GetMetadata
  <2>2. CASE b \in Knowing(k) BY <2>2 DEF Knowing
  <2>3. QED BY <2>1, <2>2, Constants
<1>3. {Metadata(b, k)} \in SUBSET Metadatas BY <1>2, MetadataType DEF BaseInv, TypeOK
<1>4. faults' \in Nat
  <2> DEFINE skipped == IF b = "secondary" THEN Knowing(k) \ {b} ELSE IF b = None THEN Knowing(k) ELSE {}
  <2>1. skipped \in SUBSET Backends BY DEF Knowing
  <2>2. faults' = faults + Cardinality(skipped) BY <1>1 DEF GetMetadata
  <2> HIDE DEF skipped
  <2>3. QED BY <2>1, <2>2, CardNat DEF BaseInv, TypeOK, CountTypes
<1>5. QED BY <1>1, <1>3, <1>4, BeginWorkKind DEF BaseInv, TypeOK, CountTypes

LEMMA EvaluateAllKind ==
  ASSUME BaseInv, NEW t \in Threads, NEW prefix \in SUBSET Keys, EvaluateAll(t, prefix)
  PROVE  QuietStep(t) /\ PolicyTypes' /\ Todos' /\ CountTypes'
<1>1. PICK lost \in SUBSET Backends :
        faults' = faults + Cardinality(lost) /\ BeginWork(t, "evaluate", Listing(lost, prefix))
  BY DEF EvaluateAll
<1>2. Listing(lost, prefix) \in SUBSET Metadatas BY ListingType DEF BaseInv, TypeOK
<1>3. faults' \in Nat BY <1>1, CardNat DEF BaseInv, TypeOK, CountTypes
<1>4. QED BY <1>1, <1>2, <1>3, BeginWorkKind DEF BaseInv, TypeOK, CountTypes

LEMMA EvaluateObjectKind ==
  ASSUME BaseInv, NEW t \in Threads, NEW m \in work[t].metas, EvaluateObject(t, m)
  PROVE  (QuietStep(t) \/ StillStep) /\ PolicyTypes' /\ Todos' /\ CountTypes'
<1> DEFINE a == Recommended(m)
<1>0. StoreTypes /\ CountTypes /\ PolicyTypes /\ Forms /\ Todos BY DEF BaseInv, TypeOK
<1>1. m \in Metadatas /\ m.key \in Keys BY <1>0 DEF PolicyTypes, Metadatas
<1>2. a \in ActionRecords BY <1>0, <1>1, RecommendedType
<1>3. a.target \in Tiers BY <1>2 DEF ActionRecords
<1>4. call[t].pc = "evaluate" /\ Idles(call[t]) BY <1>0, IdlesAt DEF EvaluateObject, At, Busies
<1>5. UNCHANGED <<config, objects, initialized, connected, calls, faults, truth, sound, rules, retention>>
  BY DEF EvaluateObject
<1>6. /\ IF IsDue(a, m)
         THEN /\ pending' = Append(pending, a)
              /\ due' = [due EXCEPT ![m.key] =
                   IF a.action # "delete_obj" /\ (Executing(t) => Alone(t)) THEN a.target ELSE None]
              /\ vetted' = IF a.action = "delete_obj" /\ Has("primary", m.key)
                              /\ objects["primary"][m.key].age = m.age
                              /\ ~Busy(t, m.key)
                           THEN vetted \cup {m.key} ELSE vetted
         ELSE UNCHANGED <<pending, due, vetted>>
      /\ IF call[t].op = "execute"
         THEN GoOn(t, IF IsDue(a, m) THEN <<a>> ELSE <<>>)
         ELSE IF work[t].metas = {m} THEN GoOn(t, <<>>)
         ELSE work' = [work EXCEPT ![t].metas = @ \ {m}] /\ UNCHANGED call
  BY DEF EvaluateObject
<1> HIDE DEF a
<1>7. pending' \in Seq(ActionRecords)
  <2>0. pending \in Seq(ActionRecords) BY <1>0 DEF PolicyTypes
  <2>1. CASE IsDue(a, m)
    <3>1. pending' = Append(pending, a) BY <1>6, <2>1
    <3>2. QED BY <1>2, <2>0, <3>1
  <2>2. CASE ~IsDue(a, m) BY <1>0, <1>6, <2>2 DEF PolicyTypes
  <2>3. QED BY <2>1, <2>2
<1>8. due' \in [Keys -> Tiers \cup {None}]
  <2>1. CASE IsDue(a, m) BY <1>0, <1>3, <1>6, <2>1 DEF PolicyTypes
  <2>2. CASE ~IsDue(a, m) BY <1>0, <1>6, <2>2 DEF PolicyTypes
  <2>3. QED BY <2>1, <2>2
<1>9. vetted' \in SUBSET Keys BY <1>0, <1>1, <1>6 DEF PolicyTypes
<1>10. CASE \E todo \in Seq(ActionRecords) : GoOn(t, todo) /\ (todo # <<>> => call[t].op \in Execs)
  <2>1. PICK todo \in Seq(ActionRecords) : GoOn(t, todo) /\ (todo # <<>> => call[t].op \in Execs) BY <1>10
  <2>2. /\ \E d \in Calls : Idles(d) /\ call' = [call EXCEPT ![t] = d]
        /\ work' \in [Threads -> [metas : SUBSET Metadatas, todo : Seq(ActionRecords)]] /\ Todos'
    BY <1>0, <2>1, GoOnEffect
  <2>3. QuietStep(t) BY <1>0, <1>4, <1>5, <2>2, IdleKind
  <2>4. QED BY <1>0, <1>5, <1>7, <1>8, <1>9, <2>2, <2>3 DEF PolicyTypes, CountTypes
<1>11. CASE work' = [work EXCEPT ![t].metas = @ \ {m}] /\ UNCHANGED call
  <2>1. work' \in [Threads -> [metas : SUBSET Metadatas, todo : Seq(ActionRecords)]] /\ \A u \in Threads : work'[u].todo = work[u].todo
    BY <1>0, <1>11 DEF PolicyTypes
  <2>2. Todos' BY <1>0, <1>11, <2>1 DEF Todos
  <2>3. StillStep BY <1>5, <1>11 DEF StillStep, Told
  <2>4. QED BY <1>0, <1>5, <1>7, <1>8, <1>9, <2>1, <2>2, <2>3 DEF PolicyTypes, CountTypes
<1>12. <<a>> \in Seq(ActionRecords) /\ <<>> \in Seq(ActionRecords) BY <1>2
<1>13. QED
  <2>1. CASE call[t].op = "execute" /\ IsDue(a, m) BY <1>6, <1>10, <1>12, <2>1 DEF Execs
  <2>2. CASE call[t].op = "execute" /\ ~IsDue(a, m) BY <1>6, <1>10, <1>12, <2>2
  <2>3. CASE call[t].op # "execute" BY <1>6, <1>10, <1>11, <1>12, <2>3
  <2>4. QED BY <2>1, <2>2, <2>3

LEMMA ExecutePendingKind ==
  ASSUME BaseInv, NEW t \in Threads, ExecutePending(t)
  PROVE  QuietStep(t) /\ PolicyTypes' /\ Todos' /\ CountTypes'
<1> DEFINE d == [NoCall EXCEPT !.op = "execute_pending", !.pc = "act"]
<1>0. StoreTypes /\ CountTypes /\ PolicyTypes /\ Forms /\ Todos BY DEF BaseInv, TypeOK
<1>1. "execute_pending" \in Ops /\ "execute_pending" \in Execs /\ "act" \in Pcs /\ "act" \notin Busies BY DEF Ops, Mutators, Pcs, Busies, Execs
<1>2. d \in Calls /\ Idles(d) BY <1>1, IdleForm
<1>3. call[t].pc = "idle" /\ Idles(call[t]) BY <1>0, IdlesAt DEF ExecutePending, TakePending, At, Busies
<1>4. /\ call' = [call EXCEPT ![t] = d] /\ work' = [work EXCEPT ![t].todo = pending] /\ pending # <<>> /\ pending' = <<>>
      /\ UNCHANGED <<config, objects, initialized, connected, faults, truth, sound, rules, retention, vetted>>
  BY DEF ExecutePending, TakePending
<1>4a. calls' \in Nat /\ due' \in [Keys -> Tiers \cup {None}]
  BY <1>0 DEF ExecutePending, TakePending, CountTypes, PolicyTypes
<1> HIDE DEF d
<1>5. QuietStep(t) BY <1>0, <1>2, <1>3, <1>4, IdleKind
<1>6. /\ work' \in [Threads -> [metas : SUBSET Metadatas, todo : Seq(ActionRecords)]]
      /\ work'[t].todo = pending /\ \A u \in Threads \ {t} : work'[u].todo = work[u].todo
  BY <1>0, <1>4 DEF PolicyTypes
<1>7. Todos' BY <1>0, <1>4, <1>6 DEF StoreTypes, Todos
<1>8. pending' \in Seq(ActionRecords)
  <2>1. pending' = <<>> BY <1>4
  <2>2. QED BY <2>1
<1>9. PolicyTypes' BY <1>0, <1>4, <1>4a, <1>6, <1>8 DEF PolicyTypes
<1>10. CountTypes' BY <1>0, <1>4, <1>4a DEF CountTypes
<1>11. QED BY <1>5, <1>7, <1>9, <1>10

LEMMA ActionFailsKind ==
  ASSUME BaseInv, NEW t \in Threads, ActionFails(t)
  PROVE  QuietStep(t) /\ PolicyTypes' /\ Todos' /\ CountTypes'
<1>0. StoreTypes /\ CountTypes /\ PolicyTypes /\ Forms /\ Todos BY DEF BaseInv, TypeOK
<1>1. call[t].pc = "act" /\ Idles(call[t]) BY <1>0, IdlesAt DEF ActionFails, At, Busies
<1> DEFINE k == ActionOf(t).key
<1> DEFINE todo == Tail(work[t].todo)
<1>2. k \in Keys /\ todo \in Seq(ActionRecords) BY <1>0, <1>1, ActHead
<1>3. GoOn(t, todo) /\ call[t].op \in Execs BY <1>1 DEF ActionFails, Idles
<1>4. /\ due' = [due EXCEPT ![k] = None]
      /\ UNCHANGED <<config, objects, initialized, connected, calls, truth, sound, rules, retention, pending, vetted>>
  BY DEF ActionFails
<1>5. faults' \in Nat
  <2>1. Knowing(k) \in SUBSET Backends BY DEF Knowing
  <2>2. faults' = faults \/ faults' = faults + Cardinality(Knowing(k)) BY DEF ActionFails
  <2>3. Cardinality(Knowing(k)) \in Nat BY <2>1, CardNat
  <2>4. QED BY <1>0, <2>2, <2>3 DEF CountTypes
<1> HIDE DEF k, todo
<1>6. /\ \E d \in Calls : Idles(d) /\ call' = [call EXCEPT ![t] = d]
      /\ work' \in [Threads -> [metas : SUBSET Metadatas, todo : Seq(ActionRecords)]] /\ Todos'
  BY <1>0, <1>2, <1>3, GoOnEffect
<1>7. QuietStep(t) BY <1>0, <1>1, <1>4, <1>6, IdleKind
<1>8. PolicyTypes' BY <1>0, <1>2, <1>4, <1>6 DEF PolicyTypes
<1>9. CountTypes' BY <1>0, <1>4, <1>5 DEF CountTypes
<1>10. QED BY <1>6, <1>7, <1>8, <1>9

LEMMA DryRunKind ==
  ASSUME BaseInv, NEW t \in Threads, DryRun(t)
  PROVE  QuietStep(t) /\ PolicyTypes' /\ Todos' /\ CountTypes'
<1>0. StoreTypes /\ CountTypes /\ PolicyTypes /\ Forms /\ Todos BY DEF BaseInv, TypeOK
<1>1. call[t].pc = "act" /\ Idles(call[t]) BY <1>0, IdlesAt DEF DryRun, Found, At, Busies
<1> DEFINE todo == Tail(work[t].todo)
<1>2. todo \in Seq(ActionRecords) BY <1>0, <1>1, ActHead
<1>3. GoOn(t, todo) /\ call[t].op \in Execs BY <1>1 DEF DryRun, Idles
<1>4. UNCHANGED <<config, objects, initialized, connected, calls, faults, truth, sound, rules, retention, pending, due, vetted>>
  BY DEF DryRun
<1> HIDE DEF todo
<1>6. /\ \E d \in Calls : Idles(d) /\ call' = [call EXCEPT ![t] = d]
      /\ work' \in [Threads -> [metas : SUBSET Metadatas, todo : Seq(ActionRecords)]] /\ Todos'
  BY <1>0, <1>2, <1>3, GoOnEffect
<1>7. QuietStep(t) BY <1>0, <1>1, <1>4, <1>6, IdleKind
<1>8. PolicyTypes' BY <1>0, <1>4, <1>6 DEF PolicyTypes
<1>9. CountTypes' BY <1>0, <1>4 DEF CountTypes
<1>10. QED BY <1>6, <1>7, <1>8, <1>9

LEMMA CarryOutKind ==
  ASSUME BaseInv, NEW t \in Threads, CarryOut(t)
  PROVE  EnterStep(t) /\ PolicyTypes' /\ Todos' /\ CountTypes'
<1> DEFINE a == ActionOf(t)
<1>0. StoreTypes /\ CountTypes /\ PolicyTypes /\ Forms /\ Todos BY DEF BaseInv, TypeOK
<1>1. call[t].pc = "act" /\ Idles(call[t]) BY <1>0, IdlesAt DEF CarryOut, Found, At, Busies
<1>2. a.key \in Keys /\ a.target \in Tiers BY <1>0, <1>1, ActHead
<1>3. /\ \/ Enter(t, RemoveCall(call[t].op, a.key)) /\ UNCHANGED vetted
         \/ Enter(t, Moving(call[t].op, a.key, a.target)) /\ vetted' = vetted \ {a.key}
      /\ due' = IF Busy(t, a.key) THEN [due EXCEPT ![a.key] = None] ELSE due
      /\ UNCHANGED <<config, objects, initialized, connected, calls, faults, rules, retention, pending, work>>
  BY DEF CarryOut, RemoveCall
<1>4. call[t].op \in Execs BY <1>1 DEF Idles
<1> HIDE DEF a
<1>5. PICK c \in Calls : Begins(c) /\ Enter(t, c) /\ c.op = call[t].op /\ c.pc # "act"
  <2>1. CASE Enter(t, RemoveCall(call[t].op, a.key))
    <3>1. PICK c : c = RemoveCall(call[t].op, a.key) OBVIOUS
    <3>2. c \in Calls /\ Removes(c) /\ c.key = a.key /\ c.at = "primary" /\ c.pc = "remove" /\ c.failed = {} /\ c.op = call[t].op
      BY <1>2, <1>4, <3>1, RemoveForm DEF Execs
    <3>3. QED BY <1>2, <2>1, <3>1, <3>2 DEF Begins
  <2>2. CASE Enter(t, Moving(call[t].op, a.key, a.target))
    <3>1. PICK c : c = Moving(call[t].op, a.key, a.target) OBVIOUS
    <3>2. c \in Calls /\ Moves(c) /\ c.key = a.key /\ c.pc = "get" /\ c.failed = {} /\ c.op = call[t].op
      BY <1>2, <1>4, <3>1, MoveForm DEF Execs
    <3>3. QED BY <1>2, <2>2, <3>1, <3>2 DEF Begins
  <2>3. QED BY <1>3, <2>1, <2>2
<1>6. EnterStep(t) BY <1>0, <1>1, <1>3, <1>5, EnterKind
<1>7. PolicyTypes' BY <1>0, <1>2, <1>3 DEF PolicyTypes
<1>8. Todos'
  <2>1. Same(c, call'[t]) /\ \A u \in Threads \ {t} : Same(call[u], call'[u]) BY <1>0, <1>5, EnterEffect
  <2>2. UNCHANGED work BY <1>3
  <2>3. work[t].todo # <<>> BY <1>0, <1>1 DEF Todos
  <2>4. ASSUME NEW u \in Threads, call'[u].pc = "act" \/ (call'[u].op \in Execs /\ call'[u].pc # "evaluate")
        PROVE  work'[u].todo # <<>>
    <3>1. CASE u = t BY <2>2, <2>3, <3>1
    <3>2. CASE u # t BY <1>0, <2>1, <2>2, <2>4, <3>2 DEF Same, Todos
    <3>3. QED BY <3>1, <3>2
  <2>5. QED BY <2>4 DEF Todos
<1>9. CountTypes' BY <1>0, <1>3 DEF CountTypes
<1>10. QED BY <1>6, <1>7, <1>8, <1>9

LEMMA ActionReturnsKind ==
  ASSUME BaseInv, NEW t \in Threads, ActionReturns(t)
  PROVE  EndStep(t) /\ PolicyTypes' /\ Todos' /\ CountTypes'
<1>0. StoreTypes /\ CountTypes /\ PolicyTypes /\ Forms /\ Todos BY DEF BaseInv, TypeOK
<1> DEFINE c == call[t]
<1>1. c.pc = "returned" /\ c.op \in Execs BY DEF ActionReturns, At, Executing, Execs
<1>1a. c.key \in Keys BY <1>0, <1>1, BusyForm DEF Busies
<1> DEFINE todo == Tail(work[t].todo)
<1>2. todo \in Seq(ActionRecords) BY <1>0, <1>1, ActHead
<1>3. GoOn(t, todo) /\ Learn(c) BY DEF ActionReturns
<1>4. /\ UNCHANGED <<config, objects, initialized, connected, calls, faults, rules, retention, pending, vetted>>
      /\ due' = IF c.ok THEN due ELSE [due EXCEPT ![c.key] = None]
  BY DEF ActionReturns
<1> HIDE DEF todo
<1>6. /\ \E d \in Calls : Idles(d) /\ call' = [call EXCEPT ![t] = d]
      /\ work' \in [Threads -> [metas : SUBSET Metadatas, todo : Seq(ActionRecords)]] /\ Todos'
  BY <1>0, <1>1, <1>2, <1>3, GoOnEffect
<1>6a. PICK d \in Calls : Idles(d) /\ Sets(t, d) BY <1>0, <1>6, SetCall
<1>7. EndStep(t) BY <1>1, <1>3, <1>4, <1>6a DEF EndStep
<1>8. PolicyTypes' BY <1>0, <1>1a, <1>4, <1>6 DEF PolicyTypes
<1>9. CountTypes' BY <1>0, <1>4 DEF CountTypes
<1>10. QED BY <1>6, <1>7, <1>8, <1>9

LEMMA ManagerCallKind ==
  ASSUME BaseInv, NEW t \in Threads, ManagerCall(t)
  PROVE  StoreStep(t) /\ PolicyTypes' /\ Todos' /\ CountTypes'
<1>0. StoreTypes /\ CountTypes /\ PolicyTypes /\ Forms /\ Todos BY DEF BaseInv, TypeOK
<1>1. StoreStep(t) /\ CountTypes' /\ Follows(t) BY <1>0, ManagerKind DEF ManagerCall
<1>2. UNCHANGED <<rules, retention, pending, work>> BY DEF ManagerCall
<1>3. \E k : (due' = [due EXCEPT ![k] = None] /\ vetted' = vetted \ {k}) \/ UNCHANGED <<due, vetted>> BY DEF ManagerCall
<1>4. PolicyTypes' BY <1>0, <1>2, <1>3 DEF PolicyTypes
<1>5. Todos'
  <2>1. ASSUME NEW u \in Threads, call'[u].pc = "act" \/ (call'[u].op \in Execs /\ call'[u].pc # "evaluate")
        PROVE  work'[u].todo # <<>>
    <3>1. CASE u = t BY <1>0, <1>1, <1>2, <2>1, <3>1 DEF Follows, Todos
    <3>2. CASE u # t BY <1>0, <1>1, <1>2, <2>1, <3>2 DEF Follows, Todos
    <3>3. QED BY <3>1, <3>2
  <2>2. QED BY <2>1 DEF Todos
<1>6. QED BY <1>1, <1>4, <1>5

LEMMA TimePassesKind ==
  ASSUME BaseInv, TimePasses PROVE AgeStep /\ PolicyTypes' /\ Todos' /\ CountTypes'
<1>0. StoreTypes /\ CountTypes /\ PolicyTypes /\ Forms /\ Todos BY DEF BaseInv, TypeOK
<1>1. objects' = [b \in Backends |-> [k \in Keys |-> IF Has(b, k) THEN Older(objects[b][k]) ELSE None]]
  BY DEF TimePasses
<1>2. ASSUME NEW x \in Objects PROVE Older(x) \in Objects /\ Older(x).data = x.data
  BY ManagerAssumption DEF Older, Objects
<1>3. ASSUME NEW b \in Backends, NEW k \in Keys
      PROVE  /\ objects'[b][k] \in Objects \cup {None}
             /\ objects[b][k] = None <=> objects'[b][k] = None
             /\ objects[b][k] # None => objects'[b][k].data = objects[b][k].data
  <2>1. objects'[b][k] = IF Has(b, k) THEN Older(objects[b][k]) ELSE None BY <1>1
  <2>2. CASE Has(b, k)
    <3>1. objects[b][k] \in Objects BY <1>0, <2>2 DEF StoreTypes, Has
    <3>2. QED BY <1>2, <2>1, <2>2, <3>1, Constants DEF Has
  <2>3. CASE ~Has(b, k) BY <2>1, <2>3 DEF Has
  <2>4. QED BY <2>2, <2>3
<1>4. objects' \in [Backends -> [Keys -> Objects \cup {None}]] BY <1>1, <1>3
<1>5. AgeStep BY <1>3, <1>4 DEF TimePasses, AgeStep, Told, At
<1>6. PolicyTypes' /\ CountTypes' BY <1>0 DEF TimePasses, PolicyTypes, CountTypes
<1>7. Todos' BY <1>0 DEF TimePasses, Todos
<1>8. QED BY <1>5, <1>6, <1>7

LEMMA ChangesKind ==
  ASSUME BaseInv, ChangeRules \/ SetRetention PROVE StillStep /\ PolicyTypes' /\ Todos' /\ CountTypes'
<1>0. StoreTypes /\ CountTypes /\ PolicyTypes /\ Forms /\ Todos BY DEF BaseInv, TypeOK
<1>1. StillStep BY DEF ChangeRules, SetRetention, StillStep, Told
<1>2. rules' \in SUBSET Rules /\ retention' \in RetentionType /\ vetted' \in SUBSET Keys
  BY <1>0, PolicyAssumption DEF PolicyTypes, ChangeRules, SetRetention
<1>3. PolicyTypes' BY <1>0, <1>2 DEF PolicyTypes, ChangeRules, SetRetention
<1>4. CountTypes' BY <1>0 DEF CountTypes, ChangeRules, SetRetention
<1>5. Todos' BY <1>0 DEF Todos, ChangeRules, SetRetention
<1>6. QED BY <1>1, <1>3, <1>4, <1>5

\* what every step is and keeps
LEMMA NextKind ==
  ASSUME BaseInv, [Next]_vars
  PROVE  BaseInv' /\ ((\E t \in Threads : StoreStep(t)) \/ AgeStep \/ StillStep)
<1>0. StoreTypes /\ CountTypes /\ PolicyTypes /\ Forms /\ Todos BY DEF BaseInv, TypeOK
<1>1. ((\E t \in Threads : StoreStep(t)) \/ AgeStep \/ StillStep) /\ PolicyTypes' /\ Todos' /\ CountTypes'
  <2>1. ASSUME NEW t \in Threads, ManagerCall(t) PROVE StoreStep(t) /\ PolicyTypes' /\ Todos' /\ CountTypes'
    BY <2>1, ManagerCallKind
  <2>2. ASSUME NEW t \in Threads, PolicyStep(t) PROVE (StoreStep(t) \/ StillStep) /\ PolicyTypes' /\ Todos' /\ CountTypes'
    <3> DEFINE P == PolicyTypes' /\ Todos' /\ CountTypes'
    <3>1. ASSUME NEW k \in Keys, NEW op \in {"evaluate", "execute"}, Evaluate(t, k, op) PROVE QuietStep(t) /\ P
      BY <3>1, EvaluateKind
    <3>2. ASSUME NEW prefix \in SUBSET Keys, EvaluateAll(t, prefix) PROVE QuietStep(t) /\ P BY <3>2, EvaluateAllKind
    <3>3. ASSUME NEW m \in work[t].metas, EvaluateObject(t, m) PROVE (QuietStep(t) \/ StillStep) /\ P
      BY <3>3, EvaluateObjectKind
    <3>4. ASSUME ExecutePending(t) PROVE QuietStep(t) /\ P BY <3>4, ExecutePendingKind
    <3>5. ASSUME ActionFails(t) PROVE QuietStep(t) /\ P BY <3>5, ActionFailsKind
    <3>6. ASSUME DryRun(t) PROVE QuietStep(t) /\ P BY <3>6, DryRunKind
    <3>7. ASSUME CarryOut(t) PROVE EnterStep(t) /\ P BY <3>7, CarryOutKind
    <3>8. ASSUME ActionReturns(t) PROVE EndStep(t) /\ P BY <3>8, ActionReturnsKind
    <3> HIDE DEF P
    <3>9. (QuietStep(t) \/ EnterStep(t) \/ EndStep(t) \/ StillStep) /\ P
      BY <2>2, <3>1, <3>2, <3>3, <3>4, <3>5, <3>6, <3>7, <3>8 DEF PolicyStep
    <3>10. QED BY <3>9 DEF StoreStep, P
  <2>3. CASE UNCHANGED vars
    <3>1. StillStep BY <2>3 DEF vars, managerVars, StillStep, Told
    <3>2. PolicyTypes' /\ CountTypes' BY <1>0, <2>3 DEF vars, managerVars, policyVars, PolicyTypes, CountTypes
    <3>3. Todos' BY <1>0, <2>3 DEF vars, managerVars, policyVars, Todos
    <3>4. QED BY <3>1, <3>2, <3>3
  <2>4. QED BY <2>1, <2>2, <2>3, TimePassesKind, ChangesKind DEF Next
<1>2. StoreTypes' /\ Forms' BY <1>0, <1>1, KindTypes, AgeTypes
<1>3. QED BY <1>1, <1>2 DEF BaseInv, TypeOK

(***************************************************************************)
(* Clashes, and what remains of them.                                      *)
(***************************************************************************)
\* v is in the call it was in, or in none
Goes(v) ==
  \/ Idles(call'[v])
  \/ /\ call'[v].op = call[v].op /\ call'[v].key = call[v].key /\ call'[v].class = call[v].class
     /\ call[v].clash \subseteq call'[v].clash

LEMMA SetsGo ==
  ASSUME NEW t \in Threads, NEW d, Sets(t, d), Idles(d) \/ (Request(call[t], d) /\ d.clash = call[t].clash)
  PROVE  \A v \in Threads : Goes(v)
BY DEF Sets, Goes, Request

LEMMA RequestGoes ==
  ASSUME StoreTypes, Forms, NEW t \in Threads, RequestStep(t)
  PROVE  \A v \in Threads : Goes(v)
<1>1. CASE OpenStep(t)
  <2>1. PICK d \in Calls : Request(call[t], d) /\ Sets(t, d) BY <1>1 DEF OpenStep
  <2>2. QED BY <2>1, SetsGo DEF Request
<1>2. CASE PutStep(t)
  <2>1. PICK d \in Calls : Request(call[t], d) /\ Sets(t, d) BY <1>2 DEF PutStep, PutEnds
  <2>2. QED BY <2>1, SetsGo DEF Request
<1>3. CASE GetStep(t) BY <1>3 DEF GetStep, Goes, Same, Misses, Gets, Request
<1>4. CASE UnlinkStep(t)
  <2>1. PICK d \in Calls : Request(call[t], d) /\ Sets(t, d) BY <1>4 DEF UnlinkStep, Unlinks
  <2>2. QED BY <2>1, SetsGo DEF Request
<1>5. QED BY <1>1, <1>2, <1>3, <1>4 DEF RequestStep

LEMMA ClashesGo ==
  ASSUME StoreTypes, Clashes, UNCHANGED config, \A v \in Threads : Goes(v) PROVE Clashes'
<1> SUFFICES ASSUME NEW t \in Threads, NEW u \in Threads, t # u, call'[u].key = call'[t].key, call'[t].key \in Keys,
                    call'[u].op \in Mutators
             PROVE  /\ \A b \in Backends : Local(b)' => b \in call'[t].clash
                    /\ call'[u].class = None \/ (call'[t].op \in Mutators /\ call'[t].class = None)
                         => Backends \subseteq call'[t].clash
  BY DEF Clashes
<1>1. ~Idles(call'[t]) /\ ~Idles(call'[u]) BY Constants DEF Idles
<1>2. /\ call'[t].op = call[t].op /\ call'[t].key = call[t].key /\ call'[t].class = call[t].class
      /\ call[t].clash \subseteq call'[t].clash
      /\ call'[u].op = call[u].op /\ call'[u].key = call[u].key /\ call'[u].class = call[u].class
  BY <1>1 DEF Goes
<1>3. \A b \in Backends : Local(b)' <=> Local(b) BY DEF Local
<1>4. QED BY <1>2, <1>3 DEF Clashes

LEMMA ClashesEnter ==
  ASSUME StoreTypes, Clashes, NEW t \in Threads, EnterStep(t) PROVE Clashes'
<1>1. PICK c \in Calls :
        /\ Begins(c) /\ Same(c, call'[t])
        /\ \A u \in Threads \ {t} :
            /\ Clash(c, call[u]) \subseteq call'[t].clash
            /\ Same(call[u], call'[u]) /\ call'[u].clash = call[u].clash \cup Clash(call[u], c)
  BY DEF EnterStep
<1>2. UNCHANGED config BY DEF EnterStep, Told
<1>3. \A b \in Backends : Local(b)' <=> Local(b) BY <1>2 DEF Local
<1>4. ASSUME NEW a, NEW b, a.key = b.key, a.key \in Keys, b.op \in Mutators
      PROVE  /\ \A x \in Backends : Local(x) => x \in Clash(a, b)
             /\ b.class = None \/ (a.op \in Mutators /\ a.class = None) => Backends \subseteq Clash(a, b)
  BY <1>4, Constants DEF Clash, Move
<1>5. ASSUME NEW x \in Threads, NEW u \in Threads, x # u, call'[u].key = call'[x].key, call'[x].key \in Keys,
             call'[u].op \in Mutators
      PROVE  /\ \A b \in Backends : Local(b)' => b \in call'[x].clash
             /\ call'[u].class = None \/ (call'[x].op \in Mutators /\ call'[x].class = None)
                  => Backends \subseteq call'[x].clash
  <2>1. CASE x = t
    <3>1. Same(call[u], call'[u]) /\ Clash(c, call[u]) \subseteq call'[x].clash BY <1>1, <1>5, <2>1
    <3>2. c.key = call[u].key /\ c.key \in Keys /\ call[u].op \in Mutators /\ call[u].class = call'[u].class
          /\ c.op = call'[x].op /\ c.class = call'[x].class
      BY <1>1, <1>5, <2>1, <3>1 DEF Same
    <3>3. QED BY <1>3, <1>4, <3>1, <3>2
  <2>2. CASE u = t
    <3>1. Same(call[x], call'[x]) /\ Clash(call[x], c) \subseteq call'[x].clash BY <1>1, <1>5, <2>2
    <3>2. call[x].key = c.key /\ call[x].key \in Keys /\ c.op \in Mutators /\ c.class = call'[u].class
          /\ call[x].op = call'[x].op /\ call[x].class = call'[x].class
      BY <1>1, <1>5, <2>2, <3>1 DEF Same
    <3>3. QED BY <1>3, <1>4, <3>1, <3>2
  <2>3. CASE x # t /\ u # t
    <3>1. Same(call[x], call'[x]) /\ Same(call[u], call'[u]) /\ call[x].clash \subseteq call'[x].clash BY <1>1, <2>3
    <3>2. QED BY <1>3, <1>5, <3>1 DEF Same, Clashes
  <2>4. QED BY <2>1, <2>2, <2>3
<1>6. QED BY <1>5 DEF Clashes

LEMMA ClashesKept ==
  ASSUME StoreTypes, Forms, Clashes, NEW t \in Threads, StoreStep(t) PROVE Clashes'
<1>1. CASE QuietStep(t)
  <2>1. PICK d \in Calls : Idles(d) /\ Sets(t, d) BY <1>1 DEF QuietStep
  <2>2. UNCHANGED config BY <1>1 DEF QuietStep, Told
  <2>3. \A v \in Threads : Goes(v) BY <2>1, SetsGo
  <2>4. QED BY <2>2, <2>3, ClashesGo
<1>2. CASE EnterStep(t) BY <1>2, ClashesEnter
<1>3. CASE RequestStep(t)
  <2>1. UNCHANGED config BY <1>3 DEF RequestStep, OpenStep, PutStep, GetStep, UnlinkStep, Told
  <2>2. QED BY <1>3, <2>1, RequestGoes, ClashesGo
<1>4. CASE EndStep(t)
  <2>1. PICK d \in Calls : Idles(d) /\ Sets(t, d) BY <1>4 DEF EndStep
  <2>2. UNCHANGED config BY <1>4 DEF EndStep
  <2>3. \A v \in Threads : Goes(v) BY <2>1, SetsGo
  <2>4. QED BY <2>2, <2>3, ClashesGo
<1>5. QED BY <1>1, <1>2, <1>3, <1>4 DEF StoreStep

LEMMA WholesKept ==
  ASSUME StoreTypes, Forms, Wholes, NEW t \in Threads, StoreStep(t) PROVE Wholes'
<1>0. ASSUME NEW d, Sets(t, d), Whole(d) PROVE Wholes' BY <1>0 DEF Sets, Wholes
<1>0a. ASSUME NEW d \in Calls, Sets(t, d), Request(call[t], d) PROVE Wholes'
  <2>1. Whole(d) BY <1>0a DEF Request, Wholes, Whole, Works
  <2>2. QED BY <1>0, <1>0a, <2>1
<1>1. CASE QuietStep(t) \/ EndStep(t)
  <2>1. PICK d \in Calls : Idles(d) /\ Sets(t, d) BY <1>1 DEF QuietStep, EndStep
  <2>2. Whole(d) BY <2>1, Constants DEF Idles, Whole, Works
  <2>3. QED BY <1>0, <2>1, <2>2
<1>2. CASE EnterStep(t)
  <2>1. PICK c \in Calls :
        /\ Whole(call'[t])
        /\ \A u \in Threads \ {t} :
             Same(call[u], call'[u]) /\ call'[u].clash = call[u].clash \cup Clash(call[u], c)
    BY <1>2 DEF EnterStep
  <2>2. ASSUME NEW u \in Threads \ {t} PROVE Whole(call'[u])
    <3>1. SUFFICES ASSUME Works(call'[u]), call'[u].class = None
                   PROVE  call'[u].clash = {} \/ call'[u].clash = Backends BY DEF Whole
    <3>2. Works(call[u]) /\ call[u].op \in Mutators /\ call[u].class = None BY <2>1, <3>1 DEF Same, Works
    <3>3. call[u].clash = {} \/ call[u].clash = Backends BY <3>2 DEF Wholes, Whole
    <3>4. Clash(call[u], c) = {} \/ Clash(call[u], c) = Backends BY <3>2, ClashWhole
    <3>5. QED BY <2>1, <3>3, <3>4
  <2>3. QED BY <2>1, <2>2 DEF Wholes
<1>3. CASE OpenStep(t) BY <1>0a, <1>3 DEF OpenStep
<1>4. CASE PutStep(t) BY <1>0a, <1>4 DEF PutStep, PutEnds
<1>5. CASE GetStep(t) BY <1>5 DEF GetStep, Wholes
<1>6. CASE UnlinkStep(t) BY <1>0a, <1>6 DEF UnlinkStep, Unlinks
<1>7. QED BY <1>1, <1>2, <1>3, <1>4, <1>5, <1>6 DEF StoreStep, RequestStep

(***************************************************************************)
(* What a call that returns knows, and moves of what is not the truth.     *)
(***************************************************************************)
LEMMA WorksForm ==
  ASSUME StoreTypes, Forms, NEW t \in Threads, Works(call[t])
  PROVE  /\ call[t] \in Calls /\ call[t].key \in Keys /\ call[t].at \in Backends /\ call[t].dst \in Backends
         /\ Form(call[t], config.replicate) /\ config.replicate \in BOOLEAN /\ ~Idles(call[t]) /\ ~Retrieves(call[t])
         /\ Removes(call[t]) \/ Stores(call[t]) \/ Moves(call[t]) \/ Copies(call[t])
         /\ call[t].pc = "get" => call[t].data = None /\ \A b \in Backends : <<"put", b>> \notin call[t].failed
<1>1. call[t] \in Calls /\ config.replicate \in BOOLEAN BY ManagerAssumption DEF StoreTypes, ConfigType
<1>2. Form(call[t], config.replicate) BY DEF Forms
<1>3. ~Idles(call[t]) BY Constants DEF Idles, Works
<1>4. ~Retrieves(call[t]) BY DEF Retrieves, Works, Mutators
<1>5. Removes(call[t]) \/ Stores(call[t]) \/ Moves(call[t]) \/ Copies(call[t]) BY <1>2, <1>3, <1>4 DEF Form
<1>6. call[t].pc = "get" => call[t].data = None /\ \A b \in Backends : <<"put", b>> \notin call[t].failed
  BY <1>2, <1>3, <1>5 DEF Form, Removes, Stores, Moves, Copies
<1>7. QED BY <1>1, <1>2, <1>3, <1>4, <1>5, <1>6 DEF Works, Calls

\* what it concludes of a backend is so
LEMMA HoldersAgree ==
  ASSUME StoreTypes, Forms, Claims, Wholes, Strays, NEW t \in Threads, Works(call[t]), call[t].pc = "returned",
         NEW b \in Backends, b \in Holders(call[t]) \ call[t].clash
  PROVE  Agrees(objects[b][call[t].key], Lesson(call[t]))
<1> DEFINE c == call[t]
<1> DEFINE k == call[t].key
<1> DEFINE T == Targets
<1>1. /\ c \in Calls /\ k \in Keys /\ (Removes(c) \/ Stores(c) \/ Moves(c) \/ Copies(c)) /\ c.dst \in Backends
      /\ Form(c, config.replicate)
  BY WorksForm
<1>2. ASSUME NEW x \in Backends \ c.clash PROVE Claim(c, x, objects[x][k], truth[k], <<x, k>> \in sound, T)
  BY DEF Claims
<1>3. \A x : x \in Kept(c) <=> x \in Backends /\ <<x, k>> \in sound BY DEF Kept
<1>4. \A x, r : x \in Failed(c, r) <=> x \in Backends /\ <<r, x>> \in c.failed BY DEF Failed
<1>5. CASE Removes(c)
  <2>1. Removal(c) /\ c.op # "store" /\ c.op # "copy" /\ ~Move(c) BY <1>5 DEF Removes, Removal, Move, Execs
  <2>2. "primary" \notin Failed(c, "remove") /\ b \notin Failed(c, "remove") BY <2>1 DEF Holders
  <2>3. Lesson(c) = None BY <2>1, <2>2 DEF Lesson
  <2>4. objects[b][k] = None BY <1>2, <1>4, <1>5, <2>2 DEF Claim, RemoveClaim
  <2>5. QED BY <2>3, <2>4 DEF Agrees
<1>6. CASE ~Removes(c)
  <2>0. ~Removal(c)
    <3>1. Stores(c) \/ Moves(c) \/ Copies(c) BY <1>1, <1>6
    <3>2. QED BY <3>1 DEF Stores, Moves, Copies, Removal, Move
  <2>1. ASSUME NEW x \in Backends \ c.clash PROVE PutClaim(c, x, objects[x][k], truth[k], <<x, k>> \in sound, T)
    BY <1>2, <1>6, <2>1 DEF Claim
  <2>2. ASSUME NEW x \in Backends \ c.clash, x \notin Tried(c, T), <<"put", x>> \notin c.failed, <<x, k>> \in sound
        PROVE  Agrees(objects[x][k], truth[k])
    BY <2>1, <2>2 DEF PutClaim, Pre
  <2>3. ASSUME NEW x \in Backends \ c.clash, x \in Tried(c, T), <<"put", x>> \notin c.failed,
               c.class # None => c.data = truth[k]
        PROVE  Agrees(objects[x][k], c.data)
    BY <2>1, <2>3 DEF PutClaim, Post
  <2>4. Tried(c, T) = IF c.ok THEN IF c.op = "copy" THEN {c.dst} ELSE T ELSE {} BY DEF Tried
  <2>5. CASE Stores(c)
    <3>1. c.op = "store" /\ ~Move(c) /\ c.class = None BY <2>5 DEF Stores, Move
    <3>2. CASE c.ok
      <4>1. b \in T /\ b \notin Failed(c, "put") /\ Lesson(c) = c.data BY <2>0, <3>1, <3>2 DEF Holders, Lesson
      <4>2. QED BY <1>4, <2>3, <2>4, <3>1, <3>2, <4>1
    <3>3. CASE ~c.ok
      <4>1. b \in Kept(c) /\ b \notin Failed(c, "put") /\ Lesson(c) = truth[k] BY <2>0, <3>1, <3>3 DEF Holders, Lesson
      <4>2. QED BY <1>3, <1>4, <2>2, <2>4, <3>3, <4>1
    <3>4. QED BY <3>2, <3>3
  <2>6. CASE Moves(c)
    <3>1. Move(c) /\ c.op # "store" /\ c.op # "copy" BY <2>6 DEF Moves, Move, Execs
    <3>2. Lesson(c) = truth[k] BY <2>0, <3>1 DEF Lesson
    <3>3. CASE c.ok /\ b \notin T
      <4>1. b \in Kept(c) BY <2>0, <3>1, <3>3 DEF Holders
      <4>2. <<"put", b>> \notin c.failed
        <5>1. b = "secondary" /\ ~config.replicate BY <3>3 DEF Targets, Backends
        <5>2. QED BY <1>1, <2>6, <3>1, <5>1 DEF Form, Idles, Moves
      <4>3. QED BY <1>3, <2>2, <2>4, <3>1, <3>2, <3>3, <4>1, <4>2
    <3>4. CASE c.ok /\ b \in T
      <4>1. ~Stale(c) /\ b \notin Failed(c, "put") BY <2>0, <3>1, <3>4 DEF Holders
      <4>2. c.data # None BY <2>6, <3>4 DEF Moves
      <4>3. c.data = truth[k] BY <3>1, <4>1, <4>2 DEF Strays, Dirty, Move
      <4>4. QED BY <1>4, <2>3, <2>4, <3>1, <3>2, <3>4, <4>1, <4>3
    <3>5. CASE ~c.ok
      <4>1. b \in Kept(c) /\ b \notin Failed(c, "put") BY <2>0, <3>1, <3>5 DEF Holders
      <4>2. QED BY <1>3, <1>4, <2>2, <2>4, <3>2, <3>5, <4>1
    <3>6. QED BY <3>3, <3>4, <3>5
  <2>7. CASE Copies(c)
    <3>1. c.op = "copy" /\ ~Move(c) /\ c.class = None BY <2>7 DEF Copies, Move
    <3>2. CASE ~c.ok
      <4>1. b \in Kept(c) /\ b \notin Failed(c, "put") /\ Lesson(c) = truth[k] BY <2>0, <3>1, <3>2 DEF Holders, Lesson
      <4>2. QED BY <1>3, <1>4, <2>2, <2>4, <3>2, <4>1
    <3>3. CASE c.ok
      <4>0. c.data # None /\ Tried(c, T) = {c.dst} BY <2>4, <2>7, <3>1, <3>3 DEF Copies
      <4>0a. c.clash = {}
        <5>1. c.clash = {} \/ c.clash = Backends BY <3>1 DEF Wholes, Whole
        <5>2. QED BY <5>1
      <4>1. b \notin Failed(c, "put") BY <2>0, <3>1, <3>3 DEF Holders
      <4>2. ASSUME NEW x \in Backends, x # c.dst PROVE Agrees(objects[x][k], c.data) /\ <<"put", x>> \notin c.failed
        <5>1. PutClaim(c, x, objects[x][k], truth[k], <<x, k>> \in sound, T) BY <2>1, <4>0a
        <5>2. <<"put", x>> \notin c.failed BY <2>7, <4>2 DEF Copies
        <5>3. QED BY <3>1, <4>0, <4>2, <5>1, <5>2 DEF PutClaim
      <4>3. b = c.dst => Agrees(objects[b][k], c.data) BY <1>4, <2>3, <3>1, <4>0, <4>1
      <4>4. CASE c.dst = "primary"
        <5>1. Lesson(c) = c.data BY <2>0, <3>1, <3>3, <4>4 DEF Lesson
        <5>2. QED BY <4>2, <4>3, <5>1
      <4>5. CASE c.dst = "secondary"
        <5>1. Lesson(c) = truth[k] BY <2>0, <3>1, <3>3, <4>5 DEF Lesson
        <5>2. CASE "primary" \in Kept(c)
          <6>0. "primary" \in Backends BY DEF Backends
          <6>1. Agrees(objects["primary"][k], c.data) /\ <<"put", "primary">> \notin c.failed BY <4>2, <4>5, <6>0
          <6>2. Agrees(objects["primary"][k], truth[k]) BY <1>3, <2>2, <4>0, <4>0a, <4>5, <5>2, <6>0, <6>1
          <6>3. c.data = truth[k] BY <4>0, <6>1, <6>2 DEF Agrees
          <6>4. QED BY <4>2, <4>3, <5>1, <6>3
        <5>3. CASE "primary" \notin Kept(c)
          <6>1. b \in Kept(c) \ {c.dst} BY <2>0, <3>1, <3>3, <4>5, <5>3 DEF Holders
          <6>2. QED BY <1>3, <1>4, <2>2, <4>0, <4>1, <5>1, <6>1
        <5>4. QED BY <5>2, <5>3
      <4>6. QED BY <1>1, <4>4, <4>5 DEF Backends
    <3>4. QED BY <3>2, <3>3
  <2>8. QED BY <1>1, <1>6, <2>5, <2>6, <2>7
<1>7. QED BY <1>5, <1>6

StrayAt(v) ==
  /\ call'[v].pc \in {"open", "write", "returned"}
  /\ call'[v].dst \in call'[v].clash \/ <<call'[v].dst, call'[v].key>> \notin sound'
  /\ \A u \in Threads \ {v} : call'[u].key = call'[v].key => Backends \subseteq call'[u].clash

LEMMA StraysFrom ==
  ASSUME \A v \in Threads : Works(call'[v]) /\ Dirty(call'[v], truth'[call'[v].key]) => StrayAt(v) PROVE Strays'
BY DEF Strays, Stale, StrayAt

LEMMA GoesOn ==
  ASSUME NEW v \in Threads, Goes(v), call'[v].key \in Keys
  PROVE  /\ call'[v].op = call[v].op /\ call'[v].key = call[v].key /\ call'[v].class = call[v].class
         /\ call[v].clash \subseteq call'[v].clash
BY Constants DEF Goes, Idles

LEMMA StrayStays ==
  ASSUME StoreTypes, Strays, NEW v \in Threads, \A u \in Threads : Goes(u),
         Works(call'[v]), Dirty(call'[v], truth'[call'[v].key]), Told,
         call'[v].data = call[v].data, call'[v].dst = call[v].dst,
         call'[v].pc \in {"open", "write", "returned"} \/ call'[v].pc = call[v].pc
  PROVE  StrayAt(v)
<1>1. call'[v].key \in Keys /\ call'[v].op = call[v].op /\ call'[v].key = call[v].key /\ call'[v].class = call[v].class
      /\ call[v].clash \subseteq call'[v].clash
  BY GoesOn DEF Works
<1>2. Works(call[v]) /\ Dirty(call[v], truth[call[v].key]) BY <1>1 DEF Works, Dirty, Told
<1>3. /\ call[v].pc \in {"open", "write", "returned"} /\ (call[v].dst \in call[v].clash \/ <<call[v].dst, call[v].key>> \notin sound)
      /\ \A u \in Threads \ {v} : call[u].key = call[v].key => Backends \subseteq call[u].clash
  BY <1>2 DEF Strays, Stale
<1>4. ASSUME NEW u \in Threads \ {v}, call'[u].key = call'[v].key PROVE Backends \subseteq call'[u].clash
  <2>1. call'[u].key = call[u].key /\ call[u].clash \subseteq call'[u].clash BY <1>1, <1>4, GoesOn
  <2>2. QED BY <1>1, <1>3, <1>4, <2>1
<1>5. QED BY <1>1, <1>3, <1>4 DEF StrayAt, Told

LEMMA StraysEnter ==
  ASSUME StoreTypes, Forms, Strays, NEW t \in Threads, EnterStep(t) PROVE Strays'
<1>1. PICK c \in Calls :
        /\ Begins(c) /\ Same(c, call'[t])
        /\ \A u \in Threads \ {t} :
            /\ Clash(c, call[u]) \subseteq call'[t].clash
            /\ Same(call[u], call'[u]) /\ call'[u].clash = call[u].clash \cup Clash(call[u], c)
  BY DEF EnterStep
<1>2. Told BY DEF EnterStep
<1>3. ASSUME NEW v \in Threads, Works(call'[v]), Dirty(call'[v], truth'[call'[v].key]) PROVE StrayAt(v)
  <2>1. v # t
    <3>1. ~(c.class # None /\ c.data # None) BY <1>1 DEF Begins, Retrieves, Removes, Stores, Moves, Copies
    <3>2. QED BY <1>1, <1>3, <3>1 DEF Same, Dirty
  <2>2. Same(call[v], call'[v]) /\ call[v].clash \subseteq call'[v].clash BY <1>1, <2>1
  <2>3. Works(call[v]) /\ Dirty(call[v], truth[call[v].key]) BY <1>2, <1>3, <2>2 DEF Works, Dirty, Told, Same
  <2>4. /\ Stale(call[v]) /\ call[v].pc \in {"open", "write", "returned"}
        /\ call[v].dst \in call[v].clash \/ <<call[v].dst, call[v].key>> \notin sound
        /\ \A u \in Threads \ {v} : call[u].key = call[v].key => Backends \subseteq call[u].clash
    BY <2>3 DEF Strays, Stale
  <2>5. ASSUME NEW u \in Threads \ {v}, call'[u].key = call'[v].key PROVE Backends \subseteq call'[u].clash
    <3>1. CASE u = t
      <4>1. c.key = call[v].key BY <1>1, <2>2, <2>5, <3>1 DEF Same
      <4>2. Clash(c, call[v]) = Backends BY <2>3, <2>4, <4>1, Constants DEF Clash, Works
      <4>3. QED BY <1>1, <2>1, <3>1, <4>2
    <3>2. CASE u # t BY <1>1, <2>2, <2>4, <2>5, <3>2 DEF Same
    <3>3. QED BY <3>1, <3>2
  <2>6. QED BY <1>2, <2>2, <2>4, <2>5 DEF StrayAt, Told, Same
<1>4. QED BY <1>3, StraysFrom

LEMMA StraysGet ==
  ASSUME StoreTypes, Forms, Strays, Claims, NEW t \in Threads, GetStep(t) PROVE Strays'
<1> DEFINE c == call[t]
<1> DEFINE k == c.key
<1> DEFINE x == objects[c.at][k]
<1>0. c.pc = "get" /\ Told BY DEF GetStep
<1>1. PICK d \in Calls, fine \in BOOLEAN :
        /\ (Misses(c, fine, d) /\ (fine => x = None)) \/ (fine /\ x # None /\ Gets(c, x.data, d))
        /\ Same(d, call'[t]) /\ c.clash \subseteq call'[t].clash
        /\ \A u \in Threads \ {t} :
            /\ Same(call[u], call'[u]) /\ call[u].clash \subseteq call'[u].clash
            /\ d.class # None /\ Stale(d) => Clash(call[u], d) \subseteq call'[u].clash
  BY DEF GetStep
<1>2. \A u \in Threads : Goes(u) BY RequestGoes DEF RequestStep
<1>3. ASSUME NEW v \in Threads, Works(call'[v]), Dirty(call'[v], truth'[call'[v].key]) PROVE StrayAt(v)
  <2>1. CASE v # t
    <3>1. Same(call[v], call'[v]) BY <1>1, <2>1
    <3>2. QED BY <1>0, <1>2, <1>3, <3>1, StrayStays DEF Same
  <2>2. CASE v = t
    <3>1. /\ d.op = call'[t].op /\ d.key = call'[t].key /\ d.class = call'[t].class /\ d.data = call'[t].data
          /\ d.dst = call'[t].dst /\ d.pc = call'[t].pc
      BY <1>1 DEF Same
    <3>2. Works(d) /\ d.class # None /\ d.data # None /\ d.data # truth[d.key]
      BY <1>0, <1>3, <2>2, <3>1 DEF Works, Dirty, Told
    <3>3. Request(c, d) /\ d.key = k BY <1>1 DEF Misses, Gets, Request
    <3>4. Works(c) /\ c.class # None BY <3>2, <3>3 DEF Works, Request
    <3>5. Moves(c) /\ c.data = None /\ c.at \in Backends /\ \A b \in Backends : <<"put", b>> \notin c.failed
      <4>1. Removes(c) \/ Stores(c) \/ Moves(c) \/ Copies(c) BY <3>4, WorksForm
      <4>2. QED BY <1>0, <3>4, <4>1, WorksForm DEF Removes, Stores, Copies
    <3>6. Gets(c, x.data, d) /\ x # None
      <4>1. Misses(c, fine, d) => d.data = c.data BY DEF Misses
      <4>2. QED BY <1>1, <3>2, <3>5, <4>1
    <3>7. d.data = x.data /\ d.dst = c.at /\ d.pc = "open" /\ d.clash = c.clash
      BY <3>2, <3>4, <3>5, <3>6 DEF Gets, Moves, Execs, Request
    <3>8. c.at \in c.clash \/ <<c.at, k>> \notin sound
      <4>1. SUFFICES ASSUME c.at \notin c.clash, <<c.at, k>> \in sound PROVE FALSE OBVIOUS
      <4>2. Claim(c, c.at, x, truth[k], <<c.at, k>> \in sound, Targets) BY <3>4, <3>5, <4>1 DEF Claims
      <4>3. ~Removes(c) /\ Tried(c, Targets) = {} BY <1>0, <3>4 DEF Removes, Tried
      <4>4. Agrees(x, truth[k]) BY <1>0, <3>5, <4>1, <4>2, <4>3 DEF Claim, PutClaim, Pre
      <4>5. x.data = truth[k] BY <3>6, <4>4 DEF Agrees
      <4>6. QED BY <3>2, <3>3, <3>7, <4>5
    <3>9. call'[t].dst \in call'[t].clash \/ <<call'[t].dst, call'[t].key>> \notin sound'
      BY <1>0, <1>1, <3>1, <3>3, <3>7, <3>8 DEF Told
    <3>10. ASSUME NEW u \in Threads \ {t}, call'[u].key = call'[t].key PROVE Backends \subseteq call'[u].clash
      <4>1. Same(call[u], call'[u]) /\ Clash(call[u], d) \subseteq call'[u].clash
        BY <1>1, <3>2, <3>3, <3>7, <3>8, <3>10 DEF Stale
      <4>2. call[u].key = d.key /\ d.key # None /\ d.op \in Mutators
        BY <3>1, <3>2, <3>10, <4>1, Constants DEF Same, Works
      <4>3. Stale(d) BY <3>3, <3>7, <3>8 DEF Stale
      <4>4. Clash(call[u], d) = Backends BY <4>2, <4>3 DEF Clash
      <4>5. QED BY <4>1, <4>4
    <3>11. QED BY <2>2, <3>1, <3>7, <3>9, <3>10 DEF StrayAt
  <2>3. QED BY <2>1, <2>2
<1>4. QED BY <1>3, StraysFrom

LEMMA StraysEnd ==
  ASSUME StoreTypes, Forms, Strays, Clashes, NEW t \in Threads, EndStep(t) PROVE Strays'
<1> DEFINE c == call[t]
<1>1. c.pc = "returned" /\ Learn(c) /\ UNCHANGED <<config, objects>> BY DEF EndStep
<1>2. PICK d \in Calls : Idles(d) /\ Sets(t, d) BY DEF EndStep
<1>3. c \in Calls /\ c.key \in Keys BY <1>1, BusyForm DEF Busies
<1>4. ASSUME NEW v \in Threads, Works(call'[v]), Dirty(call'[v], truth'[call'[v].key]) PROVE StrayAt(v)
  <2>1. v # t /\ call'[v] = call[v] BY <1>2, <1>4, Constants DEF Sets, Idles, Works
  <2>2. Works(call[v]) /\ call[v].class # None /\ call[v].data # None /\ call[v].data # truth'[call[v].key]
    BY <1>4, <2>1 DEF Dirty
  <2>2a. Moves(call[v]) /\ call[v].dst \in Backends
    <3>1. Removes(call[v]) \/ Stores(call[v]) \/ Moves(call[v]) \/ Copies(call[v]) BY <2>2, WorksForm
    <3>2. QED BY <2>2, <3>1, WorksForm DEF Removes, Stores, Copies
  <2>2b. call[v].pc \in {"open", "write", "returned"} BY <2>2, <2>2a DEF Moves
  <2>3. ASSUME NEW u \in Threads \ {v}, call'[u].key = call'[v].key PROVE u # t /\ call'[u] = call[u]
    BY <1>2, <2>2, <2>1, <2>3, Constants DEF Sets, Idles, Works
  <2>4. CASE call[v].data # truth[call[v].key]
    <3>1. /\ call[v].dst \in call[v].clash \/ <<call[v].dst, call[v].key>> \notin sound
          /\ \A u \in Threads \ {v} : call[u].key = call[v].key => Backends \subseteq call[u].clash
      BY <2>2, <2>4 DEF Strays, Dirty, Stale
    <3>2. call[v].dst \in call[v].clash \/ <<call[v].dst, call[v].key>> \notin sound'
      <4>1. SUFFICES ASSUME <<call[v].dst, call[v].key>> \notin sound, <<call[v].dst, call[v].key>> \in sound' PROVE FALSE
        BY <3>1
      <4>2. c.op \in Mutators BY <1>1, <4>1 DEF Learn
      <4>3. sound' = {p \in sound : p[2] # c.key} \cup ((Holders(c) \ c.clash) \X {c.key}) BY <1>1, <4>2 DEF Learn
      <4>4. call[v].key = c.key /\ call[v].dst \notin c.clash BY <4>1, <4>3
      <4>5. Backends \subseteq c.clash BY <2>1, <3>1, <4>4
      <4>6. QED BY <2>2a, <4>4, <4>5
    <3>3. QED BY <2>1, <2>2b, <2>3, <3>1, <3>2 DEF StrayAt
  <2>5. CASE call[v].data = truth[call[v].key]
    <3>1. truth'[call[v].key] # truth[call[v].key] BY <2>2, <2>5
    <3>2. c.op \in Mutators /\ truth' = [truth EXCEPT ![c.key] = Lesson(c)] BY <1>1, <3>1 DEF Learn
    <3>3. call[v].key = c.key /\ Lesson(c) # truth[c.key] BY <1>3, <2>2, <3>1, <3>2 DEF StoreTypes, Works
    <3>4. c.class = None
      <4>1. SUFFICES ASSUME c.class # None PROVE FALSE OBVIOUS
      <4>2. Works(c) BY <1>3, <3>2 DEF Works
      <4>3. Moves(c)
        <5>1. Removes(c) \/ Stores(c) \/ Moves(c) \/ Copies(c) BY <4>2, WorksForm
        <5>2. QED BY <4>1, <5>1 DEF Removes, Stores, Copies
      <4>4. Lesson(c) = truth[c.key] BY <4>1, <4>3 DEF Lesson, Moves, Execs, Removal, Move
      <4>5. QED BY <3>3, <4>4
    <3>5. Backends \subseteq call[v].clash BY <1>3, <2>1, <3>2, <3>3, <3>4 DEF Clashes
    <3>6. \A u \in Threads \ {v} : u # t /\ call[u].key = call[v].key => Backends \subseteq call[u].clash
      BY <1>3, <3>2, <3>3, <3>4 DEF Clashes
    <3>7. QED BY <2>1, <2>2a, <2>2b, <2>3, <3>5, <3>6 DEF StrayAt
  <2>6. QED BY <2>4, <2>5
<1>5. QED BY <1>4, StraysFrom

LEMMA StraysKept ==
  ASSUME StoreTypes, Forms, Strays, Clashes, Claims, NEW t \in Threads, StoreStep(t) PROVE Strays'
<1>0. ASSUME NEW d \in Calls, Sets(t, d), Told,
             Idles(d) \/ (Request(call[t], d) /\ d.data = call[t].data /\ d.dst = call[t].dst /\
                          (d.pc \in {"open", "write", "returned"} \/ d.pc = call[t].pc))
      PROVE  Strays'
  <2>1. \A u \in Threads : Goes(u) BY <1>0, SetsGo DEF Request
  <2>2. ASSUME NEW v \in Threads, Works(call'[v]), Dirty(call'[v], truth'[call'[v].key]) PROVE StrayAt(v)
    <3>1. CASE v = t
      <4>1. ~Idles(d) BY <1>0, <2>2, <3>1, Constants DEF Sets, Works, Idles
      <4>2. QED BY <1>0, <2>1, <2>2, <3>1, <4>1, StrayStays DEF Sets
    <3>2. CASE v # t BY <1>0, <2>1, <2>2, <3>2, StrayStays DEF Sets
    <3>3. QED BY <3>1, <3>2
  <2>3. QED BY <2>2, StraysFrom
<1>1. CASE QuietStep(t) BY <1>0, <1>1 DEF QuietStep
<1>2. CASE EnterStep(t) BY <1>2, StraysEnter
<1>3. CASE OpenStep(t)
  <2>1. PICK d \in Calls : Request(call[t], d) /\ d.data = call[t].data /\ d.dst = call[t].dst /\ d.pc = "write" /\ Sets(t, d)
    BY <1>3 DEF OpenStep
  <2>2. Told BY <1>3 DEF OpenStep
  <2>3. QED BY <1>0, <2>1, <2>2
<1>4. CASE PutStep(t)
  <2>1. PICK d \in Calls : Request(call[t], d) /\ d.data = call[t].data /\ d.dst = call[t].dst /\ d.pc \in {"open", "returned"} /\ Sets(t, d)
    BY <1>4 DEF PutStep, PutEnds
  <2>2. Told BY <1>4 DEF PutStep
  <2>3. QED BY <1>0, <2>1, <2>2
<1>5. CASE GetStep(t) BY <1>5, StraysGet
<1>6. CASE UnlinkStep(t)
  <2>1. PICK d \in Calls : Request(call[t], d) /\ d.data = call[t].data /\ d.dst = call[t].dst /\ d.pc \in {"returned", call[t].pc} /\ Sets(t, d)
    BY <1>6 DEF UnlinkStep, Unlinks
  <2>2. Told BY <1>6 DEF UnlinkStep
  <2>3. QED BY <1>0, <2>1, <2>2
<1>7. CASE EndStep(t) BY <1>7, StraysEnd
<1>8. QED BY <1>1, <1>2, <1>3, <1>4, <1>5, <1>6, <1>7 DEF StoreStep, RequestStep

(***************************************************************************)
(* Retrieves.                                                              *)
(***************************************************************************)
ReadAt(v) ==
  LET c == call'[v] IN
  c.op = "retrieve" /\ c.pc = "returned" /\ c.at \notin c.clash =>
    /\ c.ok => c.data = truth'[c.key]
    /\ ~c.ok /\ c.failed = {} => truth'[c.key] = None

LEMMA ReadsFrom == ASSUME \A v \in Threads : ReadAt(v) PROVE ReadsCurrent'
BY DEF ReadsCurrent, ReadAt

LEMMA ReadStays ==
  ASSUME ReadsCurrent, NEW v \in Threads, Same(call[v], call'[v]), call[v].clash \subseteq call'[v].clash, UNCHANGED truth
  PROVE  ReadAt(v)
BY DEF ReadsCurrent, ReadAt, Same

LEMMA RetrieveIs ==
  ASSUME StoreTypes, Forms, NEW v \in Threads, call[v].op = "retrieve", call[v].pc \in Busies
  PROVE  Retrieves(call[v]) /\ call[v].key \in Keys /\ call[v].at \in Backends
<1>1. Form(call[v], config.replicate) /\ ~Idles(call[v]) /\ call[v].key \in Keys /\ call[v].at \in Backends BY BusyForm
<1>2. QED BY <1>1 DEF Form, Removes, Stores, Moves, Copies, Execs

LEMMA ReadsGet ==
  ASSUME StoreTypes, Forms, Clashes, Strays, Sounds, ReadsCurrent, NEW t \in Threads, GetStep(t) PROVE ReadsCurrent'
<1> DEFINE c == call[t]
<1> DEFINE k == c.key
<1> DEFINE x == objects[c.at][k]
<1>0. c.pc = "get" /\ Told BY DEF GetStep
<1>1. PICK d \in Calls, fine \in BOOLEAN :
        /\ (Misses(c, fine, d) /\ (fine => x = None)) \/ (fine /\ x # None /\ Gets(c, x.data, d))
        /\ Same(d, call'[t]) /\ c.clash \subseteq call'[t].clash
        /\ d.op = "retrieve" /\ d.pc = "returned" /\ <<d.at, d.key>> \notin sound => d.at \in call'[t].clash
        /\ \A u \in Threads \ {t} : Same(call[u], call'[u]) /\ call[u].clash \subseteq call'[u].clash
  BY DEF GetStep
<1>2. ASSUME NEW v \in Threads PROVE ReadAt(v)
  <2>1. CASE v # t BY <1>0, <1>1, <2>1, ReadStays DEF Told
  <2>2. CASE v = t
    <3>1. SUFFICES ASSUME call'[t].op = "retrieve", call'[t].pc = "returned", call'[t].at \notin call'[t].clash
                   PROVE  /\ call'[t].ok => call'[t].data = truth'[call'[t].key]
                          /\ ~call'[t].ok /\ call'[t].failed = {} => truth'[call'[t].key] = None
      BY <2>2 DEF ReadAt
    <3>2. /\ d.op = "retrieve" /\ d.pc = "returned" /\ d.at = call'[t].at /\ d.key = call'[t].key /\ d.ok = call'[t].ok
          /\ d.data = call'[t].data /\ d.failed = call'[t].failed
      BY <1>1, <3>1 DEF Same
    <3>3. Request(c, d) BY <1>1 DEF Misses, Gets
    <3>4. c.op = "retrieve" /\ d.key = k BY <3>2, <3>3 DEF Request
    <3>5. Retrieves(c) /\ k \in Keys /\ c.at \in Backends BY <1>0, <3>4, RetrieveIs DEF Busies
    <3>6. d.at = c.at BY <1>1, <3>2, <3>5 DEF Misses, Gets, Retrieves
    <3>7. c.at \notin c.clash /\ <<c.at, k>> \in sound BY <1>1, <3>1, <3>2, <3>4, <3>6
    <3>8. Undisturbed(c.at, k)
      <4>1. SUFFICES ASSUME NEW w \in Threads, Works(call[w]), call[w].key = k
                     PROVE  ~Local(c.at) /\ call[w].class # None /\ ~Dirty(call[w], truth[k])
        BY DEF Undisturbed
      <4>2. w # t BY <3>4, <4>1 DEF Works, Mutators
      <4>3. ~Local(c.at) /\ call[w].class # None BY <3>5, <3>7, <4>1, <4>2 DEF Clashes, Works
      <4>4. ~Dirty(call[w], truth[k]) BY <3>5, <3>7, <4>1, <4>2 DEF Strays
      <4>5. QED BY <4>3, <4>4
    <3>9. Agrees(x, truth[k]) BY <3>5, <3>7, <3>8 DEF Sounds
    <3>10. CASE fine /\ x # None /\ Gets(c, x.data, d)
      <4>1. d.ok /\ d.data = x.data BY <3>2, <3>4, <3>5, <3>10 DEF Gets, Retrieves
      <4>2. x.data = truth[k] BY <3>9, <3>10 DEF Agrees
      <4>3. QED BY <1>0, <3>2, <3>4, <4>1, <4>2 DEF Told
    <3>11. CASE Misses(c, fine, d) /\ (fine => x = None)
      <4>1. ~d.ok BY <1>0, <3>2, <3>11 DEF Misses
      <4>2. d.failed = {} => fine BY <3>11 DEF Misses, Noted
      <4>3. x = None => truth[k] = None BY <3>9 DEF Agrees
      <4>4. QED BY <1>0, <3>2, <3>4, <3>11, <4>1, <4>2, <4>3 DEF Told
    <3>12. QED BY <1>1, <3>10, <3>11
  <2>3. QED BY <2>1, <2>2
<1>3. QED BY <1>2, ReadsFrom

LEMMA ReadsEnd ==
  ASSUME StoreTypes, Forms, Clashes, ReadsCurrent, NEW t \in Threads, EndStep(t) PROVE ReadsCurrent'
<1> DEFINE c == call[t]
<1>1. c.pc = "returned" /\ Learn(c) BY DEF EndStep
<1>2. PICK d \in Calls : Idles(d) /\ Sets(t, d) BY DEF EndStep
<1>3. c \in Calls /\ c.key \in Keys BY <1>1, BusyForm DEF Busies
<1>4. ASSUME NEW v \in Threads PROVE ReadAt(v)
  <2>1. SUFFICES ASSUME call'[v].op = "retrieve", call'[v].pc = "returned", call'[v].at \notin call'[v].clash
                 PROVE  /\ call'[v].ok => call'[v].data = truth'[call'[v].key]
                        /\ ~call'[v].ok /\ call'[v].failed = {} => truth'[call'[v].key] = None
    BY DEF ReadAt
  <2>2. v # t /\ call'[v] = call[v] BY <1>2, <2>1 DEF Sets, Idles, Busies
  <2>3. call[v].key \in Keys /\ call[v].at \in Backends BY <2>1, <2>2, RetrieveIs DEF Busies
  <2>4. truth'[call[v].key] = truth[call[v].key]
    <3>1. SUFFICES ASSUME truth'[call[v].key] # truth[call[v].key] PROVE FALSE OBVIOUS
    <3>2. c.op \in Mutators /\ truth' = [truth EXCEPT ![c.key] = Lesson(c)] BY <1>1, <3>1 DEF Learn
    <3>3. call[v].key = c.key /\ Lesson(c) # truth[c.key] BY <1>3, <2>3, <3>1, <3>2 DEF StoreTypes
    <3>4. c.class = None
      <4>1. SUFFICES ASSUME c.class # None PROVE FALSE OBVIOUS
      <4>2. Works(c) BY <1>3, <3>2 DEF Works
      <4>3. Moves(c)
        <5>1. Removes(c) \/ Stores(c) \/ Moves(c) \/ Copies(c) BY <4>2, WorksForm
        <5>2. QED BY <4>1, <5>1 DEF Removes, Stores, Copies
      <4>4. Lesson(c) = truth[c.key] BY <4>1, <4>3 DEF Lesson, Moves, Execs, Removal, Move
      <4>5. QED BY <3>3, <4>4
    <3>5. Backends \subseteq call[v].clash BY <1>3, <2>2, <3>2, <3>3, <3>4 DEF Clashes
    <3>6. QED BY <2>1, <2>2, <2>3, <3>5
  <2>5. QED BY <2>1, <2>2, <2>4 DEF ReadsCurrent
<1>5. QED BY <1>4, ReadsFrom

LEMMA ReadsKept ==
  ASSUME StoreTypes, Forms, Clashes, Strays, Sounds, ReadsCurrent, NEW t \in Threads, StoreStep(t) PROVE ReadsCurrent'
<1>0. ASSUME NEW d \in Calls, Sets(t, d), Told, ~(d.op = "retrieve" /\ d.pc = "returned") PROVE ReadsCurrent'
  <2>1. ASSUME NEW v \in Threads PROVE ReadAt(v)
    <3>1. CASE v = t BY <1>0, <3>1 DEF Sets, ReadAt
    <3>2. CASE v # t BY <1>0, <3>2, ReadStays DEF Sets, Told, Same
    <3>3. QED BY <3>1, <3>2
  <2>2. QED BY <2>1, ReadsFrom
<1>0a. ASSUME NEW d \in Calls, Sets(t, d), Told, Request(call[t], d), call[t].pc \in {"open", "write", "remove"}
       PROVE  ReadsCurrent'
  <2>1. call[t].op # "retrieve" BY <1>0a, RetrieveIs DEF Busies, Retrieves
  <2>2. QED BY <1>0, <1>0a, <2>1 DEF Request
<1>1. CASE QuietStep(t)
  <2>1. PICK d \in Calls : Idles(d) /\ Sets(t, d) BY <1>1 DEF QuietStep
  <2>2. QED BY <1>0, <1>1, <2>1 DEF QuietStep, Idles, Busies
<1>2. CASE EnterStep(t)
  <2>1. PICK c \in Calls :
          /\ Begins(c) /\ Same(c, call'[t])
          /\ \A u \in Threads \ {t} : Same(call[u], call'[u]) /\ call[u].clash \subseteq call'[u].clash
    BY <1>2 DEF EnterStep
  <2>2. c.pc # "returned" BY <2>1 DEF Begins
  <2>3. ASSUME NEW v \in Threads PROVE ReadAt(v)
    <3>1. CASE v = t BY <2>1, <2>2, <3>1 DEF Same, ReadAt
    <3>2. CASE v # t BY <1>2, <2>1, <3>2, ReadStays DEF EnterStep, Told
    <3>3. QED BY <3>1, <3>2
  <2>4. QED BY <2>3, ReadsFrom
<1>3. CASE OpenStep(t) BY <1>0a, <1>3 DEF OpenStep
<1>4. CASE PutStep(t) BY <1>0a, <1>4 DEF PutStep, PutEnds
<1>5. CASE GetStep(t) BY <1>5, ReadsGet
<1>6. CASE UnlinkStep(t) BY <1>0a, <1>6 DEF UnlinkStep, Unlinks
<1>7. CASE EndStep(t) BY <1>7, ReadsEnd
<1>8. QED BY <1>1, <1>2, <1>3, <1>4, <1>5, <1>6, <1>7 DEF StoreStep, RequestStep

(***************************************************************************)
(* What is known to be sound is.                                           *)
(***************************************************************************)
LEMMA SoundsKept ==
  ASSUME StoreTypes, Forms, Clashes, Strays, Wholes, Claims, Sounds, NEW t \in Threads, StoreStep(t) PROVE Sounds'
<1> SUFFICES ASSUME NEW b \in Backends, NEW k \in Keys, <<b, k>> \in sound', Undisturbed(b, k)'
             PROVE  Agrees(objects'[b][k], truth'[k])
  BY DEF Sounds
<1> DEFINE c == call[t]
<1>0. \A u \in Threads : Works(call'[u]) /\ call'[u].key = k =>
        ~(config.kind[b] = "local")' /\ call'[u].class # None /\ ~Dirty(call'[u], truth'[k])
  BY DEF Undisturbed, Local
\* as long as the others go on and t works on k no less than it did, nothing disturbed b before
<1>1. ASSUME Told, \A u \in Threads \ {t} : Same(call[u], call'[u]),
             Works(c) /\ c.key = k =>
               Works(call'[t]) /\ call'[t].key = k /\ call'[t].class = c.class /\ (c.data # None => call'[t].data = c.data)
      PROVE  Undisturbed(b, k) /\ <<b, k>> \in sound /\ truth'[k] = truth[k]
  <2>1. ASSUME NEW u \in Threads, Works(call[u]), call[u].key = k
        PROVE  ~Local(b) /\ call[u].class # None /\ ~Dirty(call[u], truth[k])
    <3>1. CASE u = t BY <1>0, <1>1, <2>1, <3>1 DEF Told, Local, Dirty
    <3>2. CASE u # t BY <1>0, <1>1, <2>1, <3>2 DEF Told, Local, Dirty, Same, Works
    <3>3. QED BY <3>1, <3>2
  <2>2. QED BY <1>1, <2>1 DEF Undisturbed, Told
<1>2. ASSUME Undisturbed(b, k), <<b, k>> \in sound PROVE Agrees(objects[b][k], truth[k]) BY <1>2 DEF Sounds
<1>3. ASSUME NEW d \in Calls, Sets(t, d), Told, Request(c, d), c.data # None => d.data = c.data
      PROVE  /\ Undisturbed(b, k) /\ <<b, k>> \in sound /\ truth'[k] = truth[k] /\ Agrees(objects[b][k], truth[k])
             /\ c.key = k /\ Works(c) => ~Local(b) /\ c.class # None /\ ~Dirty(c, truth[k])
  <2>1. \A u \in Threads \ {t} : Same(call[u], call'[u]) BY <1>3 DEF Sets, Same
  <2>2. Works(c) /\ c.key = k =>
          Works(call'[t]) /\ call'[t].key = k /\ call'[t].class = c.class /\ (c.data # None => call'[t].data = c.data)
    BY <1>3 DEF Sets, Request, Works
  <2>3. Undisturbed(b, k) /\ <<b, k>> \in sound /\ truth'[k] = truth[k] BY <1>1, <1>3, <2>1, <2>2
  <2>4. QED BY <1>2, <2>3 DEF Undisturbed
<1>4. CASE QuietStep(t)
  <2>1. PICK d \in Calls : Sets(t, d) BY <1>4 DEF QuietStep
  <2>2. ~Works(c) BY <1>4, Constants DEF QuietStep, Idles, Works
  <2>3. \A u \in Threads \ {t} : Same(call[u], call'[u]) BY <2>1 DEF Sets, Same
  <2>4. Undisturbed(b, k) /\ <<b, k>> \in sound /\ truth'[k] = truth[k] BY <1>1, <1>4, <2>2, <2>3 DEF QuietStep
  <2>5. QED BY <1>2, <1>4, <2>4 DEF QuietStep
<1>5. CASE EnterStep(t)
  <2>2. ~Works(c) BY <1>5, Constants DEF EnterStep, Idles, Works
  <2>3. \A u \in Threads \ {t} : Same(call[u], call'[u]) BY <1>5 DEF EnterStep
  <2>4. Undisturbed(b, k) /\ <<b, k>> \in sound /\ truth'[k] = truth[k] BY <1>1, <1>5, <2>2, <2>3 DEF EnterStep
  <2>5. QED BY <1>2, <1>5, <2>4 DEF EnterStep
<1>6. CASE OpenStep(t)
  <2>1. PICK d \in Calls, x \in Objects : Request(c, d) /\ d.data = c.data /\ Sets(t, d) /\ Writes(c.at, c.key, x)
    BY <1>6 DEF OpenStep
  <2>2. /\ Undisturbed(b, k) /\ <<b, k>> \in sound /\ truth'[k] = truth[k] /\ Agrees(objects[b][k], truth[k])
        /\ c.key = k /\ Works(c) => ~Local(b) /\ c.class # None /\ ~Dirty(c, truth[k])
    BY <1>3, <1>6, <2>1 DEF OpenStep
  <2>3. Works(c) /\ Local(c.at)
    <3>1. c.pc = "open" /\ Local(c.at) BY <1>6 DEF OpenStep
    <3>2. c.key \in Keys /\ ~Idles(c) /\ Form(c, config.replicate) BY <3>1, BusyForm DEF Busies
    <3>3. Stores(c) \/ Moves(c) \/ Copies(c) BY <3>1, <3>2 DEF Form, Retrieves, Removes
    <3>4. QED BY <3>1, <3>2, <3>3 DEF Works, Stores, Moves, Copies, Mutators, Execs
  <2>4. b # c.at \/ k # c.key BY <2>2, <2>3
  <2>5. QED BY <2>1, <2>2, <2>4 DEF Writes
<1>7. CASE PutStep(t)
  <2>1. PICK d \in Calls, fine \in BOOLEAN, ok \in BOOLEAN, x \in Objects \cup {None} :
          /\ Request(c, d) /\ d.data = c.data /\ Sets(t, d) /\ Writes(c.at, c.key, x)
          /\ PutResult(c, fine, ok, objects[c.at][c.key], x)
    BY <1>7 DEF PutStep, PutEnds
  <2>2. /\ Undisturbed(b, k) /\ <<b, k>> \in sound /\ truth'[k] = truth[k] /\ Agrees(objects[b][k], truth[k])
        /\ c.key = k /\ Works(c) => ~Local(b) /\ c.class # None /\ ~Dirty(c, truth[k])
    BY <1>3, <1>7, <2>1 DEF PutStep
  <2>3. Works(c) /\ c.data # None
    <3>1. c.pc \in {"open", "write"} BY <1>7 DEF PutStep
    <3>2. c.key \in Keys /\ ~Idles(c) /\ Form(c, config.replicate) /\ c.data # None BY <3>1, BusyForm DEF Busies
    <3>3. Stores(c) \/ Moves(c) \/ Copies(c) BY <3>1, <3>2 DEF Form, Retrieves, Removes
    <3>4. QED BY <3>1, <3>2, <3>3 DEF Works, Stores, Moves, Copies, Mutators, Execs
  <2>4. CASE b # c.at \/ k # c.key BY <2>1, <2>2, <2>4 DEF Writes
  <2>5. CASE b = c.at /\ k = c.key
    <3>1. c.data = truth[k] BY <2>2, <2>3, <2>5 DEF Dirty
    <3>2. objects'[b][k] = x BY <2>1, <2>5 DEF Writes
    <3>3. x = objects[b][k] \/ (x # None /\ x.data = c.data) BY <2>1, <2>5 DEF PutResult
    <3>4. QED BY <2>2, <3>1, <3>2, <3>3 DEF Agrees
  <2>6. QED BY <2>4, <2>5
<1>8. CASE GetStep(t)
  <2>1. PICK d \in Calls : Request(c, d) /\ Same(d, call'[t])
    <3>1. PICK d \in Calls, fine \in BOOLEAN : Same(d, call'[t]) /\
              (Misses(c, fine, d) \/ Gets(c, objects[c.at][c.key].data, d))
      BY <1>8 DEF GetStep
    <3>2. Request(c, d) BY <3>1 DEF Misses, Gets
    <3>3. QED BY <3>1, <3>2
  <2>2. \A u \in Threads \ {t} : Same(call[u], call'[u]) BY <1>8 DEF GetStep
  <2>3. Works(c) => c.data = None BY <1>8, WorksForm DEF GetStep
  <2>4. Works(c) /\ c.key = k =>
          Works(call'[t]) /\ call'[t].key = k /\ call'[t].class = c.class /\ (c.data # None => call'[t].data = c.data)
    BY <2>1, <2>3 DEF Request, Same, Works
  <2>5. Told /\ UNCHANGED objects BY <1>8 DEF GetStep
  <2>6. Undisturbed(b, k) /\ <<b, k>> \in sound /\ truth'[k] = truth[k] BY <1>1, <2>2, <2>4, <2>5
  <2>7. QED BY <1>2, <2>5, <2>6
<1>9. CASE UnlinkStep(t)
  <2>1. PICK d \in Calls, x \in Objects \cup {None} : Request(c, d) /\ d.data = c.data /\ Sets(t, d) /\ Writes(c.at, c.key, x)
    BY <1>9 DEF UnlinkStep, Unlinks
  <2>2. /\ Undisturbed(b, k) /\ <<b, k>> \in sound /\ truth'[k] = truth[k] /\ Agrees(objects[b][k], truth[k])
        /\ c.key = k /\ Works(c) => ~Local(b) /\ c.class # None /\ ~Dirty(c, truth[k])
    BY <1>3, <1>9, <2>1 DEF UnlinkStep
  <2>3. Works(c) /\ c.class = None
    <3>1. c.pc = "remove" BY <1>9 DEF UnlinkStep
    <3>2. c.key \in Keys /\ ~Idles(c) /\ Form(c, config.replicate) BY <3>1, BusyForm DEF Busies
    <3>3. Removes(c) BY <3>1, <3>2 DEF Form, Retrieves, Stores, Moves, Copies
    <3>4. QED BY <3>1, <3>2, <3>3 DEF Works, Removes, Mutators, Execs
  <2>4. b # c.at \/ k # c.key BY <2>2, <2>3
  <2>5. QED BY <2>1, <2>2, <2>4 DEF Writes
<1>10. CASE EndStep(t)
  <2>1. c.pc = "returned" /\ Learn(c) /\ UNCHANGED <<config, objects>> BY <1>10 DEF EndStep
  <2>2. PICK d \in Calls : Idles(d) /\ Sets(t, d) BY <1>10 DEF EndStep
  <2>3. c \in Calls /\ c.key \in Keys BY <2>1, BusyForm DEF Busies
  <2>4. CASE c.op \notin Mutators
    <3>1. Told BY <2>1, <2>4 DEF Learn, Told
    <3>2. ~Works(c) BY <2>4 DEF Works
    <3>3. \A u \in Threads \ {t} : Same(call[u], call'[u]) BY <2>2 DEF Sets, Same
    <3>4. Undisturbed(b, k) /\ <<b, k>> \in sound /\ truth'[k] = truth[k] BY <1>1, <3>1, <3>2, <3>3
    <3>5. QED BY <1>2, <2>1, <3>4
  <2>5. CASE c.op \in Mutators
    <3>1. /\ truth' = [truth EXCEPT ![c.key] = Lesson(c)]
          /\ sound' = {p \in sound : p[2] # c.key} \cup ((Holders(c) \ c.clash) \X {c.key})
      BY <2>1, <2>5 DEF Learn
    <3>2. CASE k = c.key
      <4>1. truth'[k] = Lesson(c) BY <2>3, <3>1, <3>2 DEF StoreTypes
      <4>2. b \in Holders(c) \ c.clash BY <3>1, <3>2
      <4>3. Works(c) BY <2>3, <2>5 DEF Works
      <4>4. Agrees(objects[b][c.key], Lesson(c)) BY <2>1, <4>2, <4>3, HoldersAgree
      <4>5. QED BY <2>1, <3>2, <4>1, <4>4
    <3>3. CASE k # c.key
      <4>1. truth'[k] = truth[k] BY <3>1, <3>3 DEF StoreTypes
      <4>2. <<b, k>> \in sound BY <3>1, <3>3
      <4>3. Undisturbed(b, k)
        <5>1. SUFFICES ASSUME NEW u \in Threads, Works(call[u]), call[u].key = k
                       PROVE  ~Local(b) /\ call[u].class # None /\ ~Dirty(call[u], truth[k])
          BY DEF Undisturbed
        <5>2. u # t BY <3>3, <5>1
        <5>3. call'[u] = call[u] BY <2>2, <5>2 DEF Sets
        <5>4. QED BY <1>0, <2>1, <4>1, <5>1, <5>3 DEF Local
      <4>4. QED BY <1>2, <2>1, <4>1, <4>2, <4>3
    <3>4. QED BY <3>2, <3>3
  <2>6. QED BY <2>4, <2>5
<1>11. QED BY <1>4, <1>5, <1>6, <1>7, <1>8, <1>9, <1>10 DEF StoreStep, RequestStep

(***************************************************************************)
(* What a call knows of the backends.                                      *)
(***************************************************************************)
LEMMA ClaimSame ==
  ASSUME NEW c, NEW d, NEW b, NEW x, NEW y, NEW s, NEW T, Same(c, d), Claim(c, b, x, y, s, T)
  PROVE  Claim(d, b, x, y, s, T)
<1>1. (Removes(c) <=> Removes(d)) /\ Tried(c, T) = Tried(d, T) BY DEF Same, Removes, Tried
<1>2. CASE Removes(c) BY <1>1, <1>2 DEF Claim, RemoveClaim, Same
<1>3. CASE ~Removes(c) BY <1>1, <1>3 DEF Claim, PutClaim, Post, Same
<1>4. QED BY <1>2, <1>3

LEMMA PutWins ==
  ASSUME NEW c, NEW b, NEW fine \in BOOLEAN, NEW ok \in BOOLEAN, NEW old, NEW x, b = c.at, fine, ok,
         c.pc = "write" => old # None, PutResult(c, fine, ok, old, x)
  PROVE  Agrees(x, c.data)
BY DEF PutResult, Agrees

LEMMA PutClaims ==
  ASSUME NEW R \in BOOLEAN, NEW c \in Calls, NEW d \in Calls, NEW fine \in BOOLEAN, NEW ok \in BOOLEAN,
         c.pc \in {"open", "write"}, Form(c, R), PutEnds(c, fine, ok, d, R),
         NEW b \in Backends, NEW old, NEW x, NEW y, NEW s \in BOOLEAN, NEW T, T = IF R THEN Backends ELSE {"primary"},
         PutClaim(c, b, old, y, s, T),
         b = c.at => PutResult(c, fine, ok, old, x), b # c.at => x = old
  PROVE  PutClaim(d, b, x, y, s, T)
<1>1. /\ d.op = c.op /\ d.class = c.class /\ d.data = c.data /\ d.dst = c.dst
      /\ d.failed = IF fine THEN c.failed ELSE c.failed \cup {<<"put", c.at>>}
  BY DEF PutEnds, Request, Noted
<1>2. <<"put", b>> \notin d.failed => <<"put", b>> \notin c.failed /\ (b = c.at => fine) BY <1>1
<1>3. (c.op = "copy" => c.at = c.dst /\ c.over) /\ (c.op # "copy" /\ c.at = "secondary" => R) /\ c.at \in Backends
  <2>1. c.pc # "get" /\ c.pc # "remove" /\ c.pc \in Busies BY DEF Busies
  <2>2. Stores(c) \/ Moves(c) \/ Copies(c) BY <2>1 DEF Form, Idles, Retrieves, Removes
  <2>3. c.op = "copy" => Copies(c) BY <2>2 DEF Stores, Moves, Execs
  <2>4. ~Idles(c) BY <2>1 DEF Idles
  <2>5. QED BY <2>3, <2>4 DEF Copies, Form, Calls
<1>4. Tried(c, T) = IF c.op # "copy" /\ c.at = "secondary" THEN {"primary"} ELSE {} BY DEF Tried
<1>5. /\ c.pc = "write" /\ b = c.at => old # None
      /\ b \in Tried(c, T) => Post(c, b, old, y)
      /\ b \notin Tried(c, T) /\ <<"put", b>> \notin c.failed /\ ~(c.pc = "write" /\ b = c.at) => Pre(old, y, s)
      /\ c.op = "copy" /\ c.data # None /\ b # c.dst => Agrees(old, c.data)
  BY DEF PutClaim
<1>6. b = c.at /\ fine /\ ok => Agrees(x, c.data) BY <1>5, PutWins
<1>7. b = c.at /\ fine /\ ~ok => c.pc = "open" /\ c.at = "primary" /\ ~c.over /\ x = old BY DEF PutResult
<1>8. d.pc # "write" /\ (d.op = "copy" /\ d.data # None /\ b # d.dst => Agrees(x, d.data))
  BY <1>1, <1>3, <1>5 DEF PutEnds
<1>9. ASSUME b \in Tried(d, T) PROVE Post(d, b, x, y)
  <2>1. SUFFICES ASSUME <<"put", b>> \notin d.failed, c.class # None => c.data = y PROVE Agrees(x, c.data)
    BY <1>1 DEF Post
  <2>2. CASE b = c.at
    <3>1. fine BY <1>2, <2>1, <2>2
    <3>2. ok
      <4>1. SUFFICES ASSUME ~ok PROVE FALSE OBVIOUS
      <4>2. c.at = "primary" /\ ~c.over BY <1>7, <2>2, <3>1, <4>1
      <4>3. c.op # "copy" BY <1>3, <4>2
      <4>4. d.pc = "returned" /\ ~d.ok BY <4>1, <4>2, <4>3 DEF PutEnds
      <4>5. QED BY <1>9, <4>4 DEF Tried
    <3>3. QED BY <1>6, <2>2, <3>1, <3>2
  <2>3. CASE b # c.at
    <3>1. c.op # "copy" /\ c.at = "secondary"
      <4>1. CASE d.pc = "open"
        <5>1. c.at = "primary" /\ d.at = "secondary" BY <4>1 DEF PutEnds
        <5>2. b = "primary" BY <1>1, <1>9, <4>1 DEF Tried
        <5>3. QED BY <2>3, <5>1, <5>2
      <4>2. CASE d.pc # "open"
        <5>1. d.pc = "returned" /\ d.at = c.at /\ (c.op = "copy" \/ c.at = "secondary" \/ ~ok \/ ~R)
              /\ d.ok = (ok \/ (c.op # "copy" /\ c.at = "secondary"))
          BY <4>2 DEF PutEnds
        <5>2. b \in IF d.ok THEN IF c.op = "copy" THEN {c.dst} ELSE T ELSE {} BY <1>1, <1>9, <5>1 DEF Tried
        <5>3. c.op # "copy" BY <1>3, <2>3, <5>2
        <5>4. QED BY <1>3, <2>3, <5>1, <5>2, <5>3 DEF Backends
      <4>3. QED BY <4>1, <4>2
    <3>2. b \in Tried(c, T) BY <1>3, <1>4, <2>3, <3>1 DEF Backends
    <3>3. QED BY <1>2, <1>5, <2>1, <2>3, <3>2 DEF Post
  <2>4. QED BY <2>2, <2>3
<1>10. ASSUME b \notin Tried(d, T), <<"put", b>> \notin d.failed PROVE Pre(x, y, s)
  <2>1. <<"put", b>> \notin c.failed /\ (b = c.at => fine) BY <1>2, <1>10
  <2>2. CASE b = c.at
    <3>1. ~ok
      <4>1. SUFFICES ASSUME ok PROVE FALSE OBVIOUS
      <4>2. CASE d.pc = "open"
        <5>1. c.op # "copy" /\ c.at = "primary" /\ d.at = "secondary" BY <4>2 DEF PutEnds
        <5>2. QED BY <1>1, <1>10, <2>2, <4>2, <5>1 DEF Tried
      <4>3. CASE d.pc # "open"
        <5>1. d.pc = "returned" /\ d.ok BY <4>1, <4>3 DEF PutEnds
        <5>2. Tried(d, T) = IF c.op = "copy" THEN {c.dst} ELSE T BY <1>1, <5>1 DEF Tried
        <5>3. QED BY <1>3, <1>10, <2>2, <5>2 DEF Backends
      <4>4. QED BY <4>2, <4>3
    <3>2. c.pc = "open" /\ c.at = "primary" /\ x = old BY <1>7, <2>1, <2>2, <3>1
    <3>3. b \notin Tried(c, T) BY <1>4, <3>2
    <3>4. QED BY <1>5, <2>1, <3>2, <3>3
  <2>3. CASE b # c.at
    <3>1. b \notin Tried(c, T)
      <4>1. SUFFICES ASSUME b \in Tried(c, T) PROVE FALSE OBVIOUS
      <4>2. c.op # "copy" /\ c.at = "secondary" /\ b = "primary" BY <1>4, <4>1
      <4>3. d.pc = "returned" /\ d.ok BY <4>2 DEF PutEnds
      <4>4. Tried(d, T) = T BY <1>1, <4>2, <4>3 DEF Tried
      <4>5. QED BY <1>10, <4>2, <4>4 DEF Backends
    <3>2. QED BY <1>5, <2>1, <2>3, <3>1
  <2>4. QED BY <2>2, <2>3
<1>11. QED BY <1>8, <1>9, <1>10 DEF PutClaim

ClaimAt(v) ==
  \A b \in Backends \ call'[v].clash :
    Works(call'[v]) =>
      Claim(call'[v], b, objects'[b][call'[v].key], truth'[call'[v].key], <<b, call'[v].key>> \in sound', Targets')

LEMMA ClaimsFrom == ASSUME \A v \in Threads : ClaimAt(v) PROVE Claims'
BY DEF Claims, ClaimAt

LEMMA TargetsStay == ASSUME UNCHANGED config PROVE Targets' = Targets
BY DEF Targets

\* a call that goes on where nothing changes
LEMMA ClaimStays ==
  ASSUME Claims, NEW v \in Threads, Same(call[v], call'[v]), call[v].clash \subseteq call'[v].clash,
         Works(call[v]) => truth'[call[v].key] = truth[call[v].key],
         UNCHANGED config,
         \A b \in Backends \ call'[v].clash : Works(call[v]) =>
           /\ objects'[b][call[v].key] = objects[b][call[v].key]
           /\ <<b, call[v].key>> \in sound' => <<b, call[v].key>> \in sound
  PROVE  ClaimAt(v)
<1> SUFFICES ASSUME NEW b \in Backends \ call'[v].clash, Works(call'[v])
             PROVE  Claim(call'[v], b, objects'[b][call'[v].key], truth'[call'[v].key],
                          <<b, call'[v].key>> \in sound', Targets')
  BY DEF ClaimAt
<1> DEFINE k == call[v].key
<1>1. Works(call[v]) /\ call'[v].key = k BY DEF Works, Same
<1>2. Claim(call[v], b, objects[b][k], truth[k], <<b, k>> \in sound, Targets) BY <1>1 DEF Claims
<1>3. Claim(call[v], b, objects[b][k], truth[k], <<b, k>> \in sound', Targets)
  <2>1. <<b, k>> \in sound' => <<b, k>> \in sound BY <1>1
  <2>2. CASE Removes(call[v]) BY <1>2, <2>2 DEF Claim
  <2>3. CASE ~Removes(call[v]) BY <1>2, <2>1, <2>3 DEF Claim, PutClaim, Pre
  <2>4. QED BY <2>2, <2>3
<1>4. Claim(call'[v], b, objects[b][k], truth[k], <<b, k>> \in sound', Targets) BY <1>3, ClaimSame
<1>5. objects'[b][k] = objects[b][k] /\ truth'[k] = truth[k] /\ Targets' = Targets BY <1>1, TargetsStay
<1>6. QED BY <1>1, <1>4, <1>5

\* a move whose object is stored again as it was, or found to be sound
LEMMA MoveStays ==
  ASSUME NEW c, NEW b, NEW old, NEW x, NEW y, NEW s, NEW z, NEW T, c.class # None, c.op # "copy",
         Claim(c, b, old, y, s, T), x = old \/ (x # None /\ x.data = y), z => s \/ Agrees(x, y)
  PROVE  Claim(c, b, x, y, z, T)
<1>1. ~Removes(c) BY DEF Removes
<1>2. CASE x = old BY <1>1, <1>2 DEF Claim, PutClaim, Pre
<1>3. CASE x # None /\ x.data = y BY <1>1, <1>3 DEF Claim, PutClaim, Pre, Post, Agrees
<1>4. QED BY <1>2, <1>3

\* two calls at work on a key: unless they clashed in a backend, both are moves of the truth
LEMMA OtherMoves ==
  ASSUME StoreTypes, Forms, Clashes, Strays, NEW t \in Threads, NEW v \in Threads \ {t}, Works(call[t]), Works(call[v]),
         call[v].key = call[t].key, NEW b \in Backends \ call[v].clash
  PROVE  /\ ~Local(b) /\ Moves(call[t]) /\ Moves(call[v]) /\ call[t].class # None /\ call[v].class # None
         /\ call[t].op # "copy" /\ call[v].op # "copy" /\ ~Dirty(call[t], truth[call[t].key])
<1>1. ~Local(b) /\ call[t].class # None /\ call[v].class # None BY DEF Clashes, Works
<1>2. ~Dirty(call[t], truth[call[t].key]) BY DEF Strays
<1>3. Moves(call[t]) /\ Moves(call[v]) BY <1>1, WorksForm DEF Removes, Stores, Copies
<1>4. QED BY <1>1, <1>2, <1>3 DEF Moves, Execs

\* a request to a backend leaves the others' claims
LEMMA ClaimsOthers ==
  ASSUME StoreTypes, Forms, Clashes, Strays, Claims, NEW t \in Threads, NEW d \in Calls, NEW x, Told, Works(call[t]),
         Sets(t, d), Writes(call[t].at, call[t].key, x),
         call[t].class # None /\ ~Local(call[t].at) /\ ~Dirty(call[t], truth[call[t].key]) =>
           x = objects[call[t].at][call[t].key] \/ (x # None /\ x.data = truth[call[t].key])
  PROVE  \A v \in Threads \ {t} : ClaimAt(v)
<1> SUFFICES ASSUME NEW v \in Threads \ {t}, NEW b \in Backends \ call'[v].clash, Works(call'[v])
             PROVE  Claim(call'[v], b, objects'[b][call'[v].key], truth'[call'[v].key],
                          <<b, call'[v].key>> \in sound', Targets')
  BY DEF ClaimAt
<1> DEFINE k == call[v].key
<1>1. call'[v] = call[v] /\ Works(call[v]) BY DEF Sets
<1>2. truth' = truth /\ sound' = sound /\ Targets' = Targets BY TargetsStay DEF Told
<1>3. Claim(call[v], b, objects[b][k], truth[k], <<b, k>> \in sound, Targets) BY <1>1 DEF Claims
<1>4. CASE b # call[t].at \/ k # call[t].key
  <2>1. k \in Keys BY <1>1 DEF Works
  <2>2. objects'[b][k] = objects[b][k] BY <1>4, <2>1 DEF Writes
  <2>3. QED BY <1>1, <1>2, <1>3, <2>2
<1>5. CASE b = call[t].at /\ k = call[t].key
  <2>1. /\ ~Local(b) /\ call[t].class # None /\ call[v].class # None /\ call[v].op # "copy"
        /\ ~Dirty(call[t], truth[k])
    BY <1>1, <1>5, OtherMoves
  <2>2. x = objects[b][k] \/ (x # None /\ x.data = truth[k]) BY <1>5, <2>1
  <2>3. objects'[b][k] = x BY <1>5 DEF Writes
  <2>4. Claim(call[v], b, x, truth[k], <<b, k>> \in sound, Targets) BY <1>3, <2>1, <2>2, MoveStays
  <2>5. QED BY <1>1, <1>2, <2>3, <2>4
<1>6. QED BY <1>4, <1>5

LEMMA ClaimsEnter ==
  ASSUME StoreTypes, Forms, Strays, Sounds, Claims, NEW t \in Threads, EnterStep(t) PROVE Claims'
<1>1. PICK c \in Calls :
        /\ Begins(c) /\ Same(c, call'[t])
        /\ \A u \in Threads \ {t} :
             /\ Clash(c, call[u]) \subseteq call'[t].clash
             /\ Same(call[u], call'[u]) /\ call'[u].clash = call[u].clash \cup Clash(call[u], c)
  BY DEF EnterStep
<1>2. Told /\ UNCHANGED objects /\ Idles(call[t]) BY DEF EnterStep
<1>3. ASSUME NEW v \in Threads \ {t} PROVE ClaimAt(v)
  <2>1. Same(call[v], call'[v]) /\ call[v].clash \subseteq call'[v].clash BY <1>1
  <2>2. QED BY <1>2, <2>1, ClaimStays DEF Told
<1>4. ClaimAt(t)
  <2> SUFFICES ASSUME NEW b \in Backends \ call'[t].clash, Works(call'[t])
               PROVE  Claim(call'[t], b, objects'[b][call'[t].key], truth'[call'[t].key],
                            <<b, call'[t].key>> \in sound', Targets')
    BY DEF ClaimAt
  <2> DEFINE k == c.key
  <2> DEFINE s == <<b, k>> \in sound
  <2>1. Works(c) /\ call'[t].key = k /\ k \in Keys BY <1>1 DEF Works, Same
  <2>2. Pre(objects[b][k], truth[k], s)
    <3>1. SUFFICES ASSUME s PROVE Agrees(objects[b][k], truth[k]) BY DEF Pre
    <3>2. ASSUME NEW w \in Threads, Works(call[w]), call[w].key = k
          PROVE  ~Local(b) /\ call[w].class # None /\ ~Dirty(call[w], truth[k])
      <4>1. w # t BY <1>2, <3>2, Constants DEF Idles, Works
      <4>2. b \notin Clash(c, call[w]) BY <1>1, <4>1
      <4>3. k # None /\ c.op \in Mutators /\ call[w].op \in Mutators BY <2>1, <3>2, Constants DEF Works
      <4>4. ~Local(b) /\ Move(call[w]) /\ ~Stale(call[w]) BY <3>2, <4>2, <4>3 DEF Clash
      <4>5. ~Dirty(call[w], truth[k]) BY <3>2, <4>4 DEF Strays
      <4>6. QED BY <4>4, <4>5 DEF Move
    <3>3. Undisturbed(b, k) BY <3>2 DEF Undisturbed
    <3>4. QED BY <2>1, <3>1, <3>3 DEF Sounds
  <2>3. Claim(c, b, objects[b][k], truth[k], s, Targets)
    <3>1. CASE Removes(c)
      <4>1. c.pc = "remove" /\ c.at = "primary" BY <1>1, <3>1 DEF Begins, Removes, Retrieves, Stores, Moves, Copies
      <4>2. QED BY <3>1, <4>1 DEF Claim, RemoveClaim
    <3>2. CASE ~Removes(c)
      <4>1. c.failed = {} /\ (c.pc = "get" \/ (c.pc = "open" /\ c.at = "primary")) BY <1>1, <3>2 DEF Begins
      <4>2. Tried(c, Targets) = {} BY <4>1 DEF Tried
      <4>3. c.op = "copy" => c.data = None
        <5>1. c.op = "copy" => Copies(c) /\ c.pc = "get" BY <1>1 DEF Begins, Retrieves, Removes, Stores, Moves, Execs
        <5>2. QED BY <5>1 DEF Copies
      <4>4. PutClaim(c, b, objects[b][k], truth[k], s, Targets) BY <2>2, <4>1, <4>2, <4>3 DEF PutClaim
      <4>5. QED BY <3>2, <4>4 DEF Claim
    <3>3. QED BY <3>1, <3>2
  <2> HIDE DEF s
  <2>4. Claim(call'[t], b, objects[b][k], truth[k], s, Targets) BY <1>1, <2>3, ClaimSame
  <2>5. QED BY <1>2, <2>1, <2>4, TargetsStay DEF Told, s
<1>5. QED BY <1>3, <1>4, ClaimsFrom

LEMMA ClaimsOpen ==
  ASSUME StoreTypes, Forms, Clashes, Strays, Claims, NEW t \in Threads, OpenStep(t) PROVE Claims'
<1> DEFINE c == call[t]
<1> DEFINE k == c.key
<1>0. c.pc = "open" /\ Local(c.at) /\ Told BY DEF OpenStep
<1>1. PICK d \in Calls, x \in Objects :
        /\ Request(c, d) /\ d.data = c.data /\ d.at = c.at /\ d.dst = c.dst /\ d.pc = "write" /\ d.failed = c.failed
        /\ Sets(t, d) /\ Writes(c.at, k, x)
  BY DEF OpenStep
<1>2. c.key \in Keys /\ ~Idles(c) /\ Form(c, config.replicate) /\ c.at \in Backends BY <1>0, BusyForm DEF Busies
<1>3. Stores(c) \/ Moves(c) \/ Copies(c) BY <1>0, <1>2 DEF Form, Retrieves, Removes
<1>4. Works(c) /\ ~Removes(c) /\ (c.op = "copy" => c.at = c.dst)
  <2>1. Works(c) /\ ~Removes(c) BY <1>0, <1>2, <1>3 DEF Works, Stores, Moves, Copies, Mutators, Execs, Removes
  <2>2. c.op = "copy" => Copies(c) BY <1>3 DEF Stores, Moves, Execs
  <2>3. QED BY <1>0, <2>1, <2>2 DEF Copies
<1>5. \A v \in Threads \ {t} : ClaimAt(v) BY <1>0, <1>1, <1>4, ClaimsOthers
<1>6. ClaimAt(t)
  <2> SUFFICES ASSUME NEW b \in Backends \ call'[t].clash, Works(call'[t])
               PROVE  Claim(call'[t], b, objects'[b][call'[t].key], truth'[call'[t].key],
                            <<b, call'[t].key>> \in sound', Targets')
    BY DEF ClaimAt
  <2> DEFINE y == truth[k]
  <2> DEFINE s == <<b, k>> \in sound
  <2> DEFINE T == Targets
  <2>1. call'[t] = d /\ d.key = k /\ b \notin c.clash /\ d.op = c.op /\ d.class = c.class BY <1>1 DEF Sets, Request
  <2>2. PutClaim(c, b, objects[b][k], y, s, T) BY <1>4, <2>1 DEF Claims, Claim
  <2>3. b = c.at => objects'[b][k] \in Objects BY <1>1 DEF Writes
  <2>4. b # c.at => objects'[b][k] = objects[b][k] BY <1>1, <1>2 DEF Writes
  <2>5. Tried(d, T) = Tried(c, T) /\ (b = c.at => b \notin Tried(c, T)) BY <1>0, <1>1, <2>1 DEF Tried
  <2> HIDE DEF y, s, T
  <2>6. PutClaim(d, b, objects'[b][k], y, s, T)
    <3>1. CASE b = c.at
      <4>1. objects'[b][k] # None BY <2>3, <3>1, Constants
      <4>2. QED BY <1>1, <1>4, <2>1, <2>5, <3>1, <4>1 DEF PutClaim
    <3>2. CASE b # c.at BY <1>0, <1>1, <2>1, <2>2, <2>4, <2>5, <3>2 DEF PutClaim, Post
    <3>3. QED BY <3>1, <3>2
  <2>7. ~Removes(d) BY <1>1 DEF Removes
  <2>8. QED BY <1>0, <2>1, <2>6, <2>7, TargetsStay DEF Claim, Told, y, s, T
<1>7. QED BY <1>5, <1>6, ClaimsFrom

LEMMA ClaimsPut ==
  ASSUME StoreTypes, Forms, Clashes, Strays, Claims, NEW t \in Threads, PutStep(t) PROVE Claims'
<1> DEFINE c == call[t]
<1> DEFINE k == c.key
<1>0. c.pc \in {"open", "write"} /\ Told BY DEF PutStep
<1>1. PICK d \in Calls, fine \in BOOLEAN, ok \in BOOLEAN, x \in Objects \cup {None} :
        /\ PutEnds(c, fine, ok, d, config.replicate) /\ PutResult(c, fine, ok, objects[c.at][k], x)
        /\ Sets(t, d) /\ Writes(c.at, k, x)
  BY DEF PutStep
<1>2. /\ c \in Calls /\ c.key \in Keys /\ ~Idles(c) /\ Form(c, config.replicate) /\ config.replicate \in BOOLEAN
      /\ c.at \in Backends /\ c.data # None
  BY <1>0, BusyForm DEF Busies
<1>3. Stores(c) \/ Moves(c) \/ Copies(c) BY <1>0, <1>2 DEF Form, Retrieves, Removes
<1>4. Works(c) /\ ~Removes(c) BY <1>0, <1>2, <1>3 DEF Works, Stores, Moves, Copies, Mutators, Execs, Removes
<1>5. \A v \in Threads \ {t} : ClaimAt(v)
  <2>1. x = objects[c.at][k] \/ (x # None /\ x.data = c.data) BY <1>1 DEF PutResult
  <2>2. c.class # None /\ ~Dirty(c, truth[k]) => c.data = truth[k] BY <1>2 DEF Dirty
  <2>3. c.class # None /\ ~Dirty(c, truth[k]) => x = objects[c.at][k] \/ (x # None /\ x.data = truth[k])
    BY <2>1, <2>2
  <2>4. QED BY <1>0, <1>1, <1>4, <2>3, ClaimsOthers
<1>6. ClaimAt(t)
  <2> SUFFICES ASSUME NEW b \in Backends \ call'[t].clash, Works(call'[t])
               PROVE  Claim(call'[t], b, objects'[b][call'[t].key], truth'[call'[t].key],
                            <<b, call'[t].key>> \in sound', Targets')
    BY DEF ClaimAt
  <2> DEFINE y == truth[k]
  <2> DEFINE s == <<b, k>> \in sound
  <2> DEFINE T == Targets
  <2>1. call'[t] = d /\ d.key = k /\ b \notin c.clash BY <1>1 DEF Sets, PutEnds, Request
  <2>2. PutClaim(c, b, objects[b][k], y, s, T) BY <1>4, <2>1 DEF Claims, Claim
  <2>3. b = c.at => PutResult(c, fine, ok, objects[b][k], objects'[b][k]) BY <1>1 DEF Writes
  <2>4. b # c.at => objects'[b][k] = objects[b][k] BY <1>1, <1>2 DEF Writes
  <2>5. T = (IF config.replicate THEN Backends ELSE {"primary"}) /\ s \in BOOLEAN BY DEF Targets
  <2> HIDE DEF y, s, T
  <2>6. PutClaim(d, b, objects'[b][k], y, s, T) BY <1>0, <1>1, <1>2, <2>2, <2>3, <2>4, <2>5, PutClaims
  <2>7. ~Removes(d)
    <3>1. d.op = c.op /\ d.class = c.class BY <1>1 DEF PutEnds, Request
    <3>2. QED BY <1>3, <3>1 DEF Stores, Moves, Copies, Removes, Execs
  <2>8. QED BY <1>0, <2>1, <2>6, <2>7, TargetsStay DEF Claim, Told, y, s, T
<1>7. QED BY <1>5, <1>6, ClaimsFrom

LEMMA ClaimsGet ==
  ASSUME StoreTypes, Forms, Claims, NEW t \in Threads, GetStep(t) PROVE Claims'
<1> DEFINE c == call[t]
<1> DEFINE k == c.key
<1> DEFINE z == objects[c.at][k]
<1>0. c.pc = "get" /\ Told /\ UNCHANGED objects BY DEF GetStep
<1>1. PICK d \in Calls, fine \in BOOLEAN :
        /\ (Misses(c, fine, d) /\ (fine => z = None)) \/ (fine /\ z # None /\ Gets(c, z.data, d))
        /\ Same(d, call'[t]) /\ c.clash \subseteq call'[t].clash
        /\ \A u \in Threads \ {t} : Same(call[u], call'[u]) /\ call[u].clash \subseteq call'[u].clash
  BY DEF GetStep
<1>2. ASSUME NEW v \in Threads \ {t} PROVE ClaimAt(v) BY <1>0, <1>1, ClaimStays DEF Told
<1>3. ClaimAt(t)
  <2> SUFFICES ASSUME NEW b \in Backends \ call'[t].clash, Works(call'[t])
               PROVE  Claim(call'[t], b, objects'[b][call'[t].key], truth'[call'[t].key],
                            <<b, call'[t].key>> \in sound', Targets')
    BY DEF ClaimAt
  <2> DEFINE x == objects[b][k]
  <2> DEFINE y == truth[k]
  <2> DEFINE s == <<b, k>> \in sound
  <2> DEFINE T == Targets
  <2>1. Request(c, d) BY <1>1 DEF Misses, Gets
  <2>2. d.op = c.op /\ d.key = k /\ d.class = c.class /\ call'[t].key = k /\ Works(c) /\ b \notin c.clash
    BY <1>1, <2>1 DEF Request, Same, Works
  <2>3. /\ (Moves(c) \/ Copies(c)) /\ c.data = None /\ (\A a \in Backends : <<"put", a>> \notin c.failed)
        /\ c.at \in Backends
    BY <1>0, <2>2, WorksForm DEF Removes, Stores
  <2>4. ~Removes(c) /\ ~Removes(d) BY <2>2, <2>3 DEF Moves, Copies, Removes, Execs
  <2>5. PutClaim(c, b, x, y, s, T) BY <2>2, <2>4 DEF Claims, Claim
  <2>6. Pre(x, y, s)
    <3>1. Tried(c, T) = {} BY <1>0 DEF Tried
    <3>2. QED BY <1>0, <2>3, <2>5, <3>1 DEF PutClaim
  <2> HIDE DEF y, s, T
  <2>7. Tried(d, T) = {} /\ d.pc # "write"
    <3>1. CASE Misses(c, fine, d) BY <1>0, <3>1 DEF Misses, Tried
    <3>2. CASE Gets(c, z.data, d)
      <4>1. c.op # "retrieve" BY <2>2 DEF Works, Mutators
      <4>2. CASE c.op = "copy" /\ d.pc = "open" BY <2>2, <4>2 DEF Tried
      <4>3. CASE d.at = "primary" /\ d.pc = "open" BY <4>3 DEF Tried
      <4>4. CASE d.pc = "returned" /\ ~d.ok BY <4>4 DEF Tried
      <4>5. QED BY <3>2, <4>1, <4>2, <4>3, <4>4 DEF Gets
    <3>3. QED BY <1>1, <3>1, <3>2
  <2>8. d.op = "copy" /\ d.data # None /\ b # d.dst => Agrees(x, d.data)
    <3>1. SUFFICES ASSUME d.op = "copy", d.data # None, b # d.dst PROVE Agrees(x, d.data) OBVIOUS
    <3>2. z # None /\ Gets(c, z.data, d) BY <1>1, <2>3, <3>1 DEF Misses
    <3>3. Copies(c) /\ c.class = None /\ c.at # c.dst /\ c.dst \in Backends
      BY <1>0, <2>2, <2>3, <3>1, WorksForm DEF Moves, Copies, Execs
    <3>4. d.data = z.data /\ d.dst = c.dst BY <2>2, <3>1, <3>2, <3>3 DEF Gets
    <3>5. b = c.at BY <2>3, <3>1, <3>3, <3>4 DEF Backends
    <3>6. QED BY <3>2, <3>4, <3>5 DEF Agrees
  <2>9. PutClaim(d, b, x, y, s, T) BY <2>6, <2>7, <2>8 DEF PutClaim
  <2>10. Claim(d, b, x, y, s, T) BY <2>4, <2>9 DEF Claim
  <2>11. Claim(call'[t], b, x, y, s, T) BY <1>1, <2>10, ClaimSame
  <2>12. QED BY <1>0, <2>2, <2>11, TargetsStay DEF Told, y, s, T
<1>4. QED BY <1>2, <1>3, ClaimsFrom

LEMMA ClaimsUnlink ==
  ASSUME StoreTypes, Forms, Clashes, Strays, Claims, NEW t \in Threads, UnlinkStep(t) PROVE Claims'
<1> DEFINE c == call[t]
<1> DEFINE k == c.key
<1>0. c.pc = "remove" /\ Told BY DEF UnlinkStep
<1>1. PICK d \in Calls, fine \in BOOLEAN, x \in Objects \cup {None} :
        /\ Unlinks(c, fine, d) /\ (x = None \/ (~fine /\ x = objects[c.at][k]))
        /\ Sets(t, d) /\ Writes(c.at, k, x)
  BY DEF UnlinkStep
<1>2. c.key \in Keys /\ ~Idles(c) /\ Form(c, config.replicate) /\ c.at \in Backends BY <1>0, BusyForm DEF Busies
<1>3. Removes(c) BY <1>0, <1>2 DEF Form, Retrieves, Stores, Moves, Copies
<1>4. Works(c) /\ c.class = None BY <1>2, <1>3 DEF Works, Removes, Mutators, Execs
<1>5. \A v \in Threads \ {t} : ClaimAt(v) BY <1>0, <1>1, <1>4, ClaimsOthers
<1>6. ClaimAt(t)
  <2> SUFFICES ASSUME NEW b \in Backends \ call'[t].clash, Works(call'[t])
               PROVE  Claim(call'[t], b, objects'[b][call'[t].key], truth'[call'[t].key],
                            <<b, call'[t].key>> \in sound', Targets')
    BY DEF ClaimAt
  <2>1. call'[t] = d /\ d.key = k /\ b \notin c.clash BY <1>1 DEF Sets, Unlinks, Request
  <2>2. RemoveClaim(c, b, objects[b][k]) BY <1>3, <1>4, <2>1 DEF Claims, Claim
  <2>3. b = c.at => objects'[b][k] = x BY <1>1 DEF Writes
  <2>4. b # c.at => objects'[b][k] = objects[b][k] BY <1>1, <1>2 DEF Writes
  <2>5. <<"remove", b>> \notin d.failed => <<"remove", b>> \notin c.failed /\ (b = c.at => fine)
    BY <1>1 DEF Unlinks, Noted
  <2>6. RemoveClaim(d, b, objects'[b][k])
    <3>1. SUFFICES ASSUME d.pc = "returned" \/ (b = "primary" /\ d.at = "secondary"), <<"remove", b>> \notin d.failed
                   PROVE  objects'[b][k] = None
      BY DEF RemoveClaim
    <3>2. CASE b = c.at BY <1>1, <2>3, <2>5, <3>1, <3>2
    <3>3. CASE b # c.at
      <4>1. c.at = "secondary" /\ b = "primary"
        <5>1. c.at = "primary" => d.at = "secondary" /\ d.pc = "remove" BY <1>0, <1>1 DEF Unlinks
        <5>2. QED BY <1>2, <3>1, <3>3, <5>1 DEF Backends
      <4>2. QED BY <2>2, <2>4, <2>5, <3>1, <3>3, <4>1 DEF RemoveClaim
    <3>4. QED BY <3>2, <3>3
  <2>7. Removes(d)
    <3>1. d.op = c.op /\ d.class = c.class /\ d.pc \in {"remove", "returned"} BY <1>0, <1>1 DEF Unlinks, Request
    <3>2. QED BY <1>3, <3>1 DEF Removes
  <2>8. QED BY <2>1, <2>6, <2>7 DEF Claim
<1>7. QED BY <1>5, <1>6, ClaimsFrom

LEMMA ClaimsEnd ==
  ASSUME StoreTypes, Forms, Clashes, Strays, Wholes, Claims, NEW t \in Threads, EndStep(t) PROVE Claims'
<1> DEFINE c == call[t]
<1>1. c.pc = "returned" /\ Learn(c) /\ UNCHANGED <<config, objects>> BY DEF EndStep
<1>2. PICK d \in Calls : Idles(d) /\ Sets(t, d) BY DEF EndStep
<1>3. c \in Calls /\ c.key \in Keys BY <1>1, BusyForm DEF Busies
<1>4. ClaimAt(t) BY <1>2, Constants DEF ClaimAt, Sets, Idles, Works
<1>5. ASSUME NEW v \in Threads \ {t} PROVE ClaimAt(v)
  <2>1. call'[v] = call[v] /\ Same(call[v], call'[v]) BY <1>2 DEF Sets, Same
  <2>2. CASE c.op \notin Mutators
    <3>1. UNCHANGED <<truth, sound>> BY <1>1, <2>2 DEF Learn
    <3>2. QED BY <1>1, <2>1, <3>1, ClaimStays
  <2>3. CASE c.op \in Mutators
    <3>1. /\ truth' = [truth EXCEPT ![c.key] = Lesson(c)]
          /\ sound' = {p \in sound : p[2] # c.key} \cup ((Holders(c) \ c.clash) \X {c.key})
      BY <1>1, <2>3 DEF Learn
    <3>2. CASE call[v].key # c.key
      <4>1. truth'[call[v].key] = truth[call[v].key] BY <3>1, <3>2 DEF StoreTypes
      <4>2. \A b : <<b, call[v].key>> \in sound' => <<b, call[v].key>> \in sound BY <3>1, <3>2
      <4>3. QED BY <1>1, <2>1, <4>1, <4>2, ClaimStays
    <3>3. CASE call[v].key = c.key
      <4> DEFINE k == c.key
      <4> SUFFICES ASSUME NEW b \in Backends \ call'[v].clash, Works(call'[v])
                   PROVE  Claim(call'[v], b, objects'[b][call'[v].key], truth'[call'[v].key],
                                <<b, call'[v].key>> \in sound', Targets')
        BY DEF ClaimAt
      <4>1. Works(c) /\ Works(call[v]) BY <1>3, <2>1, <2>3 DEF Works
      <4>2. Moves(c) /\ c.class # None /\ c.op # "copy" /\ call[v].class # None /\ call[v].op # "copy"
        BY <2>1, <3>3, <4>1, OtherMoves
      <4>3. Lesson(c) = truth[k] BY <4>2 DEF Lesson, Moves, Execs, Removal, Move
      <4>4. truth'[k] = truth[k] BY <1>3, <3>1, <4>3 DEF StoreTypes
      <4>5. <<b, k>> \in sound' => b \in Holders(c) \ c.clash BY <3>1
      <4>6. <<b, k>> \in sound' => Agrees(objects[b][k], truth[k]) BY <1>1, <4>1, <4>3, <4>5, HoldersAgree
      <4>7. Claim(call[v], b, objects[b][k], truth[k], <<b, k>> \in sound, Targets) BY <2>1, <3>3, <4>1 DEF Claims
      <4> DEFINE s == <<b, k>> \in sound
      <4> DEFINE z == <<b, k>> \in sound'
      <4> DEFINE x == objects[b][k]
      <4> HIDE DEF s, z, x
      <4>8. Claim(call[v], b, x, truth[k], z, Targets)
        <5>1. Claim(call[v], b, x, truth[k], s, Targets) /\ (z => Agrees(x, truth[k])) BY <4>6, <4>7 DEF s, z, x
        <5>2. QED BY <4>2, <5>1, MoveStays
      <4>9. QED BY <1>1, <2>1, <3>3, <4>4, <4>8, TargetsStay DEF z, x
    <3>4. QED BY <3>2, <3>3
  <2>4. QED BY <2>2, <2>3
<1>6. QED BY <1>4, <1>5, ClaimsFrom

LEMMA ClaimsKept ==
  ASSUME StoreTypes, Forms, Clashes, Strays, Wholes, Claims, Sounds, NEW t \in Threads, StoreStep(t) PROVE Claims'
<1>1. CASE QuietStep(t)
  <2>1. PICK d \in Calls : Idles(d) /\ Sets(t, d) BY <1>1 DEF QuietStep
  <2>2. ClaimAt(t) BY <2>1, Constants DEF ClaimAt, Sets, Idles, Works
  <2>3. ASSUME NEW v \in Threads \ {t} PROVE ClaimAt(v)
    <3>1. Same(call[v], call'[v]) /\ call[v].clash \subseteq call'[v].clash BY <2>1 DEF Sets, Same
    <3>2. QED BY <1>1, <3>1, ClaimStays DEF QuietStep, Told
  <2>4. QED BY <2>2, <2>3, ClaimsFrom
<1>2. CASE EnterStep(t) BY <1>2, ClaimsEnter
<1>3. CASE OpenStep(t) BY <1>3, ClaimsOpen
<1>4. CASE PutStep(t) BY <1>4, ClaimsPut
<1>5. CASE GetStep(t) BY <1>5, ClaimsGet
<1>6. CASE UnlinkStep(t) BY <1>6, ClaimsUnlink
<1>7. CASE EndStep(t) BY <1>7, ClaimsEnd
<1>8. QED BY <1>1, <1>2, <1>3, <1>4, <1>5, <1>6, <1>7 DEF StoreStep, RequestStep

(***************************************************************************)
(* The invariant, and what follows from it.                                *)
(***************************************************************************)
LEMMA StillKeeps ==
  ASSUME StoreInv, BaseInv', StillStep \/ AgeStep PROVE StoreInv'
<1>1. UNCHANGED call /\ Told BY DEF StillStep, AgeStep
<1>2. \A b \in Backends, k \in Keys : \A y : Agrees(objects'[b][k], y) <=> Agrees(objects[b][k], y)
  BY DEF StillStep, AgeStep, Agrees
<1>3. UNCHANGED <<config, truth, sound>> BY <1>1 DEF Told
<1>4. Clashes' /\ Wholes' /\ ReadsCurrent'
  <2>1. Clashes' BY <1>1, <1>3 DEF StoreInv, Clashes, Local
  <2>2. Wholes' BY <1>1 DEF StoreInv, Wholes
  <2>3. ReadsCurrent' BY <1>1, <1>3 DEF StoreInv, ReadsCurrent
  <2>4. QED BY <2>1, <2>2, <2>3
<1>5. Strays' BY <1>1, <1>3 DEF StoreInv, Strays, Stale
<1>6. Sounds' BY <1>1, <1>2, <1>3 DEF StoreInv, Sounds, Undisturbed, Local
<1>7. ASSUME NEW v \in Threads PROVE ClaimAt(v)
  <2>1. CASE StillStep BY <1>1, <1>3, <2>1, ClaimStays DEF StillStep, StoreInv, Same
  <2>2. CASE AgeStep
    <3>1. ~Works(call'[v])
      <4>1. call'[v] = call[v] /\ call[v].pc = "idle" /\ Form(call[v], config.replicate)
        BY <1>1, <2>2 DEF AgeStep, StoreInv, BaseInv, Forms
      <4>2. QED BY <4>1, Constants DEF Form, Idles, Retrieves, Removes, Stores, Moves, Copies, Works
    <3>2. QED BY <3>1 DEF ClaimAt
  <2>3. QED BY <2>1, <2>2
<1>8. QED BY <1>4, <1>5, <1>6, <1>7, ClaimsFrom DEF StoreInv

LEMMA StoreInit == ASSUME PolicyInit PROVE StoreInv
<1>1. /\ config \in Configs /\ call = [t \in Threads |-> NoCall] /\ calls = 0 /\ faults = 0
      /\ initialized = FALSE /\ connected = [b \in Backends |-> FALSE]
      /\ truth = [k \in Keys |-> Present]
  BY DEF PolicyInit, Init
<1>2. objects \in [Backends -> [Keys -> Objects \cup {None}]]
      /\ \A b \in Backends, k \in Keys : objects[b][k] =
           IF Present = None \/ (b = "secondary" /\ ~config.replicate) THEN None
           ELSE [data |-> Present, class |-> None, age |-> 0]
  <2>1. Present # None => [data |-> Present, class |-> None, age |-> 0] \in Objects
    BY ManagerAssumption DEF Objects
  <2>2. objects = [b \in Backends |-> [k \in Keys |->
           IF Present = None \/ (b = "secondary" /\ ~config.replicate) THEN None
           ELSE [data |-> Present, class |-> None, age |-> 0]]]
    BY DEF PolicyInit, Init
  <2>3. QED BY <2>1, <2>2
<1>3. sound \in SUBSET (Backends \X Keys) /\ (sound = (IF config.replicate \/ Present = None THEN Backends ELSE {"primary"}) \X Keys)
  BY DEF PolicyInit, Init, Backends
<1>4. \A t \in Threads : call[t] = NoCall /\ call[t].op = "none" /\ call[t].pc = "idle" BY <1>1 DEF NoCall
<1>5. \A t \in Threads : ~Works(call[t]) /\ Idles(call[t]) BY <1>4, NoCallForm DEF Works, Mutators
<1>6. BaseInv
  <2>1. StoreTypes
    <3>1. call \in [Threads -> Calls] BY <1>1, NoCallForm
    <3>2. truth \in [Keys -> Contents \cup {None}] BY <1>1, Constants
    <3>3. QED BY <1>1, <1>2, <1>3, <3>1, <3>2 DEF StoreTypes
  <2>2. CountTypes BY <1>1 DEF CountTypes
  <2>3. PolicyTypes
    <3>1. rules \in SUBSET Rules /\ retention \in RetentionType BY PolicyAssumption DEF PolicyInit
    <3>2. pending = <<>> /\ pending \in Seq(ActionRecords) BY DEF PolicyInit
    <3>3. NoWork \in [metas : SUBSET Metadatas, todo : Seq(ActionRecords)]
      <4>1. <<>> \in Seq(ActionRecords) OBVIOUS
      <4>2. QED BY <4>1 DEF NoWork
    <3>4. work \in [Threads -> [metas : SUBSET Metadatas, todo : Seq(ActionRecords)]] BY <3>3 DEF PolicyInit
    <3>5. due \in [Keys -> Tiers \cup {None}] /\ vetted \in SUBSET Keys BY DEF PolicyInit
    <3>6. QED BY <3>1, <3>2, <3>4, <3>5 DEF PolicyTypes
  <2>4. Forms /\ Todos BY <1>4, <1>5 DEF Forms, Form, Todos, Execs
  <2>5. QED BY <2>1, <2>2, <2>3, <2>4 DEF BaseInv, TypeOK
<1>7. Clashes /\ Wholes /\ ReadsCurrent
  BY <1>4, <1>5 DEF Clashes, Wholes, Whole, ReadsCurrent, Mutators
<1>8. Strays /\ Claims BY <1>5 DEF Strays, Claims
<1>9. Sounds
  <2>1. SUFFICES ASSUME NEW b \in Backends, NEW k \in Keys, <<b, k>> \in sound PROVE Agrees(objects[b][k], truth[k])
    BY DEF Sounds
  <2>2. config.replicate \/ Present = None \/ b = "primary" BY <1>3, <2>1
  <2>3. truth[k] = Present BY <1>1
  <2>4. CASE Present = None BY <1>2, <2>3, <2>4 DEF Agrees
  <2>5. CASE Present # None
    <3>1. objects[b][k] = [data |-> Present, class |-> None, age |-> 0] BY <1>2, <2>2, <2>5
    <3>2. objects[b][k] # None
      <4>1. [data |-> Present, class |-> None, age |-> 0] \in Objects BY <2>5, ManagerAssumption DEF Objects
      <4>2. QED BY <3>1, <4>1, Constants
    <3>3. objects[b][k].data = Present BY <3>1
    <3>4. QED BY <2>3, <3>2, <3>3 DEF Agrees
  <2>6. QED BY <2>4, <2>5
<1>10. QED BY <1>6, <1>7, <1>8, <1>9 DEF StoreInv

LEMMA StoreNext == ASSUME StoreInv, [Next]_vars PROVE StoreInv'
<1>1. /\ BaseInv /\ StoreTypes /\ Forms /\ Clashes /\ Wholes /\ Strays /\ Claims /\ Sounds /\ ReadsCurrent
  BY DEF StoreInv, BaseInv, TypeOK
<1>2. BaseInv' /\ ((\E t \in Threads : StoreStep(t)) \/ AgeStep \/ StillStep) BY <1>1, NextKind
<1>3. ASSUME NEW t \in Threads, StoreStep(t) PROVE StoreInv'
  BY <1>1, <1>2, <1>3, ClashesKept, WholesKept, StraysKept, ReadsKept, SoundsKept, ClaimsKept DEF StoreInv
<1>4. QED BY <1>2, <1>3, StillKeeps

(* Every call of the manager and of the policy is in one of its forms with *)
(* data of its types, whatever the backends answer and whoever else is at  *)
(* work; where two calls for a key disturb each other, both know it; and   *)
(* the backends hold what the calls that ended without a clash left there. *)
THEOREM StoreSound == Spec => []StoreInv
<1>1. StoreInv /\ [Next]_vars => StoreInv' BY StoreNext
<1>2. PolicyInit => StoreInv BY StoreInit
<1>3. QED BY <1>1, <1>2, PTL DEF Spec

(* A retrieve answers with the data of its key, from either backend and    *)
(* while moves of it are in progress, unless it met a change of the key or *)
(* a backend that is known to have missed one (storage_manager.cpp,        *)
(* retrieve and its fallback, change_tier, copy_between_backends).         *)
THEOREM ReadsAreCurrent == Spec => []ReadsCurrent
<1>1. StoreInv => ReadsCurrent BY DEF StoreInv
<1>2. QED BY <1>1, StoreSound, PTL

(* Between the changes of a key, a backend that took part in the last of   *)
(* them holds its data, and a removal leaves no replica behind (store and  *)
(* remove, which go to the secondary after the primary).                   *)
THEOREM HoldersAreSound == Spec => []HoldersHold
<1>1. ASSUME StoreInv PROVE HoldersHold
  <2>1. SUFFICES ASSUME NEW b \in Backends, NEW k \in Keys, <<b, k>> \in sound,
                        ~(\E t \in Threads : call[t].op \in Mutators /\ call[t].key = k)
                 PROVE  IF Has(b, k) THEN objects[b][k].data = truth[k] ELSE truth[k] = None
    BY DEF HoldersHold
  <2>2. Undisturbed(b, k) BY <2>1 DEF Undisturbed, Works
  <2>3. Agrees(objects[b][k], truth[k]) BY <1>1, <2>1, <2>2 DEF StoreInv, Sounds
  <2>4. QED BY <2>3 DEF Agrees, Has
<1>2. QED BY <1>1, StoreSound, PTL

(***************************************************************************)
(* Deletions that are due.                                                 *)
(***************************************************************************)
\* what a key is vetted for, now and after a step
Allows(k) ==
  /\ ~retention.hold
  /\ objects["primary"][k] # None => objects["primary"][k].age >= retention.min
  /\ \A t \in Threads : Working(t, k) => Removes(call[t])

Allowed(k) ==
  /\ ~retention'.hold
  /\ objects'["primary"][k] # None => objects'["primary"][k].age >= retention'.min
  /\ \A t \in Threads : Works(call'[t]) /\ call'[t].key = k => Removes(call'[t])

LEMMA AllowsStill ==
  ASSUME NEW k \in Keys, Allows(k), UNCHANGED <<objects, call, retention>> PROVE Allowed(k)
BY DEF Allows, Allowed, Working

LEMMA AllowsStep ==
  ASSUME BaseInv, NEW k \in Keys, Allows(k), UNCHANGED retention, NEW t \in Threads, StoreStep(t),
         Works(call'[t]) /\ call'[t].key = k => Working(t, k) \/ Removes(call'[t])
  PROVE  Allowed(k)
<1> DEFINE c == call[t]
<1>0. StoreTypes /\ Forms BY DEF BaseInv, TypeOK
<1>1. Working(t, k) => Removes(c) BY DEF Allows
<1>2. objects'["primary"][k] = objects["primary"][k] \/ objects'["primary"][k] = None
  <2>0. "primary" \in Backends BY DEF Backends
  <2>1. ASSUME NEW x, Writes(c.at, c.key, x), c.pc \in {"open", "write"}
        PROVE  objects'["primary"][k] = objects["primary"][k]
    <3>1. c.key \in Keys /\ ~Idles(c) /\ Form(c, config.replicate) BY <1>0, <2>1, BusyForm DEF Busies
    <3>2. Stores(c) \/ Moves(c) \/ Copies(c) BY <2>1, <3>1 DEF Form, Retrieves, Removes
    <3>3. Works(c) BY <3>1, <3>2 DEF Works, Stores, Moves, Copies, Mutators, Execs
    <3>4. c.key # k BY <1>1, <2>1, <3>3 DEF Working, Removes
    <3>5. QED BY <2>0, <2>1, <3>4 DEF Writes
  <2>2. CASE OpenStep(t) \/ PutStep(t) BY <2>1, <2>2 DEF OpenStep, PutStep
  <2>3. CASE UnlinkStep(t)
    <3>1. PICK x : (x = None \/ x = objects[c.at][c.key]) /\ Writes(c.at, c.key, x) BY <2>3 DEF UnlinkStep
    <3>2. QED BY <2>0, <3>1 DEF Writes
  <2>4. CASE QuietStep(t) \/ EnterStep(t) \/ GetStep(t) \/ EndStep(t) BY <2>4 DEF QuietStep, EnterStep, GetStep, EndStep
  <2>5. QED BY <2>2, <2>3, <2>4 DEF StoreStep, RequestStep
<1>3. ASSUME NEW v \in Threads, Works(call'[v]), call'[v].key = k PROVE Removes(call'[v])
  <2>1. CASE v # t
    <3>1. Same(call[v], call'[v])
      BY <2>1 DEF StoreStep, RequestStep, QuietStep, EnterStep, OpenStep, PutStep, GetStep, UnlinkStep, EndStep, Sets, Same
    <3>2. Working(v, k) BY <1>3, <3>1 DEF Same, Works, Working
    <3>3. QED BY <3>1, <3>2 DEF Allows, Same, Removes
  <2>2. CASE v = t
    <3>1. SUFFICES ASSUME Working(t, k) PROVE Removes(call'[t]) BY <1>3, <2>2
    <3>2. Removes(c) /\ Works(c) /\ c.key \in Keys /\ ~Idles(c) BY <1>0, <1>1, <3>1, WorksForm DEF Working
    <3>3. c.pc \in {"remove", "returned"} BY <3>2 DEF Removes
    <3>4. UnlinkStep(t) \/ EndStep(t)
      BY <3>2, <3>3 DEF StoreStep, RequestStep, QuietStep, EnterStep, OpenStep, PutStep, GetStep
    <3>5. CASE EndStep(t) BY <1>3, <2>2, <3>5, Constants DEF EndStep, Sets, Idles, Works
    <3>6. CASE UnlinkStep(t)
      <4>1. PICK d \in Calls, fine \in BOOLEAN : Unlinks(c, fine, d) /\ Sets(t, d) BY <3>6 DEF UnlinkStep
      <4>2. d.op = c.op /\ d.class = c.class /\ d.pc \in {"remove", "returned"} BY <3>6, <4>1 DEF UnlinkStep, Unlinks, Request
      <4>3. QED BY <3>2, <4>1, <4>2 DEF Sets, Removes
    <3>7. QED BY <3>4, <3>5, <3>6
  <2>3. QED BY <2>1, <2>2
<1>4. QED BY <1>2, <1>3 DEF Allows, Allowed

\* a call of the manager that begins is made by a thread that was idle, and takes its key back
LEMMA ManagerBegins ==
  ASSUME BaseInv, NEW t \in Threads, ManagerCall(t), NEW k \in Keys, Works(call'[t]), call'[t].key = k, ~Working(t, k)
  PROVE  due'[k] = None /\ k \notin vetted'
<1>0. StoreTypes /\ Forms /\ CountTypes /\ PolicyTypes BY DEF BaseInv, TypeOK
<1>1. StoreStep(t) BY <1>0, ManagerKind DEF ManagerCall
<1>2. ~Idles(call'[t]) BY Constants DEF Idles, Works
<1>3. Idles(call[t])
  <2>1. SUFFICES ASSUME ~Idles(call[t]) PROVE FALSE OBVIOUS
  <2>2. ~QuietStep(t) /\ ~EnterStep(t) /\ ~EndStep(t) BY <1>2, <2>1 DEF QuietStep, EnterStep, EndStep, Sets
  <2>3. RequestStep(t) BY <1>1, <2>2 DEF StoreStep
  <2>4. Goes(t) BY <1>0, <2>3, RequestGoes
  <2>5. QED BY <1>2, <2>4 DEF Goes, Works, Working
<1>4. call[t].pc = "idle"
  <2>1. call[t].pc \notin Busies BY <1>3 DEF Idles
  <2>2. ~BackendStep(t) /\ ~Return(t)
    BY <2>1 DEF BackendStep, PutToCloud, OpenFile, RefuseFile, WriteFile, Get, Unlink, Return, At, Busies
  <2>3. ~SetInitialized(t) /\ ~SetShutDown(t)
    BY <1>0, <1>2, NoCallForm DEF SetInitialized, SetShutDown, StoreTypes
  <2>4. QED BY <2>2, <2>3 DEF ManagerCall, ManagerStep, Connect, Disconnect, Store, Retrieve, RemoveObject, ChangeTier,
                              CopyBetweenBackends, Begin, At
<1>5. due' = [due EXCEPT ![k] = None] /\ vetted' = vetted \ {k} BY <1>4 DEF ManagerCall, At, Works
<1>6. QED BY <1>0, <1>5 DEF PolicyTypes

LEMMA VettedNew ==
  ASSUME BaseInv, NEW t \in Threads, NEW m \in work[t].metas, EvaluateObject(t, m), m.key \in vetted', m.key \notin vetted
  PROVE  Allows(m.key)
<1>0. StoreTypes /\ Forms /\ PolicyTypes BY DEF BaseInv, TypeOK
<1> DEFINE a == Recommended(m)
<1>1. /\ IsDue(a, m) /\ a.action = "delete_obj" /\ Has("primary", m.key) /\ objects["primary"][m.key].age = m.age
      /\ ~Busy(t, m.key)
  BY DEF EvaluateObject
<1>2. m \in Metadatas BY <1>0 DEF PolicyTypes
<1>3. m.age \in Nat /\ retention.min \in Nat
  <2>1. MaxAge \in Nat BY ManagerAssumption
  <2>2. m.age \in 0..MaxAge /\ retention.min \in 0..MaxAge BY <1>0, <1>2 DEF PolicyTypes, Metadatas, RetentionType
  <2>3. QED BY <2>1, <2>2
<1>4. ~retention.hold /\ m.age >= retention.min BY <1>1, <1>3 DEF IsDue, Blocked
<1>5. Idles(call[t]) BY <1>0, IdlesAt DEF EvaluateObject, At, Busies
<1>6. \A u \in Threads : ~Working(u, m.key) BY <1>1, <1>5, Constants DEF Busy, Working, Works, Idles
<1>7. QED BY <1>1, <1>4, <1>6 DEF Allows

LEMMA AllowsAge ==
  ASSUME BaseInv, NEW k \in Keys, Allows(k), TimePasses PROVE Allowed(k)
<1>0. StoreTypes /\ PolicyTypes BY DEF BaseInv, TypeOK
<1>1. "primary" \in Backends /\ MaxAge \in Nat BY ManagerAssumption DEF Backends
<1>2. objects'["primary"][k] = IF Has("primary", k) THEN Older(objects["primary"][k]) ELSE None
  BY <1>1 DEF TimePasses
<1>3. retention' = retention /\ call' = call BY DEF TimePasses
<1>4. objects'["primary"][k] # None => objects'["primary"][k].age >= retention.min
  <2>1. SUFFICES ASSUME objects'["primary"][k] # None PROVE objects'["primary"][k].age >= retention.min OBVIOUS
  <2> DEFINE x == objects["primary"][k]
  <2>2. Has("primary", k) /\ x # None BY <1>2, <2>1 DEF Has
  <2>3. x \in Objects BY <1>0, <1>1, <2>2 DEF StoreTypes
  <2>4. x.age \in 0..MaxAge /\ retention.min \in 0..MaxAge BY <1>0, <2>3 DEF Objects, PolicyTypes, RetentionType
  <2>5. x.age >= retention.min BY <2>2 DEF Allows
  <2>6. Older(x).age >= x.age BY <1>1, <2>3, <2>4 DEF Older, Objects
  <2>7. Older(x).age \in 0..MaxAge BY <1>1, <2>3, <2>4 DEF Older, Objects
  <2> HIDE DEF x
  <2>8. QED BY <1>1, <1>2, <2>2, <2>4, <2>5, <2>6, <2>7 DEF x
<1>5. QED BY <1>3, <1>4 DEF Allows, Allowed, Working

LEMMA VettedKept == ASSUME BaseInv, Vetted, [Next]_vars PROVE Vetted'
<1>0. StoreTypes /\ Forms /\ CountTypes /\ PolicyTypes BY DEF BaseInv, TypeOK
<1>1. BaseInv' BY NextKind
<1> SUFFICES ASSUME NEW k \in Keys, k \in vetted' PROVE Allowed(k)
  BY <1>1 DEF Vetted, Allowed, Working, BaseInv, TypeOK, PolicyTypes
<1>3. k \in vetted => Allows(k) BY DEF Vetted, Allows
<1>4. ASSUME NEW t \in Threads, QuietStep(t), UNCHANGED retention, Allows(k) PROVE Allowed(k)
  <2>1. ~Works(call'[t]) BY <1>4, Constants DEF QuietStep, Sets, Idles, Works
  <2>2. StoreStep(t) BY <1>4 DEF StoreStep
  <2>3. QED BY <1>4, <2>1, <2>2, AllowsStep
<1>5. ASSUME NEW t \in Threads, ManagerCall(t) PROVE Allowed(k)
  <2>1. StoreStep(t) /\ UNCHANGED retention BY <1>0, <1>5, ManagerKind DEF ManagerCall
  <2>2. k \in vetted BY <1>5 DEF ManagerCall
  <2>3. ASSUME Works(call'[t]), call'[t].key = k, ~Working(t, k) PROVE FALSE BY <1>5, <2>3, ManagerBegins
  <2>4. QED BY <1>3, <2>1, <2>2, <2>3, AllowsStep
<1>6. ASSUME NEW t \in Threads, PolicyStep(t) PROVE Allowed(k)
  <2>1. ASSUME NEW j \in Keys, NEW op \in {"evaluate", "execute"}, Evaluate(t, j, op) PROVE Allowed(k)
    <3>1. UNCHANGED <<retention, vetted>> BY <2>1 DEF Evaluate, BeginWork
    <3>2. QED BY <1>3, <1>4, <2>1, <3>1, EvaluateKind
  <2>2. ASSUME NEW prefix \in SUBSET Keys, EvaluateAll(t, prefix) PROVE Allowed(k)
    <3>1. UNCHANGED <<retention, vetted>> BY <2>2 DEF EvaluateAll, BeginWork
    <3>2. QED BY <1>3, <1>4, <2>2, <3>1, EvaluateAllKind
  <2>3. ASSUME NEW m \in work[t].metas, EvaluateObject(t, m) PROVE Allowed(k)
    <3>1. UNCHANGED retention /\ (k = m.key \/ k \in vetted) BY <2>3 DEF EvaluateObject
    <3>2. Allows(k) BY <1>3, <2>3, <3>1, VettedNew
    <3>3. CASE QuietStep(t) BY <1>4, <3>1, <3>2, <3>3
    <3>4. CASE StillStep BY <3>1, <3>2, <3>4, AllowsStill DEF StillStep
    <3>5. QED BY <2>3, <3>3, <3>4, EvaluateObjectKind
  <2>4. CASE ExecutePending(t)
    <3>1. UNCHANGED <<retention, vetted>> BY <2>4 DEF ExecutePending, TakePending
    <3>2. QED BY <1>3, <1>4, <2>4, <3>1, ExecutePendingKind
  <2>5. CASE ActionFails(t)
    <3>1. UNCHANGED <<retention, vetted>> BY <2>5 DEF ActionFails
    <3>2. QED BY <1>3, <1>4, <2>5, <3>1, ActionFailsKind
  <2>6. CASE DryRun(t)
    <3>1. UNCHANGED <<retention, vetted>> BY <2>6 DEF DryRun
    <3>2. QED BY <1>3, <1>4, <2>6, <3>1, DryRunKind
  <2>7. CASE CarryOut(t)
    <3> DEFINE a == ActionOf(t)
    <3>1. StoreStep(t) /\ UNCHANGED retention BY <2>7, CarryOutKind DEF CarryOut, StoreStep
    <3>2. call[t].pc = "act" /\ Idles(call[t]) BY <1>0, <2>7, IdlesAt DEF CarryOut, Found, At, Busies
    <3>3. a.key \in Keys /\ a.target \in Tiers /\ call[t].op \in Execs
      BY <3>2, ActHead DEF BaseInv, TypeOK, Idles
    <3>4. CASE a.action = "delete_obj"
      <4>1. Enter(t, RemoveCall(call[t].op, a.key)) /\ k \in vetted BY <2>7, <3>4 DEF CarryOut, RemoveCall
      <4>2. PICK c : c = RemoveCall(call[t].op, a.key) OBVIOUS
      <4>3. c \in Calls /\ Removes(c) BY <3>3, <4>2, RemoveForm DEF Execs
      <4>4. Same(c, call'[t]) BY <1>0, <4>1, <4>2, <4>3, EnterEffect
      <4>5. Removes(call'[t]) BY <4>3, <4>4 DEF Same, Removes
      <4>6. QED BY <1>3, <3>1, <4>1, <4>5, AllowsStep
    <3>5. CASE a.action # "delete_obj"
      <4>1. Enter(t, Moving(call[t].op, a.key, a.target)) /\ k \in vetted /\ k # a.key BY <2>7, <3>5 DEF CarryOut
      <4>2. PICK c : c = Moving(call[t].op, a.key, a.target) OBVIOUS
      <4>3. c \in Calls /\ c.key = a.key BY <3>3, <4>2, MoveForm DEF Execs
      <4>4. Same(c, call'[t]) BY <1>0, <4>1, <4>2, <4>3, EnterEffect
      <4>5. call'[t].key # k BY <4>1, <4>3, <4>4 DEF Same
      <4>6. QED BY <1>3, <3>1, <4>1, <4>5, AllowsStep
    <3>6. QED BY <3>4, <3>5
  <2>8. CASE ActionReturns(t)
    <3>1. UNCHANGED <<retention, vetted>> BY <2>8 DEF ActionReturns
    <3>2. EndStep(t) BY <2>8, ActionReturnsKind
    <3>3. ~Works(call'[t]) BY <3>2, Constants DEF EndStep, Sets, Idles, Works
    <3>4. QED BY <1>3, <3>1, <3>2, <3>3, AllowsStep DEF StoreStep
  <2>9. QED BY <1>6, <2>1, <2>2, <2>3, <2>4, <2>5, <2>6, <2>7, <2>8 DEF PolicyStep
<1>7. CASE ChangeRules BY <1>3, <1>7, AllowsStill DEF ChangeRules
<1>8. CASE SetRetention BY <1>8 DEF SetRetention
<1>9. CASE TimePasses BY <1>3, <1>9, AllowsAge DEF TimePasses
<1>10. CASE UNCHANGED vars BY <1>3, <1>10, AllowsStill DEF vars, managerVars, policyVars
<1>11. QED BY <1>5, <1>6, <1>7, <1>8, <1>9, <1>10 DEF Next

(* The policy carries out no deletion that can_delete would refuse, though *)
(* execute_pending does not ask the retention again: the two agree, and    *)
(* what is due and protected by neither stays so until it is rewritten.    *)
THEOREM ProtectedAreKept == Spec => []ProtectedStays
<1>1. ASSUME BaseInv, Vetted PROVE ProtectedStays
  <2>1. SUFFICES ASSUME NEW t \in Threads, call[t].key \in vetted, call[t].key \in Keys PROVE CanDelete(call[t].key)
    BY <1>1 DEF ProtectedStays, BaseInv, TypeOK, PolicyTypes
  <2>2. QED BY <1>1, <2>1 DEF Vetted, CanDelete, Has
<1>2. BaseInv /\ Vetted /\ [Next]_vars => BaseInv' /\ Vetted' BY NextKind, VettedKept
<1>3. PolicyInit => BaseInv /\ Vetted BY StoreInit DEF StoreInv, Vetted, PolicyInit
<1>4. QED BY <1>1, <1>2, <1>3, PTL DEF Spec

(***************************************************************************)
(* The last action for a key.                                              *)
(***************************************************************************)
LEMMA KeysOfAppend ==
  ASSUME NEW s \in Seq(ActionRecords), NEW a \in ActionRecords, NEW k, NEW x
  PROVE  /\ HasKey(Append(s, a), k) <=> HasKey(s, k) \/ a.key = k
         /\ a.key # k /\ Ends(s, k, x) => Ends(Append(s, a), k, x)
         /\ a.key = k /\ a.action # "delete_obj" => Ends(Append(s, a), k, a.target)
<1> DEFINE r == Append(s, a)
<1>1. Len(s) \in Nat /\ Len(r) = Len(s) + 1 /\ r[Len(s) + 1] = a /\ \A i \in 1..Len(s) : r[i] = s[i] OBVIOUS
<1> HIDE DEF r
<1>2. HasKey(r, k) <=> HasKey(s, k) \/ a.key = k BY <1>1 DEF HasKey
<1>3. a.key # k /\ Ends(s, k, x) => Ends(r, k, x) BY <1>1 DEF Ends
<1>4. a.key = k /\ a.action # "delete_obj" => Ends(r, k, a.target) BY <1>1 DEF Ends
<1>5. QED BY <1>2, <1>3, <1>4 DEF r

LEMMA KeysOfTail ==
  ASSUME NEW s \in Seq(ActionRecords), s # <<>>, NEW k, NEW x
  PROVE  /\ HasKey(s, k) <=> Head(s).key = k \/ HasKey(Tail(s), k)
         /\ Ends(s, k, x) /\ HasKey(Tail(s), k) => Ends(Tail(s), k, x)
         /\ Ends(s, k, x) /\ ~HasKey(Tail(s), k) =>
              Head(s).key = k /\ Head(s).action # "delete_obj" /\ Head(s).target = x
<1> DEFINE r == Tail(s)
<1> DEFINE h == Head(s)
<1> DEFINE n == Len(s)
<1>1. n \in Nat \ {0} /\ Len(r) = n - 1 /\ h = s[1] /\ \A i \in 1..(n - 1) : r[i] = s[i + 1] OBVIOUS
<1> HIDE DEF r, h
<1>2. HasKey(s, k) <=> h.key = k \/ HasKey(r, k)
  <2>1. HasKey(s, k) => h.key = k \/ HasKey(r, k)
    <3>1. SUFFICES ASSUME NEW i \in 1..n, s[i].key = k, h.key # k PROVE HasKey(r, k) BY DEF HasKey
    <3>2. i # 1 /\ i - 1 \in 1..(n - 1) BY <1>1, <3>1
    <3>3. r[i - 1] = s[i] BY <1>1, <3>2
    <3>4. QED BY <1>1, <3>1, <3>2, <3>3 DEF HasKey
  <2>2. HasKey(r, k) => HasKey(s, k)
    <3>1. SUFFICES ASSUME NEW i \in 1..(n - 1), r[i].key = k PROVE HasKey(s, k) BY <1>1 DEF HasKey
    <3>2. i + 1 \in 1..n /\ s[i + 1].key = k BY <1>1, <3>1
    <3>3. QED BY <3>2 DEF HasKey
  <2>3. h.key = k => HasKey(s, k) BY <1>1 DEF HasKey
  <2>4. QED BY <2>1, <2>2, <2>3
<1>3. ASSUME Ends(s, k, x)
      PROVE  /\ HasKey(r, k) => Ends(r, k, x)
             /\ ~HasKey(r, k) => h.key = k /\ h.action # "delete_obj" /\ h.target = x
  <2>1. PICK i \in 1..n : /\ s[i].key = k /\ s[i].action # "delete_obj" /\ s[i].target = x
                          /\ \A j \in 1..n : j > i => s[j].key # k
    BY <1>3 DEF Ends
  <2>2. CASE i = 1
    <3>1. \A j \in 1..(n - 1) : r[j].key # k
      <4>1. SUFFICES ASSUME NEW j \in 1..(n - 1) PROVE r[j].key # k OBVIOUS
      <4>2. j + 1 \in 1..n /\ j + 1 > 1 /\ r[j] = s[j + 1] BY <1>1
      <4>3. QED BY <2>1, <2>2, <4>2
    <3>2. ~HasKey(r, k) BY <1>1, <3>1 DEF HasKey
    <3>3. QED BY <1>1, <2>1, <2>2, <3>2
  <2>3. CASE i # 1
    <3>1. i - 1 \in 1..(n - 1) /\ r[i - 1] = s[i] BY <1>1, <2>3
    <3>2. \A j \in 1..(n - 1) : j > i - 1 => r[j].key # k
      <4>1. SUFFICES ASSUME NEW j \in 1..(n - 1), j > i - 1 PROVE r[j].key # k OBVIOUS
      <4>2. j + 1 \in 1..n /\ j + 1 > i /\ r[j] = s[j + 1] BY <1>1, <4>1
      <4>3. QED BY <2>1, <4>2
    <3>3. Ends(r, k, x) BY <1>1, <2>1, <3>1, <3>2 DEF Ends
    <3>4. HasKey(r, k) BY <1>1, <2>1, <3>1 DEF HasKey
    <3>5. QED BY <3>3, <3>4
  <2>4. QED BY <2>2, <2>3
<1>4. QED BY <1>2, <1>3 DEF r, h

LEMMA KeysOfOne == ASSUME NEW a, NEW k PROVE HasKey(<<a>>, k) <=> a.key = k
BY DEF HasKey

LEMMA KeysOfNone == ASSUME NEW s, s = <<>>, NEW k PROVE ~HasKey(s, k) /\ \A x : ~Ends(s, k, x)
BY DEF HasKey, Ends

LEMMA EndsHas == ASSUME NEW s, NEW k, NEW x, Ends(s, k, x) PROVE HasKey(s, k)
BY DEF HasKey, Ends

(***************************************************************************)
(* What a thread has taken on.                                             *)
(***************************************************************************)
LEMMA RequestKeeps ==
  ASSUME StoreTypes, NEW t \in Threads, RequestStep(t)
  PROVE  /\ call'[t].op = call[t].op /\ call'[t].key = call[t].key /\ call'[t].class = call[t].class
         /\ call'[t].pc \in Busies /\ (call'[t].pc = "write" => Local(call'[t].at))
         /\ \A u \in Threads \ {t} : Same(call[u], call'[u])
<1>1. CASE OpenStep(t) BY <1>1 DEF OpenStep, Request, Sets, Same, Busies
<1>2. CASE PutStep(t) BY <1>2 DEF PutStep, PutEnds, Request, Sets, Same, Busies
<1>3. CASE GetStep(t) BY <1>3 DEF GetStep, Misses, Gets, Request, Same, Busies
<1>4. CASE UnlinkStep(t) BY <1>4 DEF UnlinkStep, Unlinks, Request, Sets, Same, Busies
<1>5. QED BY <1>1, <1>2, <1>3, <1>4 DEF RequestStep

LEMMA OthersSame ==
  ASSUME NEW t \in Threads, StoreStep(t) PROVE UNCHANGED config /\ \A u \in Threads \ {t} : Same(call[u], call'[u])
BY DEF StoreStep, RequestStep, QuietStep, EnterStep, OpenStep, PutStep, GetStep, UnlinkStep, EndStep, Sets, Same, Told

\* a thread that has taken actions on makes no call of its own
LEMMA TakenRequests ==
  ASSUME BaseInv, Tasks, NEW t \in Threads, ManagerStep(t), work[t].todo # <<>> PROVE RequestStep(t)
<1>1. call[t].op \in Execs /\ call[t].pc \in Busies \cup {"act"} BY DEF Tasks
<1>2. BackendStep(t)
  BY <1>1 DEF ManagerStep, Connect, SetInitialized, Disconnect, SetShutDown, Store, Retrieve, RemoveObject, ChangeTier,
              CopyBetweenBackends, Begin, Return, At, Busies, Execs
<1>3. QED
  BY <1>2, PutToCloudKind, OpenFileKind, RefuseFileKind, WriteFileKind, GetKind, UnlinkKind
  DEF BackendStep, RequestStep, BaseInv, TypeOK

LEMMA GoOnTasks ==
  ASSUME StoreTypes, PolicyTypes, Todos, NEW t \in Threads, NEW todo \in Seq(ActionRecords), GoOn(t, todo),
         todo # <<>> => call[t].op \in Execs
  PROVE  /\ work'[t].todo = todo /\ \A u \in Threads \ {t} : work'[u].todo = work[u].todo /\ call'[u] = call[u]
         /\ Idles(call'[t]) /\ (todo # <<>> => call'[t].op \in Execs /\ call'[t].pc = "act")
<1> DEFINE d == IF todo = <<>> THEN NoCall ELSE [NoCall EXCEPT !.op = call[t].op, !.pc = "act"]
<1> DEFINE w == [metas |-> {}, todo |-> todo]
<1>1. call[t] \in Calls /\ call[t].op \in Ops BY DEF StoreTypes, Calls
<1>2. "act" \in Pcs /\ "act" \notin Busies BY DEF Pcs, Busies
<1>3. d \in Calls /\ Idles(d) BY <1>1, <1>2, NoCallForm, IdleForm
<1>4. call' = [call EXCEPT ![t] = d] /\ work' = [work EXCEPT ![t] = w] BY DEF GoOn
<1>5. todo # <<>> => d.op = call[t].op /\ d.pc = "act" BY DEF NoCall
<1>6. w.todo = todo OBVIOUS
<1> HIDE DEF d, w
<1>7. call'[t] = d /\ \A u \in Threads \ {t} : call'[u] = call[u] BY <1>4 DEF StoreTypes
<1>8. work'[t] = w /\ \A u \in Threads \ {t} : work'[u] = work[u] BY <1>4 DEF PolicyTypes
<1>9. QED BY <1>3, <1>5, <1>6, <1>7, <1>8

TaskAt(v) ==
  /\ work'[v].todo # <<>> => call'[v].op \in Execs /\ call'[v].pc \in Busies \cup {"act"}
  /\ Works(call'[v]) /\ call'[v].op \in Execs => call'[v].key = Head(work'[v].todo).key
  /\ call'[v].pc = "write" => Local(call'[v].at)

LEMMA TasksFrom == ASSUME UNCHANGED config, \A v \in Threads : TaskAt(v) PROVE Tasks'
BY DEF Tasks, TaskAt, Local

LEMMA TaskStays ==
  ASSUME Tasks, NEW v \in Threads, Same(call[v], call'[v]), work'[v].todo = work[v].todo PROVE TaskAt(v)
BY DEF Tasks, TaskAt, Same, Works

\* a thread that is not in a backend
LEMMA TaskIdle ==
  ASSUME NEW v \in Threads, Idles(call'[v]), work'[v].todo # <<>> => call'[v].op \in Execs /\ call'[v].pc = "act"
  PROVE  TaskAt(v)
BY Constants DEF TaskAt, Idles, Works, Busies

LEMMA TasksManager ==
  ASSUME BaseInv, Tasks, NEW t \in Threads, ManagerCall(t) PROVE Tasks'
<1>0. StoreTypes /\ Forms /\ CountTypes /\ Todos BY DEF BaseInv, TypeOK
<1>1. ManagerStep(t) /\ UNCHANGED work BY DEF ManagerCall
<1>2. StoreStep(t) /\ Follows(t) BY <1>0, <1>1, ManagerKind
<1>3. UNCHANGED config /\ \A u \in Threads \ {t} : Same(call[u], call'[u]) BY <1>2, OthersSame
<1>4. ASSUME NEW v \in Threads \ {t} PROVE TaskAt(v) BY <1>1, <1>3, TaskStays
<1>5. TaskAt(t)
  <2>1. CASE work[t].todo # <<>>
    <3>1. RequestStep(t) BY <1>1, <2>1, TakenRequests
    <3>2. /\ call'[t].op = call[t].op /\ call'[t].key = call[t].key /\ call'[t].pc \in Busies
          /\ call'[t].pc = "write" => Local(call'[t].at)
      BY <1>0, <3>1, RequestKeeps
    <3>3. QED BY <1>1, <2>1, <3>2 DEF Tasks, TaskAt, Works
  <2>2. CASE work[t].todo = <<>>
    <3>1. ~(call'[t].op \in Execs /\ Works(call'[t]))
      <4>1. SUFFICES ASSUME call'[t].op \in Execs PROVE FALSE OBVIOUS
      <4>2. call[t].op \in Execs /\ call[t].pc # "evaluate" BY <1>2, <4>1 DEF Follows
      <4>3. QED BY <1>0, <2>2, <4>2 DEF Todos
    <3>2. call'[t].pc = "write" => Local(call'[t].at)
      <4>1. CASE RequestStep(t) BY <1>0, <4>1, RequestKeeps
      <4>2. CASE QuietStep(t) \/ EndStep(t) BY <4>2 DEF QuietStep, EndStep, Sets, Idles, Busies
      <4>3. CASE EnterStep(t) BY <4>3 DEF EnterStep, Begins, Same
      <4>4. QED BY <1>2, <4>1, <4>2, <4>3 DEF StoreStep
    <3>3. QED BY <1>1, <2>2, <3>1, <3>2 DEF TaskAt
  <2>3. QED BY <2>1, <2>2
<1>6. QED BY <1>3, <1>4, <1>5, TasksFrom

LEMMA BeginTasks ==
  ASSUME BaseInv, Tasks, NEW t \in Threads, NEW op \in {"evaluate", "execute"}, NEW metas \in SUBSET Metadatas,
         BeginWork(t, op, metas)
  PROVE  /\ work[t].todo = <<>> /\ (\A u \in Threads : work'[u].todo = work[u].todo)
         /\ UNCHANGED <<pending, due, config, objects>> /\ StoreStep(t) /\ Idles(call[t]) /\ Idles(call'[t])
<1>1. StoreTypes /\ PolicyTypes /\ Forms BY DEF BaseInv, TypeOK
<1>2. work' = [work EXCEPT ![t].metas = metas] BY DEF BeginWork
<1>3. \A u \in Threads : work'[u].todo = work[u].todo BY <1>1, <1>2 DEF PolicyTypes
<1>4. work[t].todo = <<>> BY DEF Tasks, BeginWork, At, Busies
<1>5. QuietStep(t) BY BeginWorkKind
<1>6. QED BY <1>3, <1>4, <1>5 DEF BeginWork, QuietStep, Sets, StoreStep

\* Evaluate, EvaluateAll
LEMMA Begun ==
  ASSUME BaseInv, Tasks, NEW t \in Threads,
         (\E k \in Keys, op \in {"evaluate", "execute"} : Evaluate(t, k, op)) \/ (\E prefix \in SUBSET Keys : EvaluateAll(t, prefix))
  PROVE  /\ work[t].todo = <<>> /\ (\A u \in Threads : work'[u].todo = work[u].todo)
         /\ UNCHANGED <<pending, due, config, objects>> /\ StoreStep(t) /\ Idles(call[t]) /\ Idles(call'[t])
<1>0. StoreTypes BY DEF BaseInv, TypeOK
<1>1. ASSUME NEW k \in Keys, NEW op \in {"evaluate", "execute"}, Evaluate(t, k, op)
      PROVE  \E metas \in SUBSET Metadatas : BeginWork(t, op, metas)
  <2>1. PICK b \in Backends : GetMetadata(k, b) /\ BeginWork(t, op, {Metadata(b, k)}) BY <1>1 DEF Evaluate
  <2>2. Has(b, k)
    <3>1. b \in Knowing(k) BY <2>1, Constants DEF GetMetadata
    <3>2. QED BY <3>1 DEF Knowing
  <2>3. {Metadata(b, k)} \in SUBSET Metadatas BY <1>0, <2>2, MetadataType
  <2>4. QED BY <2>1, <2>3
<1>2. ASSUME NEW prefix \in SUBSET Keys, EvaluateAll(t, prefix)
      PROVE  \E metas \in SUBSET Metadatas : BeginWork(t, "evaluate", metas)
  <2>1. PICK lost \in SUBSET Backends : BeginWork(t, "evaluate", Listing(lost, prefix))
    BY <1>2 DEF EvaluateAll
  <2>2. Listing(lost, prefix) \in SUBSET Metadatas BY <1>0, ListingType
  <2>3. QED BY <2>1, <2>2
<1>3. PICK op \in {"evaluate", "execute"}, metas \in SUBSET Metadatas : BeginWork(t, op, metas) BY <1>1, <1>2
<1>4. QED BY <1>3, BeginTasks

\* the evaluation of an object by t, which had taken nothing on
LEMMA Evaluated ==
  ASSUME BaseInv, Tasks, NEW t \in Threads, NEW m \in work[t].metas, EvaluateObject(t, m), NEW a, a = Recommended(m)
  PROVE  /\ a \in ActionRecords /\ a.key = m.key /\ m.key \in Keys
         /\ UNCHANGED <<config, objects>> /\ Idles(call[t]) /\ Idles(call'[t]) /\ work[t].todo = <<>>
         /\ \A u \in Threads \ {t} : Same(call[u], call'[u]) /\ work'[u].todo = work[u].todo
         /\ work'[t].todo = <<>> \/ (IsDue(a, m) /\ work'[t].todo = <<a>> /\ call'[t].op \in Execs /\ call'[t].pc = "act")
         /\ IF IsDue(a, m)
            THEN /\ pending' = Append(pending, a)
                 /\ due'[m.key] \in {None, a.target} /\ (a.action = "delete_obj" => due'[m.key] = None)
                 /\ \A k \in Keys : k # m.key => due'[k] = due[k]
            ELSE UNCHANGED <<pending, due>>
<1>0. StoreTypes /\ PolicyTypes /\ Forms /\ Todos BY DEF BaseInv, TypeOK
<1>1. m \in Metadatas /\ m.key \in Keys BY <1>0 DEF PolicyTypes, Metadatas
<1>2. a \in ActionRecords /\ a.key = m.key BY <1>0, <1>1, RecommendedType
<1>3. call[t].pc = "evaluate" /\ Idles(call[t]) BY <1>0, IdlesAt DEF EvaluateObject, At, Busies
<1>4. work[t].todo = <<>> BY <1>3 DEF Tasks, Busies
<1>5. UNCHANGED <<config, objects>> BY DEF EvaluateObject
<1>6. /\ IF IsDue(a, m)
         THEN /\ pending' = Append(pending, a)
              /\ due' = [due EXCEPT ![m.key] =
                   IF a.action # "delete_obj" /\ (Executing(t) => Alone(t)) THEN a.target ELSE None]
         ELSE UNCHANGED <<pending, due>>
      /\ IF call[t].op = "execute"
         THEN GoOn(t, IF IsDue(a, m) THEN <<a>> ELSE <<>>)
         ELSE IF work[t].metas = {m} THEN GoOn(t, <<>>)
         ELSE work' = [work EXCEPT ![t].metas = @ \ {m}] /\ UNCHANGED call
  BY DEF EvaluateObject
<1>7. IF IsDue(a, m)
      THEN /\ pending' = Append(pending, a)
           /\ due'[m.key] \in {None, a.target} /\ (a.action = "delete_obj" => due'[m.key] = None)
           /\ \A k \in Keys : k # m.key => due'[k] = due[k]
      ELSE UNCHANGED <<pending, due>>
  BY <1>0, <1>1, <1>6 DEF PolicyTypes
<1>8. <<a>> \in Seq(ActionRecords) /\ <<>> \in Seq(ActionRecords) /\ <<a>> # <<>> BY <1>2
<1>9. ASSUME NEW todo \in Seq(ActionRecords), GoOn(t, todo), todo = <<>> \/ (IsDue(a, m) /\ todo = <<a>> /\ call[t].op \in Execs)
      PROVE  /\ Idles(call'[t]) /\ \A u \in Threads \ {t} : Same(call[u], call'[u]) /\ work'[u].todo = work[u].todo
             /\ work'[t].todo = <<>> \/ (IsDue(a, m) /\ work'[t].todo = <<a>> /\ call'[t].op \in Execs /\ call'[t].pc = "act")
  BY <1>0, <1>8, <1>9, GoOnTasks DEF Same
<1>10. /\ Idles(call'[t]) /\ \A u \in Threads \ {t} : Same(call[u], call'[u]) /\ work'[u].todo = work[u].todo
       /\ work'[t].todo = <<>> \/ (IsDue(a, m) /\ work'[t].todo = <<a>> /\ call'[t].op \in Execs /\ call'[t].pc = "act")
  <2>1. CASE call[t].op = "execute" /\ IsDue(a, m)
    <3>1. GoOn(t, <<a>>) /\ call[t].op \in Execs BY <1>6, <2>1 DEF Execs
    <3>2. QED BY <1>8, <1>9, <2>1, <3>1
  <2>2. CASE call[t].op = "execute" /\ ~IsDue(a, m)
    <3>1. GoOn(t, <<>>) BY <1>6, <2>2
    <3>2. QED BY <1>8, <1>9, <3>1
  <2>3. CASE call[t].op # "execute" /\ work[t].metas = {m}
    <3>1. GoOn(t, <<>>) BY <1>6, <2>3
    <3>2. QED BY <1>8, <1>9, <3>1
  <2>4. CASE call[t].op # "execute" /\ work[t].metas # {m}
    <3>1. work' = [work EXCEPT ![t].metas = @ \ {m}] /\ UNCHANGED call BY <1>6, <2>4
    <3>2. \A u \in Threads : work'[u].todo = work[u].todo BY <1>0, <3>1 DEF PolicyTypes
    <3>3. QED BY <1>3, <1>4, <3>1, <3>2 DEF Same
  <2>5. QED BY <2>1, <2>2, <2>3, <2>4
<1>11. QED BY <1>1, <1>2, <1>3, <1>4, <1>5, <1>7, <1>10

\* t takes every pending action on, having taken on none
LEMMA Taken ==
  ASSUME BaseInv, Tasks, NEW t \in Threads, ExecutePending(t)
  PROVE  /\ work[t].todo = <<>> /\ work'[t].todo = pending /\ pending' = <<>>
         /\ Idles(call[t]) /\ Idles(call'[t]) /\ call'[t].op \in Execs /\ call'[t].pc = "act"
         /\ \A u \in Threads \ {t} : Same(call[u], call'[u]) /\ work'[u].todo = work[u].todo
         /\ UNCHANGED <<config, objects>> /\ \A k \in Keys : due'[k] # None => due'[k] = due[k] /\ Alone(t)
<1>0. StoreTypes /\ PolicyTypes /\ Forms BY DEF BaseInv, TypeOK
<1>1. QuietStep(t) /\ StoreStep(t) BY ExecutePendingKind DEF StoreStep
<1>2. /\ call' = [call EXCEPT ![t] = [NoCall EXCEPT !.op = "execute_pending", !.pc = "act"]]
      /\ work' = [work EXCEPT ![t].todo = pending] /\ pending' = <<>> /\ call[t].pc = "idle"
      /\ due' = [k \in Keys |-> IF Alone(t) THEN due[k] ELSE None] /\ UNCHANGED <<config, objects>>
  BY DEF ExecutePending, TakePending, At
<1>3. call'[t].op = "execute_pending" /\ call'[t].pc = "act" BY <1>0, <1>2 DEF StoreTypes, NoCall
<1>4. work'[t].todo = pending /\ \A u \in Threads \ {t} : work'[u].todo = work[u].todo BY <1>0, <1>2 DEF PolicyTypes
<1>5. work[t].todo = <<>> BY <1>2 DEF Tasks, Busies
<1>6. Idles(call[t]) /\ Idles(call'[t]) BY <1>1 DEF QuietStep, Sets
<1>7. \A u \in Threads \ {t} : Same(call[u], call'[u]) BY <1>1, OthersSame
<1>8. \A k \in Keys : due'[k] # None => due'[k] = due[k] /\ Alone(t) BY <1>2
<1>9. QED BY <1>2, <1>3, <1>4, <1>5, <1>6, <1>7, <1>8 DEF Execs

\* t is done with its first action, or has given it up
LEMMA Advanced ==
  ASSUME BaseInv, Tasks, NEW t \in Threads, ActionFails(t) \/ DryRun(t) \/ ActionReturns(t)
  PROVE  /\ work[t].todo \in Seq(ActionRecords) /\ work[t].todo # <<>> /\ work'[t].todo = Tail(work[t].todo)
         /\ Idles(call'[t]) /\ (work'[t].todo # <<>> => call'[t].op \in Execs /\ call'[t].pc = "act")
         /\ \A u \in Threads \ {t} : Same(call[u], call'[u]) /\ work'[u].todo = work[u].todo
         /\ UNCHANGED <<config, objects, pending>>
<1>0. StoreTypes /\ PolicyTypes /\ Forms /\ Todos BY DEF BaseInv, TypeOK
<1>1. /\ GoOn(t, Tail(work[t].todo)) /\ UNCHANGED <<config, objects, pending>>
      /\ call[t].pc = "act" \/ (call[t].pc = "returned" /\ call[t].op \in Execs)
  BY DEF ActionFails, DryRun, ActionReturns, Found, At, Executing, Execs
<1>2. work[t].todo \in Seq(ActionRecords) /\ work[t].todo # <<>> BY <1>0, <1>1 DEF Todos, PolicyTypes
<1>3. call[t].op \in Execs BY <1>2 DEF Tasks
<1>4. Tail(work[t].todo) \in Seq(ActionRecords) BY <1>2
<1>5. /\ work'[t].todo = Tail(work[t].todo)
      /\ \A u \in Threads \ {t} : work'[u].todo = work[u].todo /\ call'[u] = call[u]
      /\ Idles(call'[t]) /\ (Tail(work[t].todo) # <<>> => call'[t].op \in Execs /\ call'[t].pc = "act")
  BY <1>0, <1>1, <1>3, <1>4, GoOnTasks
<1>6. QED BY <1>1, <1>2, <1>5 DEF Same

\* t begins with its first action
LEMMA Carried ==
  ASSUME BaseInv, Tasks, NEW t \in Threads, CarryOut(t)
  PROVE  /\ work[t].todo \in Seq(ActionRecords) /\ work[t].todo # <<>> /\ UNCHANGED <<config, objects, pending, work>>
         /\ Idles(call[t]) /\ call'[t].op \in Execs /\ call'[t].key = Head(work[t].todo).key
         /\ call'[t].pc \in {"get", "remove"} /\ call'[t].key \in Keys
         /\ Head(work[t].todo).action # "delete_obj" => call'[t].class = ClassOf[Head(work[t].todo).target]
         /\ \A u \in Threads \ {t} : Same(call[u], call'[u])
         /\ \A k \in Keys : due'[k] # None => due'[k] = due[k] /\ (k = call'[t].key => ~Busy(t, k))
<1>0. StoreTypes /\ PolicyTypes /\ Forms /\ Todos BY DEF BaseInv, TypeOK
<1> DEFINE a == ActionOf(t)
<1>1. call[t].pc = "act" /\ Idles(call[t]) BY <1>0, IdlesAt DEF CarryOut, Found, At, Busies
<1>2. a.key \in Keys /\ a.target \in Tiers /\ call[t].op \in Execs BY <1>0, <1>1, ActHead DEF Idles
<1>3. work[t].todo \in Seq(ActionRecords) /\ work[t].todo # <<>> BY <1>0, <1>1 DEF Todos, PolicyTypes
<1>4. /\ IF a.action = "delete_obj" THEN Enter(t, RemoveCall(call[t].op, a.key)) ELSE Enter(t, Moving(call[t].op, a.key, a.target))
      /\ due' = IF Busy(t, a.key) THEN [due EXCEPT ![a.key] = None] ELSE due
      /\ UNCHANGED <<config, objects, pending, work>>
  BY DEF CarryOut, RemoveCall
<1>5. /\ call'[t].op \in Execs /\ call'[t].key = a.key /\ call'[t].pc \in {"get", "remove"}
      /\ a.action # "delete_obj" => call'[t].class = ClassOf[a.target]
  <2>1. CASE a.action = "delete_obj"
    <3>1. PICK c : c = RemoveCall(call[t].op, a.key) OBVIOUS
    <3>2. c \in Calls /\ c.op \in Execs /\ c.key = a.key /\ c.pc = "remove" BY <1>2, <3>1, RemoveForm DEF Execs
    <3>3. Same(c, call'[t]) BY <1>0, <1>4, <2>1, <3>1, <3>2, EnterEffect
    <3>4. QED BY <2>1, <3>2, <3>3 DEF Same
  <2>2. CASE a.action # "delete_obj"
    <3>1. PICK c : c = Moving(call[t].op, a.key, a.target) OBVIOUS
    <3>2. c \in Calls /\ c.op \in Execs /\ c.key = a.key /\ c.pc = "get" BY <1>2, <3>1, MoveForm DEF Execs
    <3>3. c.class = ClassOf[a.target] BY <3>1 DEF Moving, NoCall
    <3>4. Same(c, call'[t]) BY <1>0, <1>4, <2>2, <3>1, <3>2, EnterEffect
    <3>5. QED BY <3>2, <3>3, <3>4 DEF Same
  <2>3. QED BY <2>1, <2>2
<1>6. \A u \in Threads \ {t} : Same(call[u], call'[u]) BY CarryOutKind, OthersSame DEF StoreStep
<1> HIDE DEF a
<1>7. \A k \in Keys : due'[k] # None => due'[k] = due[k] /\ (k = a.key => ~Busy(t, k)) BY <1>0, <1>2, <1>4 DEF PolicyTypes
<1>8. QED BY <1>1, <1>2, <1>3, <1>4, <1>5, <1>6, <1>7 DEF a, ActionOf

LEMMA TasksKept == ASSUME BaseInv, Tasks, [Next]_vars PROVE Tasks'
<1>1. ASSUME NEW t \in Threads, ManagerCall(t) PROVE Tasks' BY <1>1, TasksManager
<1>2. ASSUME NEW t \in Threads, UNCHANGED config, TaskAt(t),
             \A u \in Threads \ {t} : Same(call[u], call'[u]) /\ work'[u].todo = work[u].todo
      PROVE  Tasks'
  <2>1. \A u \in Threads \ {t} : TaskAt(u) BY <1>2, TaskStays
  <2>2. QED BY <1>2, <2>1, TasksFrom
<1>3. ASSUME NEW t \in Threads, PolicyStep(t) PROVE Tasks'
  <2>1. CASE (\E k \in Keys, op \in {"evaluate", "execute"} : Evaluate(t, k, op)) \/ (\E prefix \in SUBSET Keys : EvaluateAll(t, prefix))
    <3>1. /\ work[t].todo = <<>> /\ (\A u \in Threads : work'[u].todo = work[u].todo) /\ UNCHANGED config
          /\ StoreStep(t) /\ Idles(call'[t])
      BY <2>1, Begun
    <3>2. TaskAt(t) BY <3>1, TaskIdle
    <3>3. QED BY <1>2, <3>1, <3>2, OthersSame
  <2>2. ASSUME NEW m \in work[t].metas, EvaluateObject(t, m) PROVE Tasks'
    <3>1. PICK a : a = Recommended(m) OBVIOUS
    <3>2. /\ Idles(call'[t]) /\ UNCHANGED config
          /\ \A u \in Threads \ {t} : Same(call[u], call'[u]) /\ work'[u].todo = work[u].todo
          /\ work'[t].todo = <<>> \/ (call'[t].op \in Execs /\ call'[t].pc = "act")
      BY <2>2, <3>1, Evaluated
    <3>3. TaskAt(t) BY <3>2, TaskIdle
    <3>4. QED BY <1>2, <3>2, <3>3
  <2>3. CASE ExecutePending(t)
    <3>1. TaskAt(t) BY <2>3, Taken, TaskIdle
    <3>2. QED BY <1>2, <2>3, <3>1, Taken
  <2>4. CASE ActionFails(t) \/ DryRun(t) \/ ActionReturns(t)
    <3>1. TaskAt(t) BY <2>4, Advanced, TaskIdle
    <3>2. QED BY <1>2, <2>4, <3>1, Advanced
  <2>5. CASE CarryOut(t)
    <3>1. /\ UNCHANGED <<config, work>> /\ call'[t].op \in Execs /\ call'[t].key = Head(work[t].todo).key
          /\ call'[t].pc \in {"get", "remove"} /\ \A u \in Threads \ {t} : Same(call[u], call'[u])
      BY <2>5, Carried
    <3>2. TaskAt(t) BY <3>1 DEF TaskAt, Busies
    <3>3. QED BY <1>2, <3>1, <3>2
  <2>6. QED BY <1>3, <2>1, <2>2, <2>3, <2>4, <2>5 DEF PolicyStep
<1>4. CASE UNCHANGED <<config, call, work>>
  <2>1. \A v \in Threads : TaskAt(v) BY <1>4, TaskStays DEF Same
  <2>2. QED BY <1>4, <2>1, TasksFrom
<1>5. ChangeRules \/ SetRetention \/ TimePasses \/ UNCHANGED vars => UNCHANGED <<config, call, work>>
  BY DEF ChangeRules, SetRetention, TimePasses, vars, managerVars, policyVars
<1>6. QED BY <1>1, <1>3, <1>4, <1>5 DEF Next

(***************************************************************************)
(* Tiers that are due, after a step.                                       *)
(***************************************************************************)
Comes(t, k) ==
  /\ Ends(work'[t].todo, k, due'[k])
  /\ \A u \in Threads \ {t} : ~HasKey(work'[u].todo, k)
  /\ Works(call'[t]) /\ call'[t].key = k /\ call'[t].op \in Execs /\ ~HasKey(Tail(work'[t].todo), k) =>
       /\ \A u \in Threads \ {t} : ~(Works(call'[u]) /\ call'[u].key = k)
       /\ call'[t].class = ClassOf[due'[k]]
       /\ Moved(call'[t]) => Fits(objects'["primary"][k], due'[k])

Arrives(k) ==
  /\ \A t \in Threads : ~HasKey(work'[t].todo, k) /\ ~(Works(call'[t]) /\ call'[t].key = k)
  /\ Fits(objects'["primary"][k], due'[k])

DueThen(k) ==
  due'[k] # None =>
    IF HasKey(pending', k) THEN Ends(pending', k, due'[k]) ELSE Arrives(k) \/ \E t \in Threads : Comes(t, k)

LEMMA DuesFrom ==
  ASSUME UNCHANGED config, ~Local("primary") /\ ~config.dry => \A k \in Keys : DueThen(k) PROVE Dues'
BY DEF Dues, DueAt, DueThen, Coming, Comes, Arrived, Arrives, Working, Local

\* nobody does anything
LEMMA DueStill ==
  ASSUME NEW k \in Keys, DueAt(k), UNCHANGED <<call, work, pending, due>>,
         Fits(objects["primary"][k], due[k]) => Fits(objects'["primary"][k], due[k])
  PROVE  DueThen(k)
<1>1. ASSUME NEW t \in Threads, Coming(t, k) PROVE Comes(t, k) BY <1>1 DEF Coming, Comes, Working
<1>2. Arrived(k) => Arrives(k) BY DEF Arrived, Arrives, Working
<1>3. QED BY <1>1, <1>2 DEF DueAt, DueThen

\* t does something, though not to k
LEMMA DueFrame ==
  ASSUME NEW t \in Threads, NEW k \in Keys, DueAt(k), due'[k] \in {None, due[k]},
         Fits(objects["primary"][k], due[k]) => Fits(objects'["primary"][k], due[k]),
         HasKey(pending', k) <=> HasKey(pending, k), Ends(pending, k, due[k]) => Ends(pending', k, due[k]),
         \A u \in Threads \ {t} : Same(call[u], call'[u]) /\ work'[u].todo = work[u].todo,
         ~(Works(call'[t]) /\ call'[t].key = k),
         HasKey(work'[t].todo, k) => HasKey(work[t].todo, k),
         Ends(work[t].todo, k, due[k]) => Ends(work'[t].todo, k, due[k])
  PROVE  DueThen(k)
<1> SUFFICES ASSUME due'[k] # None PROVE DueThen(k) BY DEF DueThen
<1>0. due'[k] = due[k] OBVIOUS
<1>1. \A u \in Threads \ {t} : (Works(call'[u]) <=> Works(call[u])) /\ call'[u].key = call[u].key /\ call'[u].op = call[u].op
                              /\ call'[u].class = call[u].class /\ (Moved(call'[u]) <=> Moved(call[u]))
  BY DEF Same, Works, Moved
<1>2. ASSUME Coming(t, k) PROVE Comes(t, k) BY <1>0, <1>2 DEF Coming, Comes
<1>3. ASSUME NEW v \in Threads \ {t}, Coming(v, k) PROVE Comes(v, k)
  <2>1. Ends(work'[v].todo, k, due'[k]) BY <1>0, <1>3 DEF Coming
  <2>2. \A u \in Threads \ {v} : ~HasKey(work'[u].todo, k) BY <1>3 DEF Coming
  <2>3. ASSUME Works(call'[v]), call'[v].key = k, call'[v].op \in Execs, ~HasKey(Tail(work'[v].todo), k)
        PROVE  /\ \A u \in Threads \ {v} : ~(Works(call'[u]) /\ call'[u].key = k)
               /\ call'[v].class = ClassOf[due'[k]]
               /\ Moved(call'[v]) => Fits(objects'["primary"][k], due'[k])
    <3>1. Working(v, k) /\ call[v].op \in Execs /\ ~HasKey(Tail(work[v].todo), k) BY <1>1, <1>3, <2>3 DEF Working
    <3>2. /\ \A u \in Threads \ {v} : ~Working(u, k)
          /\ call[v].class = ClassOf[due[k]] /\ (Moved(call[v]) => Fits(objects["primary"][k], due[k]))
      BY <1>3, <3>1 DEF Coming
    <3>3. QED BY <1>0, <1>1, <1>3, <3>2 DEF Working
  <2>4. QED BY <2>1, <2>2, <2>3 DEF Comes
<1>4. Arrived(k) => Arrives(k) BY <1>0, <1>1 DEF Arrived, Arrives, Working
<1>5. QED BY <1>0, <1>2, <1>3, <1>4 DEF DueAt, DueThen

(***************************************************************************)
(* A move in progress.                                                     *)
(***************************************************************************)
\* what a move has stored in a cloud is in its class
LEMMA CloudPut ==
  ASSUME BaseInv, NEW t \in Threads, PutToCloud(t), call[t].at = "primary", Moved(call'[t])
  PROVE  objects'["primary"][call[t].key].class = call[t].class
<1>0. StoreTypes /\ Forms BY DEF BaseInv, TypeOK
<1> DEFINE c == call[t]
<1>1. c.pc = "open" /\ c \in Calls /\ c.key \in Keys /\ c.at \in Backends /\ c.data # None
  BY <1>0, BusyForm DEF PutToCloud, At, Busies
<1>2. PICK ok \in BOOLEAN, done \in BOOLEAN :
        /\ ok => done
        /\ objects' = IF done THEN [objects EXCEPT ![c.at][c.key] = Written(c)] ELSE objects
        /\ call' = [call EXCEPT ![t] = AfterPut(After(c, "put", ok), ok)]
  BY DEF PutToCloud
<1>2a. ~Local(c.at) BY DEF PutToCloud
<1>3. PICK d : d = AfterPut(After(c, "put", ok), ok) OBVIOUS
<1> HIDE DEF c
<1>4. d \in Calls /\ PutEnds(c, ok, ok, d, config.replicate) BY <1>0, <1>1, <1>3, PutEndsType
<1>5. call'[t] = d BY <1>0, <1>2, <1>3 DEF StoreTypes
<1>6. ok BY <1>4, <1>5 DEF PutEnds, Moved, c
<1>7. Written(c) \in Objects BY <1>0, <1>1, WrittenType
<1>8. Writes(c.at, c.key, Written(c)) BY <1>0, <1>1, <1>2, <1>6, <1>7, SetObject
<1>9. Written(c).class = c.class BY <1>2a DEF Written
<1>10. QED BY <1>8, <1>9 DEF Writes, c

\* a step of a move, in a primary that is a cloud
LEMMA MoveGoes ==
  ASSUME BaseInv, Tasks, NEW t \in Threads, ManagerStep(t), RequestStep(t), Works(call[t]), call[t].op \in Execs,
         NEW x \in Tiers, call[t].class = ClassOf[x], ~Local("primary"),
         Moved(call[t]) => Fits(objects["primary"][call[t].key], x), Moved(call'[t])
  PROVE  Fits(objects'["primary"][call[t].key], x)
<1>0. StoreTypes /\ Forms BY DEF BaseInv, TypeOK
<1> DEFINE c == call[t]
<1>1. c \in Calls /\ c.key \in Keys /\ c.at \in Backends /\ Moves(c)
  BY <1>0, WorksForm, ClassesOf DEF Removes, Stores, Copies, Execs
<1>2. "primary" \in Backends BY DEF Backends
<1>3. CASE c.pc = "get"
  <2>1. GetStep(t) BY <1>3 DEF RequestStep, OpenStep, PutStep, UnlinkStep
  <2>2. ~Moved(call'[t]) BY <1>1, <2>1 DEF GetStep, Misses, Gets, Same, Moved, Moves, Execs, Request
  <2>3. QED BY <2>2
<1>4. CASE c.pc \in {"open", "write"} /\ c.at = "secondary"
  <2>1. Fits(objects["primary"][c.key], x) BY <1>4 DEF Moved
  <2>2. OpenStep(t) \/ PutStep(t) BY <1>4 DEF RequestStep, GetStep, UnlinkStep
  <2>3. objects'["primary"][c.key] = objects["primary"][c.key] BY <1>1, <1>2, <1>4, <2>2 DEF OpenStep, PutStep, Writes
  <2>4. QED BY <2>1, <2>3
<1>5. CASE c.pc \in {"open", "write"} /\ c.at = "primary"
  <2>1. c.pc = "open" /\ ~Local(c.at) BY <1>5 DEF Tasks
  <2>2. PutToCloud(t)
    <3>1. BackendStep(t)
      BY <2>1 DEF ManagerStep, Connect, SetInitialized, Disconnect, SetShutDown, Store, Retrieve, RemoveObject, ChangeTier,
                  CopyBetweenBackends, Begin, Return, At
    <3>2. QED BY <2>1, <3>1 DEF BackendStep, OpenFile, RefuseFile, WriteFile, Get, Unlink, At
  <2>3. objects'["primary"][c.key].class = ClassOf[x] BY <1>5, <2>2, CloudPut
  <2>4. TierOf(ClassOf[x]) = x BY DEF TierOf, TierOfClass, ClassOf, Tiers
  <2>5. QED BY <2>3, <2>4 DEF Fits
<1>6. c.pc \in {"get", "open", "write"}
  <2>1. c.pc # "returned" BY DEF RequestStep, OpenStep, PutStep, GetStep, UnlinkStep
  <2>2. QED BY <1>1, <2>1 DEF Moves
<1>7. QED BY <1>1, <1>3, <1>4, <1>5, <1>6 DEF Backends

(***************************************************************************)
(* Tiers that are due stay so.                                             *)
(***************************************************************************)
\* a step of the manager writes to a key its thread works on, if it writes at all
LEMMA WritesOwn ==
  ASSUME BaseInv, NEW t \in Threads, StoreStep(t), NEW k \in Keys, NEW x,
         ~(Works(call'[t]) /\ call'[t].key = k), Fits(objects["primary"][k], x)
  PROVE  Fits(objects'["primary"][k], x)
<1> DEFINE c == call[t]
<1>0. StoreTypes /\ Forms BY DEF BaseInv, TypeOK
<1>1. "primary" \in Backends BY DEF Backends
<1>2. ASSUME NEW y, Writes(c.at, c.key, y), c.pc \in {"open", "write"}, RequestStep(t)
      PROVE  objects'["primary"][k] = objects["primary"][k]
  <2>1. c.key \in Keys /\ ~Idles(c) /\ Form(c, config.replicate) BY <1>0, <1>2, BusyForm DEF Busies
  <2>2. Stores(c) \/ Moves(c) \/ Copies(c) BY <1>2, <2>1 DEF Form, Retrieves, Removes
  <2>3. Works(c) BY <2>1, <2>2 DEF Works, Stores, Moves, Copies, Mutators, Execs
  <2>4. Works(call'[t]) /\ call'[t].key = c.key BY <1>0, <1>2, <2>3, RequestKeeps DEF Works
  <2>5. QED BY <1>1, <1>2, <2>4 DEF Writes
<1>3. CASE OpenStep(t) \/ PutStep(t) BY <1>2, <1>3 DEF OpenStep, PutStep, RequestStep
<1>4. CASE UnlinkStep(t)
  <2>1. PICK y : (y = None \/ y = objects[c.at][c.key]) /\ Writes(c.at, c.key, y) BY <1>4 DEF UnlinkStep
  <2>2. objects'["primary"][k] = objects["primary"][k] \/ objects'["primary"][k] = None BY <1>1, <2>1 DEF Writes
  <2>3. QED BY <2>2 DEF Fits
<1>5. CASE QuietStep(t) \/ EnterStep(t) \/ GetStep(t) \/ EndStep(t) BY <1>5 DEF QuietStep, EnterStep, GetStep, EndStep
<1>6. QED BY <1>3, <1>4, <1>5 DEF StoreStep, RequestStep

LEMMA DueManager ==
  ASSUME BaseInv, Tasks, NEW t \in Threads, ManagerCall(t), NEW k \in Keys, DueAt(k), ~Local("primary") PROVE DueThen(k)
<1>0. StoreTypes /\ Forms /\ CountTypes /\ PolicyTypes BY DEF BaseInv, TypeOK
<1>1. ManagerStep(t) /\ UNCHANGED <<work, pending>> BY DEF ManagerCall
<1>2. StoreStep(t) BY <1>0, <1>1, ManagerKind
<1>3. \A u \in Threads \ {t} : Same(call[u], call'[u]) BY <1>2, OthersSame
<1>4. due'[k] \in {None, due[k]} BY <1>0 DEF ManagerCall, PolicyTypes
<1>5. CASE ~(Works(call'[t]) /\ call'[t].key = k)
  <2>1. Fits(objects["primary"][k], due[k]) => Fits(objects'["primary"][k], due[k]) BY <1>2, <1>5, WritesOwn
  <2>2. QED BY <1>1, <1>3, <1>4, <1>5, <2>1, DueFrame
<1>6. CASE Works(call'[t]) /\ call'[t].key = k
  <2>1. SUFFICES ASSUME due'[k] # None PROVE DueThen(k) BY DEF DueThen
  <2>2. due'[k] = due[k] /\ due[k] \in Tiers BY <1>0, <1>4, <2>1 DEF PolicyTypes
  <2>3. Working(t, k) BY <1>6, <2>1, ManagerBegins
  <2>4. CASE HasKey(pending, k) BY <1>1, <2>2, <2>4 DEF DueAt, DueThen
  <2>5. CASE ~HasKey(pending, k)
    <3>0. ~Arrived(k) /\ due[k] # None BY <2>2, <2>3, Constants DEF Arrived
    <3>1. PICK v \in Threads : Coming(v, k) BY <2>5, <3>0 DEF DueAt
    <3>2. Ends(work'[v].todo, k, due'[k]) /\ \A u \in Threads \ {v} : ~HasKey(work'[u].todo, k)
      BY <1>1, <2>2, <3>1 DEF Coming
    <3>3. ASSUME Works(call'[v]), call'[v].key = k, call'[v].op \in Execs, ~HasKey(Tail(work'[v].todo), k)
          PROVE  /\ \A u \in Threads \ {v} : ~(Works(call'[u]) /\ call'[u].key = k)
                 /\ call'[v].class = ClassOf[due'[k]]
                 /\ Moved(call'[v]) => Fits(objects'["primary"][k], due'[k])
      <4>1. CASE v # t
        <5>1. Working(v, k) /\ call[v].op \in Execs /\ ~HasKey(Tail(work[v].todo), k)
          BY <1>1, <1>3, <3>3, <4>1 DEF Same, Works, Working
        <5>2. QED BY <2>3, <3>1, <4>1, <5>1 DEF Coming
      <4>2. CASE v = t
        <5>1. HasKey(work[t].todo, k) BY <3>1, <4>2, EndsHas DEF Coming
        <5>2. work[t].todo # <<>> BY <5>1, KeysOfNone
        <5>3. RequestStep(t) BY <1>1, <5>2, TakenRequests
        <5>4. call'[t].op = call[t].op /\ call'[t].class = call[t].class BY <1>0, <5>3, RequestKeeps
        <5>5. /\ \A u \in Threads \ {t} : ~Working(u, k)
              /\ call[t].class = ClassOf[due[k]] /\ (Moved(call[t]) => Fits(objects["primary"][k], due[k]))
          BY <1>1, <2>3, <3>1, <3>3, <4>2, <5>4 DEF Coming
        <5>6. \A u \in Threads \ {t} : ~(Works(call'[u]) /\ call'[u].key = k)
          BY <1>3, <5>5 DEF Same, Works, Working
        <5>7. Works(call[t]) /\ call[t].key = k /\ call[t].op \in Execs BY <2>3, <3>3, <4>2, <5>4 DEF Working
        <5>8. Moved(call'[t]) => Fits(objects'["primary"][k], due[k]) BY <1>1, <2>2, <5>3, <5>5, <5>7, MoveGoes
        <5>9. QED BY <2>2, <4>2, <5>4, <5>5, <5>6, <5>8
      <4>3. QED BY <4>1, <4>2
    <3>4. Comes(v, k) BY <3>2, <3>3 DEF Comes
    <3>5. QED BY <1>1, <2>5, <3>4 DEF DueThen
  <2>6. QED BY <2>4, <2>5
<1>7. QED BY <1>5, <1>6

LEMMA DueEvaluated ==
  ASSUME BaseInv, Tasks, NEW t \in Threads, NEW m \in work[t].metas, EvaluateObject(t, m), NEW k \in Keys, DueAt(k)
  PROVE  DueThen(k)
<1>1. PICK a : a = Recommended(m) OBVIOUS
<1>2. /\ a \in ActionRecords /\ a.key = m.key /\ UNCHANGED objects /\ Idles(call'[t]) /\ work[t].todo = <<>>
      /\ \A u \in Threads \ {t} : Same(call[u], call'[u]) /\ work'[u].todo = work[u].todo
      /\ work'[t].todo = <<>> \/ (IsDue(a, m) /\ work'[t].todo = <<a>>)
      /\ IF IsDue(a, m)
         THEN /\ pending' = Append(pending, a)
              /\ due'[m.key] \in {None, a.target} /\ (a.action = "delete_obj" => due'[m.key] = None)
              /\ \A j \in Keys : j # m.key => due'[j] = due[j]
         ELSE UNCHANGED <<pending, due>>
  BY <1>1, Evaluated
<1>3. pending \in Seq(ActionRecords) BY DEF BaseInv, TypeOK, PolicyTypes
<1>4. CASE IsDue(a, m) /\ k = m.key
  <2>1. HasKey(Append(pending, a), k) /\ (a.action # "delete_obj" => Ends(Append(pending, a), k, a.target))
    BY <1>2, <1>3, <1>4, KeysOfAppend
  <2>2. QED BY <1>2, <1>4, <2>1 DEF DueThen
<1>5. CASE ~(IsDue(a, m) /\ k = m.key)
  <2>1. due'[k] = due[k] BY <1>2, <1>5
  <2>2. ~(Works(call'[t]) /\ call'[t].key = k) BY <1>2, Constants DEF Idles
  <2>3. (HasKey(pending', k) <=> HasKey(pending, k)) /\ (Ends(pending, k, due[k]) => Ends(pending', k, due[k]))
    <3>1. CASE IsDue(a, m)
      <4>1. a.key # k BY <1>2, <1>5, <3>1
      <4>2. (HasKey(Append(pending, a), k) <=> HasKey(pending, k))
            /\ (Ends(pending, k, due[k]) => Ends(Append(pending, a), k, due[k]))
        BY <1>2, <1>3, <4>1, KeysOfAppend
      <4>3. QED BY <1>2, <3>1, <4>2
    <3>2. QED BY <1>2, <3>1
  <2>4. ~HasKey(work'[t].todo, k)
    <3>1. CASE work'[t].todo = <<>> BY <3>1, KeysOfNone
    <3>2. CASE work'[t].todo = <<a>> /\ IsDue(a, m)
      <4>1. HasKey(<<a>>, k) <=> a.key = k BY KeysOfOne
      <4>2. QED BY <1>2, <1>5, <3>2, <4>1
    <3>3. QED BY <1>2, <3>1, <3>2
  <2>5. ~Ends(work[t].todo, k, due[k]) BY <1>2, KeysOfNone
  <2>6. QED BY <1>2, <2>1, <2>2, <2>3, <2>4, <2>5, DueFrame
<1>6. QED BY <1>4, <1>5

LEMMA DueTaken ==
  ASSUME BaseInv, Tasks, NEW t \in Threads, ExecutePending(t), NEW k \in Keys, DueAt(k) PROVE DueThen(k)
<1>1. /\ work[t].todo = <<>> /\ work'[t].todo = pending /\ pending' = <<>> /\ Idles(call'[t]) /\ UNCHANGED objects
      /\ \A u \in Threads \ {t} : Same(call[u], call'[u]) /\ work'[u].todo = work[u].todo
      /\ due'[k] # None => due'[k] = due[k] /\ Alone(t)
  BY Taken
<1>2. ~(Works(call'[t]) /\ call'[t].key = k) BY <1>1, Constants DEF Idles
<1>3. ~HasKey(pending', k) BY <1>1, KeysOfNone
<1>4. CASE HasKey(pending, k) /\ due'[k] # None
  <2>1. Ends(work'[t].todo, k, due'[k]) BY <1>1, <1>4 DEF DueAt
  <2>2. \A u \in Threads \ {t} : ~HasKey(work'[u].todo, k)
    <3>1. \A u \in Threads \ {t} : work[u].todo = <<>> BY <1>1, <1>4 DEF Tasks, Alone, Executing, Execs
    <3>2. QED BY <1>1, <3>1, KeysOfNone
  <2>3. Comes(t, k) BY <1>2, <2>1, <2>2 DEF Comes
  <2>4. QED BY <1>3, <2>3 DEF DueThen
<1>5. CASE ~HasKey(pending, k)
  <2>1. ~Ends(pending, k, due[k]) BY <1>5, EndsHas
  <2>1a. ~Ends(work[t].todo, k, due[k]) BY <1>1, KeysOfNone
  <2>2. ~HasKey(work'[t].todo, k) BY <1>1, <1>5
  <2>3. QED BY <1>1, <1>2, <1>3, <1>5, <2>1, <2>1a, <2>2, DueFrame
<1>6. QED BY <1>4, <1>5 DEF DueThen

LEMMA DueAdvanced ==
  ASSUME BaseInv, Tasks, NEW t \in Threads, ActionFails(t) \/ ActionReturns(t), NEW k \in Keys, DueAt(k) PROVE DueThen(k)
<1>0. StoreTypes /\ Forms /\ PolicyTypes BY DEF BaseInv, TypeOK
<1> DEFINE s == work[t].todo
<1>1. /\ s \in Seq(ActionRecords) /\ s # <<>> /\ work'[t].todo = Tail(s) /\ Idles(call'[t]) /\ UNCHANGED <<objects, pending>>
      /\ \A u \in Threads \ {t} : Same(call[u], call'[u]) /\ work'[u].todo = work[u].todo
  BY Advanced
<1>2. ~(Works(call'[t]) /\ call'[t].key = k) BY <1>1, Constants DEF Idles
<1> HIDE DEF s
<1>3. /\ HasKey(s, k) <=> Head(s).key = k \/ HasKey(Tail(s), k)
      /\ Ends(s, k, due[k]) /\ HasKey(Tail(s), k) => Ends(Tail(s), k, due[k])
      /\ Ends(s, k, due[k]) /\ ~HasKey(Tail(s), k) => Head(s).key = k
  BY <1>1, KeysOfTail
<1>4. due'[k] \in {None, due[k]} BY <1>0 DEF ActionFails, ActionReturns, PolicyTypes
<1>5. CASE Head(s).key # k BY <1>1, <1>2, <1>3, <1>4, <1>5, DueFrame DEF s
<1>6. CASE Head(s).key = k
  <2>1. SUFFICES ASSUME due'[k] # None PROVE DueThen(k) BY DEF DueThen
  <2>2. due'[k] = due[k] BY <1>4, <2>1
  <2>3. ~ActionFails(t) BY <1>0, <1>6, <2>1 DEF ActionFails, ActionOf, PolicyTypes, s
  <2>4. call[t].pc = "returned" /\ call[t].op \in Execs BY <2>3 DEF ActionReturns, At, Executing, Execs
  <2>5. Working(t, k)
    <3>1. call[t].key \in Keys BY <1>0, <2>4, BusyForm DEF Busies
    <3>2. Works(call[t]) BY <2>4, <3>1 DEF Works, Execs, Mutators
    <3>3. QED BY <1>6, <2>4, <3>2 DEF Tasks, Working, s
  <2>6. call[t].ok BY <1>0, <2>1, <2>3, <2>5 DEF ActionReturns, PolicyTypes, Working
  <2>7. CASE HasKey(pending, k) BY <1>1, <2>2, <2>7 DEF DueAt, DueThen
  <2>8. CASE ~HasKey(pending, k)
    <3>1. Coming(t, k)
      <4>1. PICK v \in Threads : Coming(v, k) BY <2>1, <2>2, <2>5, <2>8 DEF DueAt, Arrived
      <4>2. HasKey(work[t].todo, k) BY <1>3, <1>6 DEF s
      <4>3. QED BY <4>1, <4>2 DEF Coming
    <3>2. Ends(s, k, due[k]) /\ \A u \in Threads \ {t} : ~HasKey(work'[u].todo, k) BY <1>1, <3>1 DEF Coming, s
    <3>3. CASE HasKey(Tail(s), k)
      <4>1. Comes(t, k) BY <1>1, <1>2, <1>3, <2>2, <3>2, <3>3 DEF Comes
      <4>2. QED BY <1>1, <2>8, <4>1 DEF DueThen
    <3>4. CASE ~HasKey(Tail(s), k)
      <4>1. (\A u \in Threads \ {t} : ~Working(u, k)) /\ Fits(objects["primary"][k], due[k])
        BY <2>4, <2>5, <2>6, <3>1, <3>4 DEF Coming, Moved, s
      <4>2. \A u \in Threads \ {t} : ~(Works(call'[u]) /\ call'[u].key = k)
        BY <1>1, <4>1 DEF Same, Works, Working
      <4>3. Arrives(k) BY <1>1, <1>2, <2>2, <3>2, <3>4, <4>1, <4>2 DEF Arrives
      <4>4. QED BY <1>1, <2>8, <4>3 DEF DueThen
    <3>5. QED BY <3>3, <3>4
  <2>9. QED BY <2>7, <2>8
<1>7. QED BY <1>5, <1>6

LEMMA DueCarried ==
  ASSUME BaseInv, Tasks, NEW t \in Threads, CarryOut(t), NEW k \in Keys, DueAt(k) PROVE DueThen(k)
<1>0. StoreTypes /\ PolicyTypes BY DEF BaseInv, TypeOK
<1> DEFINE s == work[t].todo
<1> DEFINE d == call'[t]
<1>1. /\ s \in Seq(ActionRecords) /\ s # <<>> /\ UNCHANGED <<objects, pending, work>> /\ d.key = Head(s).key
      /\ d.pc \in {"get", "remove"} /\ (Head(s).action # "delete_obj" => d.class = ClassOf[Head(s).target])
      /\ \A u \in Threads \ {t} : Same(call[u], call'[u])
      /\ due'[k] # None => due'[k] = due[k] /\ (k = d.key => ~Busy(t, k))
  BY Carried
<1> HIDE DEF s, d
<1> SUFFICES ASSUME due'[k] # None PROVE DueThen(k) BY DEF DueThen
<1>2. due'[k] = due[k] BY <1>1
<1>3. CASE d.key # k BY <1>1, <1>2, <1>3, DueFrame DEF s, d
<1>4. CASE d.key = k
  <2>1. CASE HasKey(pending, k) BY <1>1, <1>2, <2>1 DEF DueAt, DueThen
  <2>2. CASE ~HasKey(pending, k)
    <3>1. /\ HasKey(s, k)
          /\ Ends(s, k, due[k]) /\ ~HasKey(Tail(s), k) => Head(s).action # "delete_obj" /\ Head(s).target = due[k]
      BY <1>1, <1>4, KeysOfTail
    <3>2. Coming(t, k)
      <4>1. PICK v \in Threads : Coming(v, k) BY <1>2, <2>2, <3>1 DEF DueAt, Arrived, s
      <4>2. QED BY <3>1, <4>1 DEF Coming, s
    <3>3. Ends(s, k, due[k]) BY <3>2 DEF Coming, s
    <3>4. \A u \in Threads \ {t} : ~(Works(call'[u]) /\ call'[u].key = k)
      BY <1>1, <1>4 DEF Busy, Same, Works
    <3>5. ~Moved(d) BY <1>1 DEF Moved
    <3>6. ~HasKey(Tail(s), k) => d.class = ClassOf[due'[k]] BY <1>1, <1>2, <3>1, <3>3
    <3>7. Comes(t, k) BY <1>1, <1>2, <3>2, <3>3, <3>4, <3>5, <3>6 DEF Coming, Comes, s, d
    <3>8. QED BY <1>1, <2>2, <3>7 DEF DueThen
  <2>3. QED BY <2>1, <2>2
<1>5. QED BY <1>3, <1>4

LEMMA DuesKept == ASSUME BaseInv, Tasks, Dues, [Next]_vars PROVE Dues'
<1>0. StoreTypes /\ Forms /\ CountTypes /\ PolicyTypes BY DEF BaseInv, TypeOK
<1>1. UNCHANGED config
  <2>1. ASSUME NEW t \in Threads, ManagerCall(t) PROVE UNCHANGED config
    BY <1>0, <2>1, ManagerKind, OthersSame DEF ManagerCall
  <2>2. ASSUME NEW t \in Threads, PolicyStep(t) PROVE UNCHANGED config
    BY <2>2 DEF PolicyStep, Evaluate, EvaluateAll, BeginWork, EvaluateObject, ExecutePending, TakePending, ActionFails, DryRun,
                CarryOut, ActionReturns
  <2>3. QED BY <2>1, <2>2 DEF Next, ChangeRules, SetRetention, TimePasses, vars, managerVars
<1> SUFFICES ASSUME ~Local("primary"), ~config.dry, NEW k \in Keys PROVE DueThen(k) BY <1>1, DuesFrom
<1>2. DueAt(k) BY DEF Dues
<1>3. ASSUME NEW t \in Threads, ManagerCall(t) PROVE DueThen(k) BY <1>2, <1>3, DueManager
<1>4. ASSUME NEW t \in Threads, PolicyStep(t) PROVE DueThen(k)
  <2>1. CASE (\E j \in Keys, op \in {"evaluate", "execute"} : Evaluate(t, j, op)) \/ (\E prefix \in SUBSET Keys : EvaluateAll(t, prefix))
    <3>1. /\ (\A u \in Threads : work'[u].todo = work[u].todo)
          /\ UNCHANGED <<pending, due, objects>> /\ StoreStep(t) /\ Idles(call'[t])
      BY <2>1, Begun
    <3>2. ~(Works(call'[t]) /\ call'[t].key = k) BY <3>1, Constants DEF Idles
    <3>3. \A u \in Threads \ {t} : Same(call[u], call'[u]) BY <3>1, OthersSame
    <3>4. QED BY <1>2, <3>1, <3>2, <3>3, DueFrame
  <2>2. ASSUME NEW m \in work[t].metas, EvaluateObject(t, m) PROVE DueThen(k) BY <1>2, <2>2, DueEvaluated
  <2>3. CASE ExecutePending(t) BY <1>2, <2>3, DueTaken
  <2>4. CASE ActionFails(t) \/ ActionReturns(t) BY <1>2, <2>4, DueAdvanced
  <2>5. ~DryRun(t) BY DEF DryRun
  <2>6. CASE CarryOut(t) BY <1>2, <2>6, DueCarried
  <2>7. QED BY <1>4, <2>1, <2>2, <2>3, <2>4, <2>5, <2>6 DEF PolicyStep
<1>5. CASE ChangeRules \/ SetRetention \/ UNCHANGED vars
  <2>1. UNCHANGED <<objects, call, work, pending, due>> BY <1>5 DEF ChangeRules, SetRetention, vars, managerVars, policyVars
  <2>2. QED BY <1>2, <2>1, DueStill
<1>6. CASE TimePasses
  <2>1. UNCHANGED <<call, work, pending, due>> /\ "primary" \in Backends BY <1>6 DEF TimePasses, Backends
  <2>2. objects'["primary"][k] = IF Has("primary", k) THEN Older(objects["primary"][k]) ELSE None BY <1>6, <2>1 DEF TimePasses
  <2>3. Has("primary", k) => Older(objects["primary"][k]).class = objects["primary"][k].class
    <3>1. Has("primary", k) => objects["primary"][k] \in Objects BY <1>0, <2>1 DEF StoreTypes, Has
    <3>2. QED BY <3>1 DEF Older, Objects
  <2>4. Fits(objects["primary"][k], due[k]) => Fits(objects'["primary"][k], due[k]) BY <2>2, <2>3 DEF Fits, Has
  <2>5. QED BY <1>2, <2>1, <2>4, DueStill
<1>7. QED BY <1>3, <1>4, <1>5, <1>6 DEF Next

(* Once everything that was pending is executed, an object in a cloud is   *)
(* in the tier its last evaluation asked for: the pending actions of a key *)
(* and those a thread has taken on end in the move that is due, and that   *)
(* move, when nobody else touches the key, leaves the object in its class. *)
THEOREM TiersFollow == Spec => []TierFollows
<1>1. ASSUME BaseInv, Tasks, Dues PROVE TierFollows
  <2>1. SUFFICES ASSUME NEW k \in Keys, pending = <<>>, \A t \in Threads : call[t] = NoCall,
                        ~Local("primary"), ~config.dry, Has("primary", k), due[k] # None
                 PROVE  due[k] = TierOf(objects["primary"][k].class)
    BY DEF TierFollows
  <2>2. \A t \in Threads : work[t].todo = <<>> BY <1>1, <2>1 DEF Tasks, NoCall, Execs
  <2>3. ASSUME NEW t \in Threads, Coming(t, k) PROVE FALSE
    <3>1. ~Ends(work[t].todo, k, due[k]) BY <2>2, KeysOfNone
    <3>2. QED BY <2>3, <3>1 DEF Coming
  <2>4. DueAt(k) /\ ~HasKey(pending, k) BY <1>1, <2>1, KeysOfNone DEF Dues
  <2>5. Arrived(k) BY <2>1, <2>3, <2>4 DEF DueAt
  <2>6. QED BY <2>1, <2>5 DEF Arrived, Fits, Has
<1>2. BaseInv /\ Tasks /\ Dues /\ [Next]_vars => BaseInv' /\ Tasks' /\ Dues' BY NextKind, TasksKept, DuesKept
<1>3. PolicyInit => BaseInv /\ Tasks /\ Dues
  <2> SUFFICES ASSUME PolicyInit PROVE BaseInv /\ Tasks /\ Dues OBVIOUS
  <2>1. BaseInv BY StoreInit DEF StoreInv
  <2>2. \A k \in Keys : due[k] = None BY DEF PolicyInit
  <2>3. \A t \in Threads : call[t] = NoCall /\ work[t].todo = <<>> BY DEF PolicyInit, Init, NoWork
  <2>4. NoCall.pc = "idle" /\ ~Works(NoCall) BY Constants DEF NoCall, Works
  <2>5. QED BY <2>1, <2>2, <2>3, <2>4 DEF Tasks, Dues, DueAt
<1>4. QED BY <1>1, <1>2, <1>3, PTL DEF Spec

=============================================================================
