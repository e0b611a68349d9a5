---------------------- MODULE FileTransferServerProofs ----------------------
(***************************************************************************)
(* A server that is started and stopped in turns tells the truth about     *)
(* itself, for any number of threads, whatever they do with its quota      *)
(* manager meanwhile and whichever starts and stops fail; and its quota    *)
(* manager announces an excess, follows the directory and keeps within the *)
(* quota.                                                                  *)
(***************************************************************************)
EXTENDS FileTransferServer, FiniteSetTheorems, SequenceTheorems, WellFoundedInduction, TLAPS

\* Where a start or stop may be, and what is so there.
Places == {"begin", "listen", "started", "unstarted", "halt", "close", "closed", "unclosed", "forget"}
Fields == {"at", "name", "file", "then", "seen", "list"}

CallsFit ==
  /\ call = [t \in Threads |-> call[t]]
  /\ \A t \in Threads : /\ DOMAIN call[t] = Fields
                        /\ Underway(t) <=> call[t].at \in Places
                        /\ call[t].then \notin Places

AtRest     == state = (IF up THEN "running" ELSE "stopped") /\ (up => listenPort = Port)
Midway(at) ==
  /\ at \in {"begin", "forget"} => state = "stopped" /\ ~up
  /\ at \in {"listen", "unstarted", "closed"} => ~up
  /\ at \in {"listen", "started", "halt", "close", "unclosed"} => listenPort = Port
  /\ at \in {"started", "halt", "close", "unclosed"} => up
  /\ at = "halt" => state = "running"

SInv ==
  /\ CallsFit
  /\ up \in BOOLEAN
  /\ turns => /\ \A t, u \in Threads : Underway(t) /\ Underway(u) => t = u
              /\ (\A t \in Threads : ~Underway(t)) => AtRest
              /\ \A t \in Threads : Underway(t) => Midway(call[t].at)

LEMMA InitSInv == ServerInit => SInv
<1> SUFFICES ASSUME ServerInit PROVE SInv OBVIOUS
<1>1. \A t \in Threads : call[t] = Idle /\ call = [u \in Threads |-> call[u]] BY DEF ServerInit, Init
<1>2. DOMAIN Idle = Fields /\ Idle.name = None /\ Idle.at \notin Places /\ Idle.then \notin Places
  BY DEF Idle, Fields, Places
<1>3. \A t \in Threads : ~Underway(t) BY <1>1, <1>2, ConstantsAssumption DEF Underway, Lifecycle, AllCalls
<1>4. call = [u \in Threads |-> call[u]] BY DEF ServerInit, Init
<1>5. QED BY <1>1, <1>2, <1>3, <1>4 DEF SInv, CallsFit, AtRest, ServerInit

\* What the quota manager's steps do to a thread's call, and leave to others.
ManagerCall(t) ==
  /\ ~Underway(t)
  /\ \E c : /\ call' = [call EXCEPT ![t] = c]
            /\ DOMAIN c = Fields /\ c.name \notin Lifecycle /\ c.at \notin Places /\ c.then \notin Places

LEMMA GotoElsewhere ==
  ASSUME CallsFit, NEW t \in Threads, NEW at, at \notin Places, ~Underway(t), Goto(t, at)
  PROVE  ManagerCall(t)
<1> DEFINE c == [call[t] EXCEPT !.at = at]
<1>1. DOMAIN c = Fields /\ c.at = at /\ c.name = call[t].name /\ c.then = call[t].then BY DEF CallsFit, Fields
<1>2. call' = [call EXCEPT ![t] = c] BY DEF Goto
<1> HIDE DEF c
<1>3. QED BY <1>1, <1>2 DEF ManagerCall, Underway, CallsFit

LEMMA ReturnElsewhere ==
  ASSUME NEW t \in Threads, ~Underway(t), Return(t)
  PROVE  ManagerCall(t)
<1>1. DOMAIN Idle = Fields /\ Idle.name \notin Lifecycle /\ Idle.at \notin Places /\ Idle.then \notin Places
  BY ConstantsAssumption DEF Idle, Fields, Places, Lifecycle, AllCalls
<1>2. QED BY <1>1 DEF Return, ManagerCall

LEMMA ContinueElsewhere ==
  ASSUME CallsFit, NEW t \in Threads, ~Underway(t), Continue(t)
  PROVE  ManagerCall(t)
<1> DEFINE c == [[[call[t] EXCEPT !.at = call[t].then] EXCEPT !.then = "idle"] EXCEPT !.seen = None]
<1>1. DOMAIN c = Fields /\ c.at = call[t].then /\ c.name = call[t].name /\ c.then = "idle" BY DEF CallsFit, Fields
<1>2. call' = [call EXCEPT ![t] = Idle] \/ call' = [call EXCEPT ![t] = c] BY DEF Continue
<1> HIDE DEF c
<1>3. CASE call' = [call EXCEPT ![t] = c] BY <1>1, <1>3 DEF ManagerCall, Underway, CallsFit, Places
<1>4. QED BY <1>2, <1>3, ReturnElsewhere DEF Return

LEMMA EnterElsewhere ==
  ASSUME NEW t \in Threads, CallsFit, NEW name, name \notin Lifecycle, NEW where, where \notin Places, NEW file,
         NEW then, then \notin Places, Enter(t, name, where, file, then)
  PROVE  ManagerCall(t)
<1> DEFINE c == [Idle EXCEPT !.at = where, !.name = name, !.file = file, !.then = then]
<1>1. DOMAIN c = Fields /\ c.at = where /\ c.name = name /\ c.then = then BY DEF Idle, Fields
<1>2. call' = [call EXCEPT ![t] = c] /\ call[t].at = "idle" BY DEF Enter, At
<1> HIDE DEF c
<1>3. ~Underway(t) BY <1>2 DEF CallsFit, Places
<1>4. QED BY <1>1, <1>2, <1>3 DEF ManagerCall

LEMMA ManagerCalls ==
  ASSUME CallsFit, NEW t \in Threads, Step(t) \/ Call(t)
  PROVE  ManagerCall(t)
<1> DEFINE Elsewhere == call[t].at \notin Places
<1>0. Elsewhere => ~Underway(t) BY DEF CallsFit
<1>1. CASE Store(t) \/ RecordBytesAdded(t) \/ AssignUsage(t) \/ RecordBytesRemoved(t)
  <2>1. Elsewhere BY <1>1 DEF Store, RecordBytesAdded, AssignUsage, RecordBytesRemoved, At, Places
  <2>2. \E at \in {"add", "check", "uncount"} : Goto(t, at)
    BY <1>1 DEF Store, RecordBytesAdded, AssignUsage, RecordBytesRemoved
  <2>3. QED BY <1>0, <2>1, <2>2, GotoElsewhere DEF Places
<1>2. CASE RecordFileAdded(t) \/ ResetThresholdTriggers(t)
  <2>1. Elsewhere BY <1>2 DEF RecordFileAdded, ResetThresholdTriggers, At, Places
  <2>2. QED BY <1>0, <1>2, <2>1, ReturnElsewhere DEF RecordFileAdded, ResetThresholdTriggers
<1>3. CASE TellExceeded(t) \/ Warn(t) \/ RecordFileRemoved(t)
  <2>1. Elsewhere BY <1>3 DEF TellExceeded, Warn, RecordFileRemoved, At, Places
  <2>2. QED BY <1>0, <1>3, <2>1, ContinueElsewhere DEF TellExceeded, Warn, RecordFileRemoved
<1>4. CASE LookAtUsage(t) \/ ScanDirectory(t)
  <2>1. Elsewhere BY <1>4 DEF LookAtUsage, ScanDirectory, At, Places
  <2>2. PICK at, seen : /\ at \in {"exceeded", "warn", "assign"}
                        /\ call' = [call EXCEPT ![t].at = at, ![t].seen = seen]
    BY <1>4 DEF LookAtUsage, ScanDirectory
  <2> DEFINE c == [[call[t] EXCEPT !.at = at] EXCEPT !.seen = seen]
  <2>3. DOMAIN c = Fields /\ c.at = at /\ c.name = call[t].name /\ c.then = call[t].then BY DEF CallsFit, Fields
  <2>4. call' = [call EXCEPT ![t] = c] BY <2>2 DEF CallsFit
  <2> HIDE DEF c
  <2>5. QED BY <1>0, <2>1, <2>2, <2>3, <2>4 DEF ManagerCall, Underway, CallsFit, Places
<1>5. CASE ListFiles(t) \/ PickFile(t) \/ UnlinkFile(t)
  <2>1. Elsewhere BY <1>5 DEF ListFiles, PickFile, UnlinkFile, At, Places
  <2>2. CASE Return(t) BY <1>0, <2>1, <2>2, ReturnElsewhere
  <2>3. CASE ~Return(t)
    <3>1. DOMAIN call[t] = Fields /\ call[t].then \notin Places /\ t \in DOMAIN call BY DEF CallsFit
    <3>2. call'[t].at \in {"pick", "unlink", "removed"} /\ call'[t].name = call[t].name
          /\ call'[t].then \notin Places /\ DOMAIN call'[t] = Fields
      <4>1. CASE ListFiles(t) BY <3>1, <4>1 DEF ListFiles, Places, Fields
      <4>2. CASE PickFile(t) BY <2>3, <3>1, <4>2 DEF PickFile, At, Places, Fields
      <4>3. CASE UnlinkFile(t) BY <3>1, <4>3 DEF UnlinkFile, Places, Fields
      <4>4. QED BY <1>5, <4>1, <4>2, <4>3
    <3>3. call' = [call EXCEPT ![t] = call'[t]]
      BY <1>5, <2>3, <3>1 DEF ListFiles, PickFile, UnlinkFile, CallsFit
    <3>4. QED BY <1>0, <2>1, <3>2, <3>3 DEF ManagerCall, Underway, Places
  <2>4. QED BY <2>2, <2>3
<1>6. CASE Call(t)
  BY <1>6, EnterElsewhere
  DEF Call, Accept, DeleteFile, CallReset, CallRefresh, BeginCleanup, SetTotalQuota, Lifecycle, Places
<1>7. QED BY <1>1, <1>2, <1>3, <1>4, <1>5, <1>6 DEF Step

LEMMA ManagerKeepsSInv ==
  ASSUME SInv, NEW t \in Threads, ManagerCall(t), UNCHANGED serverVars
  PROVE  SInv'
<1>1. PICK c : /\ call' = [call EXCEPT ![t] = c]
               /\ DOMAIN c = Fields /\ c.name \notin Lifecycle /\ c.at \notin Places /\ c.then \notin Places
  BY DEF ManagerCall
<1>2. \A u \in Threads : call'[u] = IF u = t THEN c ELSE call[u] BY <1>1 DEF SInv, CallsFit
<1>3. CallsFit' BY <1>1, <1>2 DEF SInv, CallsFit, Underway
<1>4. \A u \in Threads : (Underway(u)' <=> Underway(u)) /\ (Underway(u) => call'[u] = call[u])
  BY <1>1, <1>2 DEF ManagerCall, Underway
<1>5. QED BY <1>3, <1>4 DEF SInv, serverVars, AtRest, Midway

-----------------------------------------------------------------------------
LEMMA BeginKeepsSInv ==
  ASSUME SInv, NEW t \in Threads,
         \/ Begins(t, "start", "stopped", "begin")
         \/ Begins(t, "stop", "running", "halt")
  PROVE  SInv'
<1>1. PICK name \in Lifecycle, where \in {"begin", "halt"} :
        /\ Enter(t, name, where, None, "idle") /\ UNCHANGED <<state, listenPort, up>>
        /\ state = IF where = "begin" THEN "stopped" ELSE "running"
        /\ turns' = (turns /\ \A u \in Threads : ~Underway(u))
  BY DEF Begins, Lifecycle
<1> DEFINE c == [Idle EXCEPT !.at = where, !.name = name, !.file = None, !.then = "idle"]
<1>2. DOMAIN c = Fields /\ c.at = where /\ c.name = name /\ c.then = "idle" BY DEF Idle, Fields
<1>3. call' = [call EXCEPT ![t] = c] BY <1>1 DEF Enter
<1> HIDE DEF c
<1>4. \A u \in Threads : call'[u] = IF u = t THEN c ELSE call[u] BY <1>3 DEF SInv, CallsFit
<1>5. CallsFit' BY <1>2, <1>3, <1>4 DEF SInv, CallsFit, Underway, Places
<1>6. ASSUME turns' PROVE Midway(where)'
  <2>1. AtRest BY <1>1, <1>6 DEF SInv
  <2>2. state = (IF where = "begin" THEN "stopped" ELSE "running") /\ UNCHANGED <<state, listenPort, up>>
    BY <1>1
  <2>3. QED BY <2>1, <2>2 DEF AtRest, Midway
<1>7. ASSUME turns' PROVE \A u \in Threads : Underway(u)' <=> u = t
  BY <1>1, <1>2, <1>4, <1>7 DEF Underway
<1>8. call'[t].at = where /\ up' \in BOOLEAN BY <1>1, <1>2, <1>4 DEF SInv
<1>9. ASSUME turns' PROVE \A u \in Threads : Underway(u)' => Midway(call[u].at)'
  BY <1>6, <1>7, <1>8, <1>9 DEF Midway
<1>10. QED BY <1>5, <1>7, <1>8, <1>9 DEF SInv

\* A start or stop goes on, or ends.
LEMMA MoveKeepsSInv ==
  ASSUME SInv, NEW t \in Threads, Underway(t), NEW c, call' = [call EXCEPT ![t] = c], DOMAIN c = Fields,
         c.name \in Lifecycle <=> c.at \in Places, c.then \notin Places, up' \in BOOLEAN, turns' = turns,
         turns /\ c.at \in Places => Midway(c.at)', turns /\ c.at \notin Places => AtRest'
  PROVE  SInv'
<1>1. \A u \in Threads : call'[u] = IF u = t THEN c ELSE call[u] BY DEF SInv, CallsFit
<1>2. CallsFit' BY <1>1 DEF SInv, CallsFit, Underway
<1>3. ASSUME turns PROVE \A u \in Threads : Underway(u)' <=> u = t /\ c.at \in Places
  BY <1>1, <1>3 DEF SInv, Underway
<1>4. ASSUME turns PROVE \A u \in Threads : Underway(u)' => Midway(call[u].at)'
  BY <1>1, <1>3, <1>4 DEF Midway
<1>5. QED BY <1>2, <1>3, <1>4 DEF SInv

LEMMA GotoKeepsSInv ==
  ASSUME SInv, NEW t \in Threads, call[t].at \in Places, NEW at \in Places, Goto(t, at), turns' = turns,
         up' \in BOOLEAN, turns => Midway(at)'
  PROVE  SInv'
<1> DEFINE c == [call[t] EXCEPT !.at = at]
<1>1. DOMAIN c = Fields /\ c.at = at /\ c.name = call[t].name /\ c.then = call[t].then
  BY DEF SInv, CallsFit, Fields
<1>2. call' = [call EXCEPT ![t] = c] BY DEF Goto
<1>3. Underway(t) /\ c.name \in Lifecycle /\ c.then \notin Places BY <1>1 DEF SInv, CallsFit, Underway
<1> HIDE DEF c
<1>4. QED BY <1>1, <1>2, <1>3, MoveKeepsSInv

LEMMA ReturnKeepsSInv ==
  ASSUME SInv, NEW t \in Threads, call[t].at \in Places, Return(t), turns' = turns, up' \in BOOLEAN, turns => AtRest'
  PROVE  SInv'
<1>1. DOMAIN Idle = Fields /\ Idle.name \notin Lifecycle /\ Idle.at \notin Places /\ Idle.then \notin Places
  BY ConstantsAssumption DEF Idle, Fields, Places, Lifecycle, AllCalls
<1>2. Underway(t) BY DEF SInv, CallsFit
<1>3. QED BY <1>1, <1>2, MoveKeepsSInv DEF Return

LEMMA ServerKeepsSInv ==
  ASSUME SInv, NEW t \in Threads, ServerStep(t)
  PROVE  SInv'
<1> USE DEF ManagerStays, At
<1>0. (turns /\ call[t].at \in Places => Midway(call[t].at)) /\ up \in BOOLEAN
  BY DEF SInv, CallsFit
<1>1. CASE Start(t) \/ Stop(t)
  BY <1>1, BeginKeepsSInv DEF Start, Stop
<1>2. CASE StartBegins(t)
  <2>1. turns => Midway("listen")' BY <1>0, <1>2 DEF StartBegins, Midway, Places
  <2>2. QED BY <1>0, <1>2, <2>1, GotoKeepsSInv DEF StartBegins, Places
<1>3. CASE StartServer(t)
  <2>1. PICK at \in {"started", "unstarted"} :
          Goto(t, at) /\ up' \in BOOLEAN /\ (IF at = "started" THEN up' ELSE up' = up) /\ UNCHANGED <<state, listenPort, turns>>
    BY <1>0, <1>3 DEF StartServer
  <2>2. turns => Midway(at)' BY <1>0, <1>3, <2>1 DEF StartServer, Midway, Places
  <2>3. QED BY <1>0, <1>3, <2>1, <2>2, GotoKeepsSInv DEF StartServer, Places
<1>4. CASE StartEnds(t)
  <2>1. turns => AtRest' BY <1>0, <1>4 DEF StartEnds, Midway, AtRest, Places
  <2>2. QED BY <1>0, <1>4, <2>1, ReturnKeepsSInv DEF StartEnds, Places
<1>5. CASE StopBegins(t)
  <2>1. turns => Midway("close")' BY <1>0, <1>5 DEF StopBegins, Midway, Places
  <2>2. QED BY <1>0, <1>5, <2>1, GotoKeepsSInv DEF StopBegins, Places
<1>6. CASE StopServer(t)
  <2>1. PICK at \in {"closed", "unclosed"} :
          Goto(t, at) /\ up' \in BOOLEAN /\ (IF at = "closed" THEN ~up' ELSE up' = up) /\ UNCHANGED <<state, listenPort, turns>>
    BY <1>0, <1>6 DEF StopServer
  <2>2. turns => Midway(at)' BY <1>0, <1>6, <2>1 DEF StopServer, Midway, Places
  <2>3. QED BY <1>0, <1>6, <2>1, <2>2, GotoKeepsSInv DEF StopServer, Places
<1>7. CASE StopFails(t)
  <2>1. turns => AtRest' BY <1>0, <1>7 DEF StopFails, Midway, AtRest, Places
  <2>2. QED BY <1>0, <1>7, <2>1, ReturnKeepsSInv DEF StopFails, Places
<1>8. CASE StopEnds(t)
  <2>1. turns => Midway("forget")' BY <1>0, <1>8 DEF StopEnds, Midway, Places
  <2>2. QED BY <1>0, <1>8, <2>1, GotoKeepsSInv DEF StopEnds, Places
<1>9. CASE ForgetPort(t)
  <2>1. turns => AtRest' BY <1>0, <1>9 DEF ForgetPort, Midway, AtRest, Places
  <2>2. QED BY <1>0, <1>9, <2>1, ReturnKeepsSInv DEF ForgetPort, Places
<1>10. QED BY <1>1, <1>2, <1>3, <1>4, <1>5, <1>6, <1>7, <1>8, <1>9 DEF ServerStep

LEMMA NextKeepsSInv == SInv /\ [ServerNext]_allVars => SInv'
<1> SUFFICES ASSUME SInv, [ServerNext]_allVars PROVE SInv' OBVIOUS
<1>1. CASE Next /\ UNCHANGED serverVars
  BY <1>1, ManagerCalls, ManagerKeepsSInv DEF Next, SInv
<1>2. CASE \E t \in Threads : ServerStep(t) BY <1>2, ServerKeepsSInv
<1>3. CASE UNCHANGED allVars
  BY <1>3 DEF allVars, vars, serverVars, SInv, CallsFit, Underway, AtRest, Midway
<1>4. QED BY <1>1, <1>2, <1>3 DEF ServerNext

(* is_running and port tell the truth between the calls of those who start *)
(* and stop a server in turns, whatever fails (start, stop): every way out *)
(* of the two functions leaves the state that goes with the messaging      *)
(* server's.                                                               *)
THEOREM RunningListens == ServerSpec => []RunningIsListening
<1>1. SInv => RunningIsListening BY DEF SInv, RunningIsListening, AtRest
<1>2. QED BY <1>1, InitSInv, NextKeepsSInv, PTL DEF ServerSpec

-----------------------------------------------------------------------------
(***************************************************************************)
(* The bytes of a set of files.  What a fold computes is found without an  *)
(* induction rule: among finite sets there is a least one of any kind.     *)
(***************************************************************************)
SizeOf(S) == MapThenSumSet(LAMBDA f : Size[f], S)

LEMMA LeastSet ==
  ASSUME NEW S, IsFiniteSet(S), NEW B, B \subseteq SUBSET S, B # {}
  PROVE  \E T \in B : \A U \in B : U \subseteq T => U = T
<1>1. IsWellFoundedOn(StrictSubsetOrdering(S), FiniteSubsetsOf(S)) BY FS_StrictSubsetOrderingWellFounded
<1>2. B \subseteq FiniteSubsetsOf(S) BY FS_FiniteSubsetsOfFinite
<1>3. PICK T \in B : \A U \in B : ~ (<<U, T>> \in StrictSubsetOrdering(S)) BY <1>1, <1>2, WFMin
<1>4. QED BY <1>3 DEF StrictSubsetOrdering

\* A sum of the subsets of S, whichever file is taken out first.
Sums(a, S) ==
  /\ a \in [SUBSET S -> Nat] /\ a[{}] = 0
  /\ \A s \in SUBSET S : \A f \in s : a[s] = Size[f] + a[s \ {f}]

\* The recursion of the fold.
Folds(it, S) ==
  it = [s \in SUBSET S |-> IF s = {} THEN 0 ELSE Size[CHOOSE f \in s : TRUE] + it[s \ {CHOOSE f \in s : TRUE}]]

LEMMA SumsExtend ==
  ASSUME NEW S \in SUBSET Files, NEW a, Sums(a, S), NEW g \in Files, g \notin S
  PROVE  \E b : Sums(b, S \cup {g})
<1> DEFINE b == [s \in SUBSET (S \cup {g}) |-> IF g \in s THEN Size[g] + a[s \ {g}] ELSE a[s]]
<1>0. Size[g] \in Nat BY ConstantsAssumption
<1>1. b \in [SUBSET (S \cup {g}) -> Nat]
  <2> SUFFICES ASSUME NEW s \in SUBSET (S \cup {g}) PROVE b[s] \in Nat OBVIOUS
  <2>1. CASE g \in s
    <3>1. s \ {g} \in SUBSET S OBVIOUS
    <3>2. a[s \ {g}] \in Nat BY <3>1 DEF Sums
    <3>3. QED BY <1>0, <2>1, <3>2
  <2>2. CASE g \notin s BY <2>2 DEF Sums
  <2>3. QED BY <2>1, <2>2
<1>2. b[{}] = 0 BY DEF Sums
<1>3. ASSUME NEW s \in SUBSET (S \cup {g}), NEW f \in s PROVE b[s] = Size[f] + b[s \ {f}]
  <2>0. s \ {f} \in SUBSET (S \cup {g}) OBVIOUS
  <2>1. CASE f = g BY <2>0, <2>1
  <2>2. CASE f # g /\ g \in s
    <3>1. s \ {g} \in SUBSET S /\ f \in s \ {g} /\ (s \ {g}) \ {f} = (s \ {f}) \ {g} BY <2>2
    <3>2. a[s \ {g}] = Size[f] + a[(s \ {f}) \ {g}] BY <3>1 DEF Sums
    <3>3. a[(s \ {f}) \ {g}] \in Nat BY <3>1 DEF Sums
    <3>4. g \in s \ {f} BY <2>2
    <3>5. b[s] = Size[g] + a[s \ {g}] /\ b[s \ {f}] = Size[g] + a[(s \ {f}) \ {g}] BY <2>0, <2>2, <3>4
    <3>6. a[s \ {g}] \in Nat BY <3>1 DEF Sums
    <3> HIDE DEF b
    <3>7. Size[f] \in Nat BY ConstantsAssumption
    <3>8. QED BY <1>0, <3>2, <3>3, <3>5, <3>6, <3>7
  <2>3. CASE g \notin s
    <3>1. s \in SUBSET S /\ g \notin s \ {f} BY <2>3
    <3>2. QED BY <2>0, <2>3, <3>1 DEF Sums
  <2>4. QED BY <2>1, <2>2, <2>3
<1> HIDE DEF b
<1>4. QED BY <1>1, <1>2, <1>3 DEF Sums

LEMMA SumsExist ==
  ASSUME NEW S \in SUBSET Files, IsFiniteSet(S)
  PROVE  \E a : Sums(a, S)
<1> DEFINE B == {T \in SUBSET S : ~ \E a : Sums(a, T)}
<1> SUFFICES ASSUME B # {} PROVE FALSE OBVIOUS
<1>1. PICK T \in B : \A U \in B : U \subseteq T => U = T
  <2>1. B \subseteq SUBSET S OBVIOUS
  <2> HIDE DEF B
  <2>2. QED BY <2>1, LeastSet
<1>2. T # {}
  <2>1. Sums([s \in SUBSET {} |-> 0], {}) BY DEF Sums
  <2>2. QED BY <1>1, <2>1
<1>3. PICK g : g \in T BY <1>2
<1>4. \E a : Sums(a, T \ {g}) BY <1>1, <1>3
<1>5. \E b : Sums(b, (T \ {g}) \cup {g}) BY <1>3, <1>4, SumsExtend
<1>6. (T \ {g}) \cup {g} = T BY <1>3
<1>7. QED BY <1>1, <1>5, <1>6

LEMMA FoldsIsSums ==
  ASSUME NEW S \in SUBSET Files, IsFiniteSet(S), NEW a, Sums(a, S), NEW it, Folds(it, S)
  PROVE  it = a
<1> DEFINE B == {s \in SUBSET S : it[s] # a[s]}
<1>1. it = [s \in SUBSET S |-> it[s]] /\ a = [s \in SUBSET S |-> a[s]] BY DEF Folds, Sums
<1>2. SUFFICES ASSUME B # {} PROVE FALSE BY <1>1
<1>3. PICK s \in B : \A u \in B : u \subseteq s => u = s
  <2>1. B \subseteq SUBSET S OBVIOUS
  <2> HIDE DEF B
  <2>2. QED BY <1>2, <2>1, LeastSet
<1>4. s # {} BY <1>3 DEF Folds, Sums
<1> DEFINE f == CHOOSE f \in s : TRUE
<1>5. f \in s BY <1>4
<1>6. it[s] = Size[f] + it[s \ {f}] BY <1>3, <1>4 DEF Folds
<1> HIDE DEF f
<1>7. a[s] = Size[f] + a[s \ {f}] BY <1>3, <1>5 DEF Sums
<1>8. it[s \ {f}] = a[s \ {f}] BY <1>3, <1>5
<1>9. QED BY <1>3, <1>6, <1>7, <1>8

LEMMA SumsIsFolds ==
  ASSUME NEW S, NEW a, Sums(a, S)
  PROVE  Folds(a, S)
<1>1. ASSUME NEW s \in SUBSET S, s # {}
      PROVE  a[s] = Size[CHOOSE f \in s : TRUE] + a[s \ {CHOOSE f \in s : TRUE}]
  BY <1>1 DEF Sums
<1>2. QED BY <1>1 DEF Sums, Folds

LEMMA SizeIsSum ==
  ASSUME NEW S \in SUBSET Files, IsFiniteSet(S), NEW a, Sums(a, S)
  PROVE  SizeOf(S) = a[S]
<1> DEFINE it == CHOOSE it : Folds(it, S)
<1>1. Folds(it, S) BY SumsIsFolds
<1>2. it = a BY <1>1, FoldsIsSums
<1>3. SizeOf(S) = it[S] BY DEF SizeOf, MapThenSumSet, MapThenFoldSet, Folds
<1>4. QED BY <1>2, <1>3

LEMMA SizeOfNone == SizeOf({}) = 0
<1>1. PICK a : Sums(a, {}) BY FS_EmptySet, SumsExist
<1>2. QED BY <1>1, FS_EmptySet, SizeIsSum DEF Sums

LEMMA SizeOfTaken ==
  ASSUME NEW S \in SUBSET Files, IsFiniteSet(S)
  PROVE  /\ SizeOf(S) \in Nat
         /\ \A f \in S : SizeOf(S) = Size[f] + SizeOf(S \ {f})
<1>1. PICK a : Sums(a, S) BY SumsExist
<1>2. SizeOf(S) = a[S] /\ a[S] \in Nat BY <1>1, SizeIsSum DEF Sums
<1>3. ASSUME NEW f \in S PROVE SizeOf(S) = Size[f] + SizeOf(S \ {f})
  <2> DEFINE b == [s \in SUBSET (S \ {f}) |-> a[s]]
  <2>1. Sums(b, S \ {f})
    <3>1. b \in [SUBSET (S \ {f}) -> Nat] /\ b[{}] = 0 BY <1>1 DEF Sums
    <3>2. ASSUME NEW s \in SUBSET (S \ {f}), NEW g \in s PROVE b[s] = Size[g] + b[s \ {g}]
      BY <1>1 DEF Sums
    <3> HIDE DEF b
    <3>3. QED BY <3>1, <3>2 DEF Sums
  <2>2. b[S \ {f}] = a[S \ {f}] OBVIOUS
  <2> HIDE DEF b
  <2>3. SizeOf(S \ {f}) = b[S \ {f}] BY <2>1, FS_RemoveElement, SizeIsSum
  <2>4. QED BY <1>1, <1>2, <2>2, <2>3 DEF Sums
<1>4. QED BY <1>2, <1>3

LEMMA SizeOfAdded ==
  ASSUME NEW S \in SUBSET Files, IsFiniteSet(S), NEW f \in Files, f \notin S
  PROVE  SizeOf(S \cup {f}) = SizeOf(S) + Size[f]
<1>1. (S \cup {f}) \ {f} = S /\ IsFiniteSet(S \cup {f}) /\ S \cup {f} \in SUBSET Files BY FS_AddElement
<1>2. SizeOf(S) \in Nat /\ Size[f] \in Nat BY SizeOfTaken, ConstantsAssumption
<1>3. QED BY <1>1, <1>2, SizeOfTaken

LEMMA SizeOfPart ==
  ASSUME NEW T \in SUBSET Files, IsFiniteSet(T), NEW S \in SUBSET T
  PROVE  SizeOf(S) <= SizeOf(T)
<1> DEFINE B == {W \in SUBSET T : S \subseteq W /\ ~ SizeOf(S) <= SizeOf(W)}
<1> SUFFICES ASSUME B # {} PROVE FALSE OBVIOUS
<1>1. PICK W \in B : \A U \in B : U \subseteq W => U = W
  <2>1. B \subseteq SUBSET T OBVIOUS
  <2> HIDE DEF B
  <2>2. QED BY <2>1, LeastSet
<1>2. IsFiniteSet(S) /\ IsFiniteSet(W) BY <1>1, FS_Subset
<1>3. SizeOf(S) \in Nat BY <1>2, SizeOfTaken
<1>4. PICK f \in W : f \notin S BY <1>1, <1>3
<1>5. IsFiniteSet(W \ {f}) BY <1>2, FS_RemoveElement
<1>6. SizeOf(W) = Size[f] + SizeOf(W \ {f}) /\ SizeOf(W \ {f}) \in Nat BY <1>1, <1>2, <1>4, <1>5, SizeOfTaken
<1>7. SizeOf(S) <= SizeOf(W \ {f}) BY <1>1, <1>4
<1>8. Size[f] \in Nat BY <1>1, <1>4, ConstantsAssumption
<1>9. QED BY <1>1, <1>3, <1>6, <1>7, <1>8

-----------------------------------------------------------------------------
(***************************************************************************)
(* The quota manager's state: its types, and where each call may be.       *)
(***************************************************************************)
Usages == [total : Nat, used : 0..(Word - 1), files : Nat, available : Nat, percent : [used : Nat, of : Nat]]

\* Where a call of the manager may be, and where it may go on after a check or a removal.
Spots == {"idle", "store", "add", "count", "check", "exceeded", "warn", "reset", "scan", "assign",
          "removed", "uncount", "list", "pick", "unlink"}
Thens == {"idle", "count", "check", "pick"}

CallRecords == [at : Spots \cup Places, name : AllCalls \cup {None}, file : Files \cup {None}, then : Thens,
                seen : Usages \cup {None}, list : Seq(Files)]

Checking == {"check", "exceeded", "warn"}

\* A call is where its function can be, and holds what it holds there.
CallHolds(c) ==
  /\ c.at = "idle" => c.name = None
  /\ c.name = "upload" <=> c.at \in {"store", "add", "count"} \/ (c.at \in Checking /\ c.then = "count")
  /\ c.at \in {"store", "add"} => c.then = "count"
  /\ c.name = "upload" \/ c.at \in {"removed", "uncount"} => c.file \in Files
  /\ c.name = "cleanup" <=> c.at \in {"list", "pick", "unlink"} \/ (c.at \in {"removed", "uncount"} /\ c.then = "pick")
  /\ c.at \in {"removed", "uncount"} => c.then \in {"pick", "idle"}
  /\ c.at \in {"scan", "assign"} => c.name \in {"refresh", "set_quota"} /\ c.then \in {"idle", "check"}
  /\ c.at \in Checking => c.then \in {"idle", "check", "count"}
  /\ c.at = "assign" => c.seen \in Usages
  /\ c.at = "unlink" => c.list # <<>>

Distinct(d) == \A i, j \in 1..Len(d) : d[i] = d[j] => i = j

QType ==
  /\ total \in Nat /\ disk \in Seq(Files) /\ Distinct(disk)
  /\ usage \in Usages /\ told \in BOOLEAN
  /\ calls \in [made : Nat, of : SUBSET AllCalls, overlapped : SUBSET AllCalls]
  /\ call \in [Threads -> CallRecords]
  /\ \A t \in Threads : CallHolds(call[t]) /\ call[t].name \in calls.of \cup {None}

(* Whose file is where: an upload's file is its own, and not on the disk   *)
(* before it is stored; a deleted file is off the disk until its removal   *)
(* is recorded.                                                            *)
Leaving(c)  == c.at \in {"removed", "uncount"}
QFiles ==
  /\ \A t \in Threads : call[t].at = "store" \/ Leaving(call[t]) => call[t].file \notin Range(disk)
  /\ \A t, u \in Threads : call[t].name = "upload" /\ call[u].name = "upload" /\ call[t].file = call[u].file => t = u
  /\ \A t, u \in Threads : Leaving(call[t]) /\ (Leaving(call[u]) \/ call[u].at = "store") /\ call[t].file = call[u].file => t = u

QExcess == IsExceeded(usage) /\ ~told => \E t \in Threads : call[t].at \in {"check", "exceeded"}

QBase == QType /\ QFiles /\ QExcess

FilesAt(places) == {call[t].file : t \in {u \in Threads : call[u].at \in places}}
Uploading       == {call[t].file : t \in {u \in Threads : call[u].name = "upload"}}

\* What the cached usage counts, in bytes and in files.
Counted == (Range(disk) \ FilesAt({"add"})) \cup FilesAt({"removed"})
Tallied == (Range(disk) \ Uploading) \cup FilesAt({"removed", "uncount"})

StoredUploads == \A t \in Threads : call[t].name = "upload" /\ call[t].at # "store" => call[t].file \in Range(disk)

Plain == calls.of \subseteq {"upload", "delete", "reset", "start", "stop"}
QTracks ==
  Plain =>
    /\ StoredUploads
    /\ IsFiniteSet(Counted) /\ usage.used = SizeOf(Counted)
    /\ IsFiniteSet(Tallied) /\ usage.files = Cardinality(Tallied)

\* What the directory holds, and what it held until a removal that is not recorded yet.
Held == Range(disk) \cup FilesAt({"removed"})

Turned == /\ calls.of \subseteq {"upload", "delete", "cleanup", "reset", "start", "stop"}
          /\ "upload" \notin calls.overlapped
OneUpload == \A t, u \in Threads : call[t].name = "upload" /\ call[u].name = "upload" => t = u
InQuota ==
  /\ usage.used <= total
  /\ \A t \in Threads : call[t].at \in {"store", "add"} => usage.used + Size[call[t].file] <= total
  /\ IsFiniteSet(Held)
  /\ (\A t \in Threads : call[t].at # "add") => SizeOf(Held) <= usage.used
  /\ \A t \in Threads : call[t].at = "add" => SizeOf(Held) <= usage.used + Size[call[t].file]

QKeeps == Turned => total = Quota /\ usage.total = total /\ OneUpload /\ (total > 0 => InQuota)

-----------------------------------------------------------------------------
(***************************************************************************)
(* The steps by what they do to the directory, the usage and the call c    *)
(* that thread t is left with.                                             *)
(***************************************************************************)
Settling == {"store", "add", "removed", "uncount"}

Passes(t, c) ==
  /\ UNCHANGED <<usage, disk>>
  /\ call[t].at \notin Settling \cup {"count"} /\ c.at \notin Settling
  /\ "upload" \in {call[t].name, c.name} => c.name = call[t].name /\ c.file = call[t].file
Accepts(t, c) ==
  /\ UNCHANGED <<usage, disk, total>> /\ call[t].at = "idle" /\ c.at = "store" /\ c.name = "upload"
  /\ c.file \in Files \ Range(disk) /\ (\A u \in Threads : call[u].file # c.file) /\ CheckQuota(Size[c.file])
  /\ "upload" \in calls'.overlapped \/ \A u \in Threads : call[u].name # "upload"
Stores(t, c) ==
  /\ UNCHANGED <<usage, total>> /\ disk' = Append(disk, c.file)
  /\ call[t].at = "store" /\ c.at = "add" /\ c.name = call[t].name /\ c.file = call[t].file
Adds(t, c) ==
  /\ UNCHANGED <<disk, total>> /\ usage' = BytesAdded(usage, Size[c.file])
  /\ call[t].at = "add" /\ c.at = "check" /\ c.name = call[t].name /\ c.file = call[t].file
Counts(t, c) ==
  /\ UNCHANGED <<disk, total>> /\ usage' = [usage EXCEPT !.files = @ + 1]
  /\ call[t].at = "count" /\ c.at = "idle"
Removes(t, c) ==
  /\ UNCHANGED <<usage, total>> /\ disk' = Without(c.file) /\ c.file \in Range(disk)
  /\ call[t].at \in {"idle", "unlink"} /\ c.at = "removed"
  /\ c.name = "cleanup" \/ \A u \in Threads : call[u].file # c.file
Discounts(t, c) ==
  /\ UNCHANGED <<disk, total>> /\ usage' = BytesRemoved(usage, Size[c.file])
  /\ call[t].at = "removed" /\ c.at = "uncount" /\ c.name = call[t].name /\ c.file = call[t].file
Uncounts(t, c) ==
  /\ UNCHANGED <<disk, total>> /\ usage' = [usage EXCEPT !.files = IF @ > 0 THEN @ - 1 ELSE 0]
  /\ call[t].at = "uncount" /\ c.at \in {"idle", "pick"}
Assigns(t, c) ==
  /\ UNCHANGED <<disk, total>> /\ usage' \in Usages
  /\ call[t].at = "assign" /\ c.at = "check" /\ c.name = call[t].name

Acts(t, c) ==
  \/ Passes(t, c) \/ Accepts(t, c) \/ Stores(t, c) \/ Adds(t, c) \/ Counts(t, c)
  \/ Removes(t, c) \/ Discounts(t, c) \/ Uncounts(t, c) \/ Assigns(t, c)

\* The call that thread t is left with, and what is remembered of the calls.
Leaves(t, c) ==
  /\ c \in CallRecords /\ CallHolds(c) /\ call' = [call EXCEPT ![t] = c]
  /\ calls' \in [made : Nat, of : SUBSET AllCalls, overlapped : SUBSET AllCalls]
  /\ calls.of \subseteq calls'.of /\ calls.overlapped \subseteq calls'.overlapped /\ c.name \in calls'.of \cup {None}
  /\ total' \in Nat /\ (total' = total \/ "set_quota" \in calls'.of)

\* An excess that is not told is still to be told.
StillTells(t, c) ==
  /\ told' \in BOOLEAN
  /\ \/ told' \/ ~IsExceeded(usage)' \/ c.at \in {"check", "exceeded"}
     \/ IsExceeded(usage) /\ ~told /\ call[t].at \notin {"check", "exceeded"}

LEMMA Constants ==
  /\ Word \in Nat \ {0} /\ \A f \in Files : Size[f] \in 0..(Word - 1)
  /\ Quota \in Nat /\ Free \in Nat /\ Quotas \subseteq Nat
  /\ None \notin Files /\ None \notin AllCalls
BY ConstantsAssumption

LEMMA UsageFields ==
  ASSUME NEW u \in Usages
  PROVE  /\ DOMAIN u = {"total", "used", "files", "available", "percent"}
         /\ u.total \in Nat /\ u.used \in 0..(Word - 1) /\ u.files \in Nat
         /\ u.available \in Nat /\ u.percent \in [used : Nat, of : Nat]
BY DEF Usages

LEMMA BytesAddedType ==
  ASSUME NEW u \in Usages, NEW bytes \in Nat, total \in Nat
  PROVE  /\ BytesAdded(u, bytes) \in Usages
         /\ BytesAdded(u, bytes).used = (u.used + bytes) % Word
         /\ BytesAdded(u, bytes).total = u.total /\ BytesAdded(u, bytes).files = u.files
<1>1. (u.used + bytes) % Word \in 0..(Word - 1)
  <2>1. u.used + bytes \in Nat /\ Word \in Nat \ {0} BY Constants, UsageFields
  <2>2. QED BY <2>1
<1> DEFINE used == (u.used + bytes) % Word
<1> HIDE DEF used
<1>2. used \in 0..(Word - 1) BY <1>1 DEF used
<1>3. Remaining(used, total) \in Nat BY <1>2 DEF Remaining
<1>4. Percent(used, total) \in [used : Nat, of : Nat] BY <1>2 DEF Percent
<1>5. BytesAdded(u, bytes) = IF total > 0
        THEN [u EXCEPT !.used = used, !.available = Remaining(used, total), !.percent = Percent(used, total)]
        ELSE [u EXCEPT !.used = used]
  BY DEF BytesAdded, used
<1> DEFINE r == Remaining(used, total)
           p == Percent(used, total)
<1>6. r \in Nat /\ p \in [used : Nat, of : Nat] BY <1>3, <1>4
<1> HIDE DEF r, p
<1>7. BytesAdded(u, bytes) = IF total > 0
        THEN [u EXCEPT !.used = used, !.available = r, !.percent = p]
        ELSE [u EXCEPT !.used = used]
  BY <1>5 DEF r, p
<1>8. QED BY <1>2, <1>6, <1>7 DEF Usages, used

LEMMA BytesRemovedType ==
  ASSUME NEW u \in Usages, NEW bytes \in Nat, total \in Nat
  PROVE  /\ BytesRemoved(u, bytes) \in Usages
         /\ BytesRemoved(u, bytes).used = IF bytes > u.used THEN 0 ELSE u.used - bytes
         /\ BytesRemoved(u, bytes).total = u.total /\ BytesRemoved(u, bytes).files = u.files
<1> DEFINE used == IF bytes > u.used THEN 0 ELSE u.used - bytes
<1>1. used \in 0..(Word - 1) BY Constants, UsageFields
<1> HIDE DEF used
<1>2. (total - used) % Word \in Nat
  <2>1. total - used \in Int /\ Word \in Nat \ {0} BY <1>1, Constants
  <2>2. QED BY <2>1
<1> DEFINE r == (total - used) % Word
           p == Percent(used, total)
<1>3. r \in Nat /\ p \in [used : Nat, of : Nat] BY <1>1, <1>2 DEF Percent
<1> HIDE DEF r, p
<1>4. BytesRemoved(u, bytes) = IF total > 0
        THEN [u EXCEPT !.used = used, !.available = r, !.percent = p]
        ELSE [u EXCEPT !.used = used]
  BY DEF BytesRemoved, r, p, used
<1>5. QED BY <1>1, <1>3, <1>4 DEF Usages, used

\* The directory as a sequence of different files.
LEMMA DiskFacts ==
  ASSUME NEW d \in Seq(Files), Distinct(d)
  PROVE  Range(d) \in SUBSET Files /\ IsFiniteSet(Range(d)) /\ Cardinality(Range(d)) = Len(d)
<1>1. Range(d) = {d[i] : i \in 1..Len(d)} BY RangeEquality
<1>2. d \in Bijection(1..Len(d), Range(d))
  BY <1>1 DEF Bijection, Injection, Surjection, IsInjective, Distinct
<1>3. IsFiniteSet(1..Len(d)) /\ Cardinality(1..Len(d)) = Len(d)
  <2>1. Len(d) \in Nat /\ 1 \in Int BY LenProperties
  <2>2. IsFiniteSet(1..Len(d)) /\ Cardinality(1..Len(d)) = IF 1 > Len(d) THEN 0 ELSE Len(d) - 1 + 1
    BY <2>1, FS_Interval
  <2>3. QED BY <2>1, <2>2
<1>4. IsFiniteSet(Range(d)) /\ Cardinality(Range(d)) = Cardinality(1..Len(d))
  BY <1>2, <1>3, FS_Bijection DEF ExistsBijection
<1>5. QED BY <1>1, <1>3, <1>4, RangeOfSeq

LEMMA DiskAppended ==
  ASSUME NEW d \in Seq(Files), Distinct(d), NEW f \in Files \ Range(d)
  PROVE  Append(d, f) \in Seq(Files) /\ Distinct(Append(d, f)) /\ Range(Append(d, f)) = Range(d) \cup {f}
<1>1. Range(d) = {d[i] : i \in 1..Len(d)} BY RangeEquality
<1>2. /\ Append(d, f) \in Seq(Files) /\ Len(Append(d, f)) = Len(d) + 1
      /\ (\A i \in 1..Len(d) : Append(d, f)[i] = d[i]) /\ Append(d, f)[Len(d) + 1] = f
  BY AppendProperties
<1> DEFINE e == Append(d, f)
<1> HIDE DEF e
<1>3. Range(e) = {e[i] : i \in 1..Len(e)} BY <1>2, RangeEquality DEF e
<1>4. 1..Len(e) = 1..Len(d) \cup {Len(d) + 1} BY <1>2 DEF e
<1>5. Range(e) = Range(d) \cup {f} BY <1>1, <1>2, <1>3, <1>4 DEF e
<1>6. Distinct(e) BY <1>1, <1>2 DEF Distinct, e
<1>7. QED BY <1>2, <1>5, <1>6 DEF e

LEMMA DiskRemoved ==
  ASSUME disk \in Seq(Files), Distinct(disk), NEW f \in Range(disk)
  PROVE  Without(f) \in Seq(Files) /\ Distinct(Without(f)) /\ Range(Without(f)) = Range(disk) \ {f}
<1> DEFINE n == Len(disk)
           k == CHOOSE i \in DOMAIN disk : disk[i] = f
           a == SubSeq(disk, 1, k - 1)
           b == SubSeq(disk, k + 1, n)
           e == a \o b
<1>1. Range(disk) = {disk[i] : i \in 1..n} BY RangeEquality
<1>2. DOMAIN disk = 1..n /\ n \in Nat BY LenProperties
<1>3. k \in 1..n /\ disk[k] = f BY <1>1, <1>2
<1>4. Without(f) = e BY DEF Without, RemoveAt
<1> HIDE DEF k
<1>5. a \in Seq(Files) /\ Len(a) = k - 1 /\ \A i \in 1..(k - 1) : a[i] = disk[i]
  BY <1>2, <1>3, SubSeqProperties, ElementOfSeq
<1>6. b \in Seq(Files) /\ Len(b) = n - k /\ \A i \in 1..(n - k) : b[i] = disk[k + i]
  <2>1. \A i \in (k + 1)..n : disk[i] \in Files BY <1>2, <1>3, ElementOfSeq
  <2>2. /\ b \in Seq(Files) /\ Len(b) = IF k + 1 <= n THEN n - (k + 1) + 1 ELSE 0
        /\ \A i \in 1..(n - (k + 1) + 1) : b[i] = disk[(k + 1) + i - 1]
    BY <1>2, <1>3, <2>1, SubSeqProperties
  <2> HIDE DEF b, n
  <2>3. n - (k + 1) + 1 = n - k /\ \A i \in Int : (k + 1) + i - 1 = k + i BY <1>2, <1>3
  <2>4. QED BY <1>2, <1>3, <2>2, <2>3
<1> HIDE DEF a, b
<1>7. /\ e \in Seq(Files) /\ Len(e) = n - 1
      /\ \A i \in 1..(n - 1) : e[i] = IF i < k THEN disk[i] ELSE disk[i + 1]
  <2>1. /\ e \in Seq(Files) /\ Len(e) = Len(a) + Len(b)
        /\ \A i \in 1..(Len(a) + Len(b)) : e[i] = IF i <= Len(a) THEN a[i] ELSE b[i - Len(a)]
    BY <1>5, <1>6, ConcatProperties
  <2> HIDE DEF e, n
  <2>2. QED BY <1>2, <1>3, <1>5, <1>6, <2>1
<1> HIDE DEF e
<1>8. Range(e) = {e[i] : i \in 1..(n - 1)} BY <1>7, RangeEquality
<1> HIDE DEF n
<1>9. Distinct(e)
  <2> SUFFICES ASSUME NEW i \in 1..(n - 1), NEW j \in 1..(n - 1), e[i] = e[j] PROVE i = j
    BY <1>7 DEF Distinct
  <2>1. e[i] = disk[IF i < k THEN i ELSE i + 1] /\ e[j] = disk[IF j < k THEN j ELSE j + 1] BY <1>7
  <2>2. (IF i < k THEN i ELSE i + 1) \in 1..n /\ (IF j < k THEN j ELSE j + 1) \in 1..n BY <1>2, <1>3
  <2>3. \A x, y \in 1..n : disk[x] = disk[y] => x = y BY DEF Distinct, n
  <2>4. (IF i < k THEN i ELSE i + 1) = (IF j < k THEN j ELSE j + 1) BY <2>1, <2>2, <2>3
  <2>5. QED BY <1>2, <1>3, <2>4
<1>10. Range(e) = Range(disk) \ {f}
  <2>1. ASSUME NEW i \in 1..(n - 1) PROVE e[i] \in Range(disk) /\ e[i] # f
    <3>1. (IF i < k THEN i ELSE i + 1) \in 1..n /\ (IF i < k THEN i ELSE i + 1) # k BY <1>2, <1>3
    <3>2. e[i] = disk[IF i < k THEN i ELSE i + 1] BY <1>7
    <3>3. QED BY <1>1, <1>3, <3>1, <3>2 DEF Distinct, n
  <2>2. ASSUME NEW g \in Range(disk) \ {f} PROVE \E i \in 1..(n - 1) : e[i] = g
    <3>1. PICK j \in 1..n : disk[j] = g BY <1>1
    <3>2. j # k BY <1>3, <3>1
    <3>3. CASE j < k BY <1>2, <1>3, <1>7, <3>1, <3>3
    <3>4. CASE j > k
      <4>1. j - 1 \in 1..(n - 1) /\ ~(j - 1 < k) /\ (j - 1) + 1 = j BY <1>2, <1>3, <3>4
      <4>2. QED BY <1>7, <3>1, <4>1
    <3>5. QED BY <1>2, <1>3, <3>2, <3>3, <3>4
  <2>3. QED BY <1>8, <2>1, <2>2
<1>11. QED BY <1>4, <1>7, <1>9, <1>10

LEMMA CallFields ==
  ASSUME NEW c \in CallRecords
  PROVE  /\ DOMAIN c = {"at", "name", "file", "then", "seen", "list"}
         /\ c.at \in Spots \cup Places /\ c.name \in AllCalls \cup {None} /\ c.file \in Files \cup {None}
         /\ c.then \in Thens /\ c.seen \in Usages \cup {None} /\ c.list \in Seq(Files)
BY DEF CallRecords

LEMMA IdleIs ==
  /\ Idle \in CallRecords /\ CallHolds(Idle)
  /\ Idle.at = "idle" /\ Idle.name = None /\ Idle.file = None
<1> DEFINE e == <<>>
           n == None
<1>1. e \in Seq(Files) /\ n \in Usages \cup {None} OBVIOUS
<1>2. Idle = [at |-> "idle", name |-> None, file |-> None, then |-> "idle", seen |-> n, list |-> e] BY DEF Idle
<1> HIDE DEF e, n
<1>3. Idle \in CallRecords BY <1>1, <1>2 DEF CallRecords, Spots, Thens
<1>4. QED BY <1>3, Constants DEF Idle, CallHolds, Checking, AllCalls

LEMMA ReturnIs ==
  ASSUME NEW t \in Threads, Return(t)
  PROVE  \E c \in CallRecords : /\ call' = [call EXCEPT ![t] = c] /\ CallHolds(c)
                                /\ c.at = "idle" /\ c.name = None
BY IdleIs DEF Return

LEMMA GotoIs ==
  ASSUME QType, NEW t \in Threads, NEW at \in Spots \cup Places, Goto(t, at)
  PROVE  \E c \in CallRecords : /\ call' = [call EXCEPT ![t] = c] /\ c.at = at
                                /\ c.name = call[t].name /\ c.file = call[t].file /\ c.then = call[t].then
                                /\ c.seen = call[t].seen /\ c.list = call[t].list
<1> DEFINE o == call[t]
           c == [o EXCEPT !.at = at]
<1>1. o \in CallRecords BY DEF QType
<1>2. call' = [call EXCEPT ![t] = c] BY DEF Goto
<1> HIDE DEF o
<1>3. c \in CallRecords BY <1>1 DEF CallRecords
<1>4. /\ c.at = at /\ c.name = o.name /\ c.file = o.file /\ c.then = o.then /\ c.seen = o.seen /\ c.list = o.list
  BY <1>1 DEF CallRecords
<1> HIDE DEF c
<1>5. QED BY <1>2, <1>3, <1>4 DEF o

LEMMA ContinueIs ==
  ASSUME QType, NEW t \in Threads, call[t].then # "idle", Continue(t)
  PROVE  \E c \in CallRecords : /\ call' = [call EXCEPT ![t] = c]
                                /\ c.at = call[t].then /\ c.name = call[t].name /\ c.file = call[t].file
                                /\ c.then = "idle"
<1> DEFINE o == call[t]
           w == o.then
           i == "idle"
           n == None
           c == [o EXCEPT !.at = w, !.then = i, !.seen = n]
<1>1. o \in CallRecords BY DEF QType
<1>2. call' = [call EXCEPT ![t] = c] BY DEF Continue
<1> HIDE DEF o
<1>3. w \in Thens /\ w \in Spots /\ i \in Thens /\ n \in Usages \cup {None}
  BY <1>1, CallFields DEF Thens, Spots
<1> HIDE DEF w, i, n
<1>4. c \in CallRecords BY <1>1, <1>3 DEF CallRecords
<1>5. /\ c.at = w /\ c.name = o.name /\ c.file = o.file /\ c.then = i
  BY <1>1, <1>3 DEF CallRecords
<1> HIDE DEF c
<1>6. QED BY <1>2, <1>4, <1>5 DEF o, w, i

\* A call begins.
LEMMA EnterIs ==
  ASSUME QType, NEW t \in Threads, NEW name \in AllCalls, NEW where \in Spots \cup Places, NEW file \in Files \cup {None},
         NEW then \in Thens, Enter(t, name, where, file, then)
  PROVE  \E c \in CallRecords :
           /\ call' = [call EXCEPT ![t] = c]
           /\ c.at = where /\ c.name = name /\ c.file = file /\ c.then = then /\ c.list = <<>>
           /\ call[t].at = "idle" /\ call[t].name = None
           /\ calls' \in [made : Nat, of : SUBSET AllCalls, overlapped : SUBSET AllCalls]
           /\ calls'.of = calls.of \cup {name} /\ calls.overlapped \subseteq calls'.overlapped
           /\ name \in calls'.overlapped \/ \A u \in Threads : call[u].name # name
<1> DEFINE c == [Idle EXCEPT !.at = where, !.name = name, !.file = file, !.then = then]
<1>1. call' = [call EXCEPT ![t] = c] /\ call[t].at = "idle" BY DEF Enter, At
<1>2. c \in CallRecords BY IdleIs DEF CallRecords, Spots
<1>3. c.at = where /\ c.name = name /\ c.file = file /\ c.then = then /\ c.list = <<>> BY DEF Idle
<1> HIDE DEF c
<1>4. call[t].name = None BY <1>1 DEF QType, CallHolds
<1> DEFINE lapped == {call[u].name : u \in Threads} \cap {name}
           h == [made |-> calls.made + 1, of |-> calls.of \cup {name}, overlapped |-> calls.overlapped \cup lapped]
<1>5. calls' = h BY DEF Enter
<1>6. lapped \subseteq AllCalls /\ (name \in lapped \/ \A u \in Threads : call[u].name # name) OBVIOUS
<1> HIDE DEF lapped
<1>7. calls.made \in Nat /\ calls.of \in SUBSET AllCalls /\ calls.overlapped \in SUBSET AllCalls BY DEF QType
<1>8. h \in [made : Nat, of : SUBSET AllCalls, overlapped : SUBSET AllCalls] BY <1>6, <1>7
<1>9. h.of = calls.of \cup {name} /\ h.overlapped = calls.overlapped \cup lapped OBVIOUS
<1> HIDE DEF h
<1>10. QED BY <1>1, <1>2, <1>3, <1>4, <1>5, <1>6, <1>8, <1>9

LEMMA CalculateUsageType == QType => CalculateUsage \in Usages
<1> SUFFICES ASSUME QType PROVE CalculateUsage \in Usages OBVIOUS
<1>1. Stored = SizeOf(Range(disk)) BY DEF Stored, SizeOf
<1>2. Stored \in Nat BY <1>1, DiskFacts, SizeOfTaken DEF QType
<1> DEFINE used == Stored % Word
<1>3. used \in 0..(Word - 1)
  <2> HIDE DEF used
  <2>1. \A n \in Nat : n % Word \in 0..(Word - 1) BY Constants
  <2>2. QED BY <1>2, <2>1 DEF used
<1> DEFINE free == IF total > 0 THEN Remaining(used, total) ELSE Free
           part == IF total > 0 THEN Percent(used, total) ELSE NoPercent
           n    == Len(disk)
<1>4. CalculateUsage = [total |-> total, used |-> used, files |-> n, available |-> free, percent |-> part]
  BY DEF CalculateUsage
<1> HIDE DEF used
<1>5. free \in Nat /\ part \in [used : Nat, of : Nat]
  BY <1>3, Constants DEF QType, Remaining, Percent, NoPercent
<1>6. n \in Nat /\ total \in Nat BY LenProperties DEF QType
<1> HIDE DEF free, part, n
<1>7. QED BY <1>3, <1>4, <1>5, <1>6 DEF Usages

Does(t) == \E c : Acts(t, c) /\ Leaves(t, c) /\ StillTells(t, c)

\* The calls that go on leave the record of calls as it is.
LEMMA GoingOn ==
  ASSUME QType, NEW t \in Threads, NEW c \in CallRecords, CallHolds(c), call' = [call EXCEPT ![t] = c],
         UNCHANGED <<total, calls>>, c.name = call[t].name \/ c.name = None, Acts(t, c), StillTells(t, c)
  PROVE  Does(t)
<1>1. c.name \in calls'.of \cup {None} BY DEF QType
<1>2. QED BY <1>1 DEF QType, Leaves, Does

LEMMA SetUsageTells ==
  ASSUME QType, NEW u, SetUsage(u)
  PROVE  usage' = u /\ told' \in BOOLEAN /\ (told' \/ ~IsExceeded(usage)' \/ ~told)
<1>1. usage' = u /\ told' = (told /\ IsExceeded(u)) BY DEF SetUsage
<1>2. IsExceeded(usage)' <=> IsExceeded(u) BY <1>1 DEF IsExceeded
<1>3. QED BY <1>1, <1>2 DEF QType

LEMMA StoreDoes ==
  ASSUME QType, NEW t \in Threads, Store(t)
  PROVE  Does(t)
<1>1. At(t, "store") /\ Goto(t, "add") /\ disk' = Append(disk, call[t].file)
      /\ UNCHANGED <<total, usage, triggered, calls, told>> BY DEF Store
<1>2. PICK c \in CallRecords : /\ call' = [call EXCEPT ![t] = c] /\ c.at = "add"
                               /\ c.name = call[t].name /\ c.file = call[t].file /\ c.then = call[t].then
  BY <1>1, GotoIs DEF Spots
<1>3. CallHolds(call[t]) /\ call[t].at = "store" BY <1>1 DEF QType, At
<1>4. CallHolds(c) BY <1>2, <1>3 DEF CallHolds, Checking
<1>5. Acts(t, c) BY <1>1, <1>2, <1>3 DEF Acts, Stores
<1>6. StillTells(t, c) BY <1>1, <1>3 DEF StillTells, QType, IsExceeded
<1>7. QED BY <1>1, <1>2, <1>4, <1>5, <1>6, GoingOn

LEMMA RecordBytesAddedDoes ==
  ASSUME QType, NEW t \in Threads, RecordBytesAdded(t)
  PROVE  Does(t)
<1>1. At(t, "add") /\ Goto(t, "check") /\ SetUsage(BytesAdded(usage, Size[call[t].file]))
      /\ UNCHANGED <<total, triggered, disk, calls>> BY DEF RecordBytesAdded
<1>2. PICK c \in CallRecords : /\ call' = [call EXCEPT ![t] = c] /\ c.at = "check"
                               /\ c.name = call[t].name /\ c.file = call[t].file /\ c.then = call[t].then
  BY <1>1, GotoIs DEF Spots
<1>3. CallHolds(call[t]) /\ call[t].at = "add" BY <1>1 DEF QType, At
<1>4. CallHolds(c) BY <1>2, <1>3 DEF CallHolds, Checking
<1>5. usage' = BytesAdded(usage, Size[c.file]) /\ told' \in BOOLEAN BY <1>1, <1>2, SetUsageTells
<1>6. Acts(t, c) BY <1>1, <1>2, <1>3, <1>5 DEF Acts, Adds
<1>7. StillTells(t, c) BY <1>2, <1>5 DEF StillTells
<1>8. QED BY <1>1, <1>2, <1>4, <1>6, <1>7, GoingOn

LEMMA RecordFileAddedDoes ==
  ASSUME QType, NEW t \in Threads, RecordFileAdded(t)
  PROVE  Does(t)
<1> DEFINE u == [usage EXCEPT !.files = @ + 1]
<1>1. At(t, "count") /\ Return(t) /\ SetUsage(u) /\ UNCHANGED <<total, triggered, disk, calls>>
  BY DEF RecordFileAdded
<1>2. PICK c \in CallRecords : /\ call' = [call EXCEPT ![t] = c] /\ CallHolds(c)
                               /\ c.at = "idle" /\ c.name = None
  BY <1>1, ReturnIs
<1>3. usage' = u /\ told' \in BOOLEAN /\ (told' \/ ~IsExceeded(usage)' \/ ~told) BY <1>1, SetUsageTells
<1>4. Acts(t, c) BY <1>1, <1>2, <1>3 DEF Acts, Counts, At
<1>5. u.used = usage.used /\ u.total = usage.total BY DEF QType, Usages
<1>6. IsExceeded(usage)' <=> IsExceeded(usage) BY <1>3, <1>5 DEF IsExceeded
<1>7. StillTells(t, c) BY <1>1, <1>3, <1>6 DEF StillTells, At
<1>8. QED BY <1>1, <1>2, <1>4, <1>7, GoingOn

LEMMA LookAtUsageDoes ==
  ASSUME QType, NEW t \in Threads, LookAtUsage(t)
  PROVE  Does(t)
<1> DEFINE at == IF IsExceeded(usage) THEN "exceeded" ELSE "warn"
           o == call[t]
           u == usage
           c == [o EXCEPT !.at = at, !.seen = u]
<1>0. QType BY DEF QType
<1>1. o.at = "check" /\ call' = [call EXCEPT ![t].at = at, ![t].seen = u] /\ UNCHANGED <<total, usage, triggered, disk, calls, told>>
  BY DEF LookAtUsage, At
<1>2. call' = [call EXCEPT ![t] = c] BY <1>1 DEF QType
<1>3. o \in CallRecords /\ CallHolds(o) /\ u \in Usages \cup {None} BY DEF QType
<1>4. at \in Spots \cup Places /\ at \in {"exceeded", "warn"} /\ (at = "exceeded" \/ ~IsExceeded(u)) BY DEF Spots
<1> HIDE DEF o, at, u
<1>5. c \in CallRecords BY <1>3, <1>4 DEF CallRecords
<1>6. c.at = at /\ c.name = o.name /\ c.file = o.file /\ c.then = o.then /\ c.list = o.list BY <1>3 DEF CallRecords
<1> HIDE DEF c
<1>7. CallHolds(c) BY <1>1, <1>3, <1>4, <1>6 DEF CallHolds, Checking
<1>8. Acts(t, c) BY <1>1, <1>4, <1>6 DEF Acts, Passes, Settling, o
<1>9. IsExceeded(usage)' <=> IsExceeded(u) BY <1>1 DEF IsExceeded, u
<1>10. StillTells(t, c) BY <1>0, <1>1, <1>4, <1>6, <1>9 DEF StillTells, QType
<1>11. QED BY <1>0, <1>1, <1>2, <1>5, <1>6, <1>7, <1>8, <1>10, GoingOn DEF o

\* After its last step a check or a removal goes on with what its caller does next, or ends.
LEMMA GoesOn ==
  ASSUME QType, NEW t \in Threads, call[t].at \in {"exceeded", "warn", "uncount"}, Continue(t)
  PROVE  \E c \in CallRecords :
           /\ call' = [call EXCEPT ![t] = c] /\ CallHolds(c)
           /\ c.name = call[t].name \/ c.name = None
           /\ IF call[t].at = "uncount" THEN c.at \in {"idle", "pick"} ELSE c.at \in {"idle", "check", "count"}
           /\ "upload" \in {call[t].name, c.name} => c.name = call[t].name /\ c.file = call[t].file
<1>1. call[t] \in CallRecords /\ CallHolds(call[t]) BY DEF QType
<1>2. CASE call[t].then = "idle"
  <2>1. Return(t) BY <1>2 DEF Continue, Return
  <2>2. PICK c \in CallRecords : /\ call' = [call EXCEPT ![t] = c] /\ CallHolds(c)
                                 /\ c.at = "idle" /\ c.name = None
    BY <2>1, ReturnIs
  <2>3. call[t].name # "upload" /\ c.name # "upload"
    BY <1>1, <1>2, <2>2, Constants DEF CallHolds, Checking, AllCalls
  <2>4. QED BY <2>2, <2>3
<1>3. CASE call[t].then # "idle"
  <2>1. PICK c \in CallRecords : /\ call' = [call EXCEPT ![t] = c]
                                 /\ c.at = call[t].then /\ c.name = call[t].name /\ c.file = call[t].file
                                 /\ c.then = "idle"
    BY <1>3, ContinueIs
  <2>2. IF call[t].at = "uncount" THEN c.at = "pick" ELSE c.at \in {"check", "count"}
    BY <1>1, <1>3, <2>1 DEF CallHolds, Checking
  <2>3. CallHolds(c) BY <1>1, <1>3, <2>1, <2>2 DEF CallHolds, Checking
  <2>4. QED BY <2>1, <2>2, <2>3
<1>4. QED BY <1>2, <1>3

LEMMA TellDoes ==
  ASSUME QType, NEW t \in Threads, TellExceeded(t) \/ Warn(t)
  PROVE  Does(t)
<1>1. call[t].at \in {"exceeded", "warn"} /\ Continue(t) /\ UNCHANGED <<total, usage, disk, calls>>
  BY DEF TellExceeded, Warn, At
<1>2. PICK c \in CallRecords :
           /\ call' = [call EXCEPT ![t] = c] /\ CallHolds(c)
           /\ c.name = call[t].name \/ c.name = None
           /\ c.at \in {"idle", "check", "count"}
           /\ "upload" \in {call[t].name, c.name} => c.name = call[t].name /\ c.file = call[t].file
  BY <1>1, GoesOn
<1>3. Acts(t, c) BY <1>1, <1>2 DEF Acts, Passes, Settling
<1>4. told' \in BOOLEAN /\ (told' \/ (call[t].at = "warn" /\ UNCHANGED <<told, usage>>))
  BY <1>1 DEF TellExceeded, Warn, At, QType
<1>5. StillTells(t, c) BY <1>4 DEF StillTells, IsExceeded
<1>6. QED BY <1>1, <1>2, <1>3, <1>5, GoingOn

LEMMA ResetDoes ==
  ASSUME QType, NEW t \in Threads, ResetThresholdTriggers(t)
  PROVE  Does(t)
<1>1. call[t].at = "reset" /\ Return(t) /\ UNCHANGED <<total, usage, disk, calls, told>>
  BY DEF ResetThresholdTriggers, At
<1>2. PICK c \in CallRecords : /\ call' = [call EXCEPT ![t] = c] /\ CallHolds(c)
                               /\ c.at = "idle" /\ c.name = None
  BY <1>1, ReturnIs
<1>3. CallHolds(call[t]) BY DEF QType
<1>4. call[t].name # "upload" /\ c.name # "upload"
  BY <1>1, <1>2, <1>3, Constants DEF CallHolds, Checking, AllCalls
<1>5. Acts(t, c) BY <1>1, <1>2, <1>4 DEF Acts, Passes, Settling
<1>6. StillTells(t, c) BY <1>1 DEF StillTells, QType, IsExceeded
<1>7. QED BY <1>1, <1>2, <1>5, <1>6, GoingOn

LEMMA ScanDirectoryDoes ==
  ASSUME QType, NEW t \in Threads, ScanDirectory(t)
  PROVE  Does(t)
<1> DEFINE o == call[t]
           u == CalculateUsage
           c == [o EXCEPT !.at = "assign", !.seen = u]
<1>0. QType OBVIOUS
<1>1. o.at = "scan" /\ call' = [call EXCEPT ![t].at = "assign", ![t].seen = u]
      /\ UNCHANGED <<total, usage, triggered, disk, calls, told>>
  BY DEF ScanDirectory, At
<1>2. call' = [call EXCEPT ![t] = c] BY <1>1 DEF QType
<1>3. o \in CallRecords /\ CallHolds(o) /\ u \in Usages BY CalculateUsageType DEF QType
<1> HIDE DEF o, u
<1>4. c \in CallRecords BY <1>3 DEF CallRecords, Spots
<1>5. c.at = "assign" /\ c.seen = u /\ c.name = o.name /\ c.file = o.file /\ c.then = o.then /\ c.list = o.list
  BY <1>3 DEF CallRecords
<1> HIDE DEF c
<1>6. CallHolds(c) BY <1>1, <1>3, <1>5 DEF CallHolds, Checking
<1>7. Acts(t, c) BY <1>1, <1>5 DEF Acts, Passes, Settling, o
<1>8. StillTells(t, c) BY <1>0, <1>1 DEF StillTells, QType, IsExceeded, o
<1>9. QED BY <1>0, <1>1, <1>2, <1>4, <1>5, <1>6, <1>7, <1>8, GoingOn DEF o

LEMMA AssignUsageDoes ==
  ASSUME QType, NEW t \in Threads, AssignUsage(t)
  PROVE  Does(t)
<1>1. call[t].at = "assign" /\ Goto(t, "check") /\ SetUsage(call[t].seen) /\ UNCHANGED <<total, triggered, disk, calls>>
  BY DEF AssignUsage, At
<1>2. PICK c \in CallRecords : /\ call' = [call EXCEPT ![t] = c] /\ c.at = "check"
                               /\ c.name = call[t].name /\ c.file = call[t].file /\ c.then = call[t].then
  BY <1>1, GotoIs DEF Spots
<1>3. CallHolds(call[t]) BY DEF QType
<1>4. CallHolds(c) BY <1>1, <1>2, <1>3 DEF CallHolds, Checking
<1>5. usage' = call[t].seen /\ told' \in BOOLEAN BY <1>1, SetUsageTells
<1>6. Acts(t, c) BY <1>1, <1>2, <1>3, <1>5 DEF Acts, Assigns, CallHolds
<1>7. StillTells(t, c) BY <1>2, <1>5 DEF StillTells
<1>8. QED BY <1>1, <1>2, <1>4, <1>6, <1>7, GoingOn

LEMMA LessIsNoExcess ==
  ASSUME NEW u \in Usages, NEW v \in Usages, v.total = u.total, v.used <= u.used, IsExceeded(v)
  PROVE  IsExceeded(u)
<1>1. u.used \in Nat /\ v.used \in Nat /\ u.total \in Nat BY UsageFields, Constants
<1>2. QED BY <1>1 DEF IsExceeded

LEMMA RecordBytesRemovedDoes ==
  ASSUME QType, NEW t \in Threads, RecordBytesRemoved(t)
  PROVE  Does(t)
<1>1. call[t].at = "removed" /\ Goto(t, "uncount") /\ SetUsage(BytesRemoved(usage, Size[call[t].file]))
      /\ UNCHANGED <<total, triggered, disk, calls>>
  BY DEF RecordBytesRemoved, At
<1>2. PICK c \in CallRecords : /\ call' = [call EXCEPT ![t] = c] /\ c.at = "uncount"
                               /\ c.name = call[t].name /\ c.file = call[t].file /\ c.then = call[t].then
  BY <1>1, GotoIs DEF Spots
<1>3. CallHolds(call[t]) BY DEF QType
<1>4. CallHolds(c) BY <1>1, <1>2, <1>3 DEF CallHolds, Checking
<1> DEFINE v == BytesRemoved(usage, Size[c.file])
<1>5. usage' = v /\ told' \in BOOLEAN /\ (told' \/ ~IsExceeded(usage)' \/ ~told) BY <1>1, <1>2, SetUsageTells
<1>6. Acts(t, c) BY <1>1, <1>2, <1>5 DEF Acts, Discounts
<1>7. Size[c.file] \in Nat BY <1>1, <1>2, <1>3, Constants DEF CallHolds
<1>8. /\ v \in Usages /\ v.total = usage.total
      /\ v.used = IF Size[c.file] > usage.used THEN 0 ELSE usage.used - Size[c.file]
  BY <1>7, BytesRemovedType DEF QType
<1>9. usage \in Usages /\ usage.used \in Nat BY Constants, UsageFields DEF QType
<1> HIDE DEF v
<1>10. v.used <= usage.used BY <1>7, <1>8, <1>9
<1>11. IsExceeded(usage)' => IsExceeded(usage)
  <2>1. IsExceeded(usage)' <=> IsExceeded(v) BY <1>5 DEF IsExceeded
  <2>2. QED BY <1>8, <1>9, <1>10, <2>1, LessIsNoExcess
<1>12. StillTells(t, c) BY <1>1, <1>5, <1>11 DEF StillTells
<1>13. QED BY <1>1, <1>2, <1>4, <1>6, <1>12, GoingOn

LEMMA RecordFileRemovedDoes ==
  ASSUME QType, NEW t \in Threads, RecordFileRemoved(t)
  PROVE  Does(t)
<1> DEFINE u == [usage EXCEPT !.files = IF @ > 0 THEN @ - 1 ELSE 0]
<1>1. call[t].at = "uncount" /\ Continue(t) /\ SetUsage(u) /\ UNCHANGED <<total, triggered, disk, calls>>
  BY DEF RecordFileRemoved, At
<1>2. PICK c \in CallRecords : /\ call' = [call EXCEPT ![t] = c] /\ CallHolds(c)
                               /\ c.name = call[t].name \/ c.name = None
                               /\ c.at \in {"idle", "pick"}
  BY <1>1, GoesOn
<1>3. usage' = u /\ told' \in BOOLEAN /\ (told' \/ ~IsExceeded(usage)' \/ ~told) BY <1>1, SetUsageTells
<1>4. Acts(t, c) BY <1>1, <1>2, <1>3 DEF Acts, Uncounts
<1>5. u.used = usage.used /\ u.total = usage.total BY DEF QType, Usages
<1>6. IsExceeded(usage)' <=> IsExceeded(usage) BY <1>3, <1>5 DEF IsExceeded
<1>7. StillTells(t, c) BY <1>1, <1>3, <1>6 DEF StillTells
<1>8. QED BY <1>1, <1>2, <1>4, <1>7, GoingOn

\* A call begins, with nothing changed but the directory or the quota it is given.
LEMMA BeginningDoes ==
  ASSUME QType, NEW t \in Threads, NEW name \in AllCalls \ {"upload"}, NEW where \in (Spots \cup Places) \ (Settling \cup {"count"}),
         NEW then \in Thens, Enter(t, name, where, None, then),
         where \in {"list", "pick", "unlink"} <=> name = "cleanup", where \notin {"idle", "assign", "unlink"} \cup Checking,
         where = "scan" => name \in {"refresh", "set_quota"} /\ then \in {"idle", "check"},
         UNCHANGED <<usage, disk, told>>, total' \in Nat, total' = total \/ name = "set_quota"
  PROVE  Does(t)
<1>1. PICK c \in CallRecords :
           /\ call' = [call EXCEPT ![t] = c]
           /\ c.at = where /\ c.name = name /\ c.file = None /\ c.then = then /\ c.list = <<>>
           /\ call[t].at = "idle" /\ call[t].name = None
           /\ calls' \in [made : Nat, of : SUBSET AllCalls, overlapped : SUBSET AllCalls]
           /\ calls'.of = calls.of \cup {name} /\ calls.overlapped \subseteq calls'.overlapped
           /\ name \in calls'.overlapped \/ \A u \in Threads : call[u].name # name
  BY EnterIs
<1>2. CallHolds(c) BY <1>1 DEF CallHolds, Settling, Checking
<1>3. c.name # "upload" /\ call[t].name # "upload" BY <1>1, Constants DEF AllCalls
<1>4. Acts(t, c) BY <1>1, <1>3 DEF Acts, Passes, Settling
<1>5. StillTells(t, c) BY <1>1 DEF StillTells, QType, IsExceeded
<1>6. Leaves(t, c) BY <1>1, <1>2 DEF Leaves
<1>7. QED BY <1>4, <1>5, <1>6 DEF Does

LEMMA AcceptDoes ==
  ASSUME QType, NEW t \in Threads, NEW f \in Files, Accept(t, f)
  PROVE  Does(t)
<1>1. /\ f \notin Range(disk) /\ (\A u \in Threads : call[u].file # f) /\ CheckQuota(Size[f])
      /\ Enter(t, "upload", "store", f, "count") /\ UNCHANGED <<total, usage, disk, told>>
  BY DEF Accept, CheckUploadAllowed
<1>2. "upload" \in AllCalls /\ "store" \in Spots \cup Places /\ "count" \in Thens BY DEF AllCalls, Spots, Thens
<1>3. PICK c \in CallRecords :
           /\ call' = [call EXCEPT ![t] = c]
           /\ c.at = "store" /\ c.name = "upload" /\ c.file = f /\ c.then = "count" /\ c.list = <<>>
           /\ call[t].at = "idle" /\ call[t].name = None
           /\ calls' \in [made : Nat, of : SUBSET AllCalls, overlapped : SUBSET AllCalls]
           /\ calls'.of = calls.of \cup {"upload"} /\ calls.overlapped \subseteq calls'.overlapped
           /\ "upload" \in calls'.overlapped \/ \A u \in Threads : call[u].name # "upload"
  BY <1>1, <1>2, EnterIs
<1>4. CallHolds(c) BY <1>3 DEF CallHolds, Checking
<1>5. Acts(t, c) BY <1>1, <1>3 DEF Acts, Accepts
<1>6. StillTells(t, c) BY <1>1, <1>3 DEF StillTells, QType, IsExceeded
<1>7. Leaves(t, c) BY <1>1, <1>3, <1>4 DEF Leaves, QType
<1>8. QED BY <1>5, <1>6, <1>7 DEF Does

LEMMA DeleteFileDoes ==
  ASSUME QType, NEW t \in Threads, NEW f \in Files, DeleteFile(t, f)
  PROVE  Does(t)
<1>1. /\ f \in Range(disk) /\ \A u \in Threads : call[u].file # f
      /\ Enter(t, "delete", "removed", f, "idle") /\ disk' = Without(f) /\ UNCHANGED <<total, usage, told>>
  BY DEF DeleteFile
<1>2. "delete" \in AllCalls /\ "removed" \in Spots \cup Places /\ "idle" \in Thens BY DEF AllCalls, Spots, Thens
<1>3. PICK c \in CallRecords :
           /\ call' = [call EXCEPT ![t] = c]
           /\ c.at = "removed" /\ c.name = "delete" /\ c.file = f /\ c.then = "idle" /\ c.list = <<>>
           /\ call[t].at = "idle" /\ call[t].name = None
           /\ calls' \in [made : Nat, of : SUBSET AllCalls, overlapped : SUBSET AllCalls]
           /\ calls'.of = calls.of \cup {"delete"} /\ calls.overlapped \subseteq calls'.overlapped
           /\ "delete" \in calls'.overlapped \/ \A u \in Threads : call[u].name # "delete"
  BY <1>1, <1>2, EnterIs
<1>4. CallHolds(c) BY <1>3 DEF CallHolds, Checking
<1>5. Acts(t, c) BY <1>1, <1>3 DEF Acts, Removes
<1>6. StillTells(t, c) BY <1>1, <1>3 DEF StillTells, QType, IsExceeded
<1>7. Leaves(t, c) BY <1>1, <1>3, <1>4 DEF Leaves, QType
<1>8. QED BY <1>5, <1>6, <1>7 DEF Does

LEMMA CallDoes ==
  ASSUME QType, NEW t \in Threads, Call(t)
  PROVE  Does(t)
<1> USE DEF AllCalls, Spots, Places, Thens, Settling, Checking
<1>1. CASE \E f \in Files : Accept(t, f) \/ DeleteFile(t, f) BY <1>1, AcceptDoes, DeleteFileDoes
<1>2. total \in Nat /\ None = None BY DEF QType
<1>3. CASE CallReset(t)
  <2>1. Enter(t, "reset", "reset", None, "idle") /\ UNCHANGED <<total, usage, disk, told>> BY <1>3 DEF CallReset
  <2>2. QED BY <1>2, <2>1, BeginningDoes
<1>4. CASE CallRefresh(t)
  <2>1. Enter(t, "refresh", "scan", None, "idle") /\ UNCHANGED <<total, usage, disk, told>> BY <1>4 DEF CallRefresh
  <2>2. QED BY <1>2, <2>1, BeginningDoes
<1>5. CASE BeginCleanup(t)
  <2>1. Enter(t, "cleanup", "list", None, "idle") /\ UNCHANGED <<total, usage, disk, told>> BY <1>5 DEF BeginCleanup
  <2>2. QED BY <1>2, <2>1, BeginningDoes
<1>6. CASE \E bytes \in Quotas : SetTotalQuota(t, bytes)
  <2>1. PICK bytes \in Quotas : Enter(t, "set_quota", "scan", None, "check") /\ total' = bytes /\ UNCHANGED <<usage, disk, told>>
    BY <1>6 DEF SetTotalQuota
  <2>2. total' \in Nat BY <2>1, Constants
  <2>3. QED BY <2>1, <2>2, BeginningDoes
<1>7. QED BY <1>1, <1>3, <1>4, <1>5, <1>6 DEF Call

LEMMA DiskIsFiles == QType => Reverse(disk) \in Seq(Files)
<1> SUFFICES ASSUME QType PROVE Reverse(disk) \in Seq(Files) OBVIOUS
<1> DEFINE n == Len(disk)
<1>1. n \in Nat /\ \A i \in 1..n : disk[i] \in Files BY LenProperties, ElementOfSeq DEF QType
<1>2. Reverse(disk) = [i \in 1..n |-> disk[n - i + 1]] BY DEF Reverse
<1> HIDE DEF n
<1>3. \A i \in 1..n : n - i + 1 \in 1..n BY <1>1
<1>4. \A i \in 1..n : disk[n - i + 1] \in Files BY <1>1, <1>3
<1>5. QED BY <1>1, <1>2, <1>4, IsASeq

\* A cleanup goes through its list.
LEMMA CleanupGoesOn ==
  ASSUME QType, NEW t \in Threads, call[t].at \in {"list", "pick", "unlink"}, NEW at \in {"pick", "unlink"},
         NEW list \in Seq(Files), at = "unlink" => list # <<>>, NEW file \in Files \cup {None},
         call' = [call EXCEPT ![t] = [[[call[t] EXCEPT !.at = at] EXCEPT !.file = file] EXCEPT !.list = list]],
         UNCHANGED <<total, usage, triggered, disk, calls, told>>
  PROVE  Does(t)
<1> DEFINE o == call[t]
           c == [[[o EXCEPT !.at = at] EXCEPT !.file = file] EXCEPT !.list = list]
<1>0. QType OBVIOUS
<1>1. call' = [call EXCEPT ![t] = c] /\ o.at \in {"list", "pick", "unlink"} OBVIOUS
<1>2. o \in CallRecords /\ CallHolds(o) BY DEF QType
<1> HIDE DEF o
<1>3. c \in CallRecords BY <1>2 DEF CallRecords, Spots
<1>4. c.at = at /\ c.name = o.name /\ c.file = file /\ c.then = o.then /\ c.list = list BY <1>2 DEF CallRecords
<1> HIDE DEF c
<1>5. o.name = "cleanup" BY <1>1, <1>2 DEF CallHolds
<1>6. CallHolds(c) BY <1>1, <1>2, <1>4, <1>5 DEF CallHolds, Checking
<1>7. o = call[t] BY DEF o
<1>8. Acts(t, c) BY <1>1, <1>4, <1>5, <1>7 DEF Acts, Passes, Settling
<1>9. StillTells(t, c) BY <1>0, <1>1, <1>7 DEF StillTells, QType, IsExceeded
<1>10. QED BY <1>0, <1>1, <1>3, <1>4, <1>6, <1>7, <1>8, <1>9, GoingOn

LEMMA ListFilesDoes ==
  ASSUME QType, NEW t \in Threads, ListFiles(t)
  PROVE  Does(t)
<1> DEFINE list == IF OldestFirst THEN disk ELSE Reverse(disk)
           o == call[t]
<1>1. o.at = "list" /\ call' = [call EXCEPT ![t].at = "pick", ![t].list = list]
      /\ UNCHANGED <<total, usage, triggered, disk, calls, told>>
  BY DEF ListFiles, At
<1>2. list \in Seq(Files) /\ o \in CallRecords BY DiskIsFiles DEF QType
<1>3. o.file \in Files \cup {None} BY <1>2, CallFields
<1> HIDE DEF list
<1>4. call' = [call EXCEPT ![t] = [[o EXCEPT !.at = "pick"] EXCEPT !.list = list]] BY <1>1 DEF QType
<1>5. [[o EXCEPT !.at = "pick"] EXCEPT !.list = list]
        = [[[o EXCEPT !.at = "pick"] EXCEPT !.file = o.file] EXCEPT !.list = list]
  <2> HIDE DEF o
  <2>1. QED BY <1>2 DEF CallRecords
<1>6. call' = [call EXCEPT ![t] = [[[o EXCEPT !.at = "pick"] EXCEPT !.file = o.file] EXCEPT !.list = list]]
  BY <1>4, <1>5
<1>7. QED BY <1>1, <1>2, <1>3, <1>6, CleanupGoesOn

LEMMA PickFileDoes ==
  ASSUME QType, NEW t \in Threads, PickFile(t)
  PROVE  Does(t)
<1> DEFINE o == call[t]
           n == None
<1>0. QType OBVIOUS
<1>1. o.at = "pick" /\ UNCHANGED <<total, usage, triggered, disk, calls, told>> BY DEF PickFile, At
<1>2. o \in CallRecords /\ CallHolds(o) /\ o.list \in Seq(Files) BY CallFields DEF QType
<1>3. CASE o.list = <<>> \/ TargetReached
  <2>1. Return(t) BY <1>3 DEF PickFile
  <2>2. PICK c \in CallRecords : /\ call' = [call EXCEPT ![t] = c] /\ CallHolds(c)
                                 /\ c.at = "idle" /\ c.name = None
    BY <2>1, ReturnIs
  <2>3. o.name # "upload" /\ c.name # "upload" BY <1>1, <1>2, <2>2, Constants DEF CallHolds, Checking, AllCalls
  <2>4. Acts(t, c) BY <1>1, <2>2, <2>3 DEF Acts, Passes, Settling
  <2>5. StillTells(t, c) BY <1>0, <1>1 DEF StillTells, QType, IsExceeded
  <2>6. QED BY <1>1, <2>2, <2>4, <2>5, GoingOn
<1>4. CASE ~(o.list = <<>> \/ TargetReached)
  <2>1. n \in Files \cup {None} /\ Tail(o.list) \in Seq(Files) BY <1>2, <1>4, HeadTailProperties
  <2>2. \/ call' = [call EXCEPT ![t].at = "unlink", ![t].file = n]
        \/ call' = [call EXCEPT ![t].list = Tail(o.list), ![t].file = n]
    BY <1>4 DEF PickFile
  <2> DEFINE l == Tail(o.list)
  <2> HIDE DEF n
  <2>3. CASE call' = [call EXCEPT ![t].at = "unlink", ![t].file = n]
    <3>1. call' = [call EXCEPT ![t] = [[o EXCEPT !.at = "unlink"] EXCEPT !.file = n]] BY <2>3 DEF QType
    <3>2. [[o EXCEPT !.at = "unlink"] EXCEPT !.file = n]
            = [[[o EXCEPT !.at = "unlink"] EXCEPT !.file = n] EXCEPT !.list = o.list]
      <4> HIDE DEF o
      <4>1. QED BY <1>2 DEF CallRecords
    <3>3. call' = [call EXCEPT ![t] = [[[o EXCEPT !.at = "unlink"] EXCEPT !.file = n] EXCEPT !.list = o.list]]
      BY <3>1, <3>2
    <3>4. QED BY <1>1, <1>2, <1>4, <2>1, <3>3, CleanupGoesOn
  <2>4. CASE call' = [call EXCEPT ![t].list = l, ![t].file = n]
    <3> HIDE DEF l
    <3>1. call' = [call EXCEPT ![t] = [[o EXCEPT !.list = l] EXCEPT !.file = n]] BY <2>4 DEF QType
    <3>2. [[o EXCEPT !.list = l] EXCEPT !.file = n] = [[[o EXCEPT !.at = "pick"] EXCEPT !.file = n] EXCEPT !.list = l]
      <4> HIDE DEF o
      <4>1. QED BY <1>1, <1>2 DEF CallRecords
    <3>3. call' = [call EXCEPT ![t] = [[[o EXCEPT !.at = "pick"] EXCEPT !.file = n] EXCEPT !.list = l]]
      BY <3>1, <3>2
    <3>4. l \in Seq(Files) BY <2>1 DEF l
    <3>5. QED BY <1>1, <2>1, <3>3, <3>4, CleanupGoesOn
  <2>5. QED BY <2>2, <2>3, <2>4
<1>5. QED BY <1>3, <1>4

LEMMA UnlinkFileDoes ==
  ASSUME QType, NEW t \in Threads, UnlinkFile(t)
  PROVE  Does(t)
<1> DEFINE o == call[t]
           f == Head(o.list)
           l == Tail(o.list)
<1>0. QType OBVIOUS
<1>1. o.at = "unlink" /\ UNCHANGED <<total, usage, triggered, calls, told>> BY DEF UnlinkFile, At
<1>2. o \in CallRecords /\ CallHolds(o) /\ o.list \in Seq(Files) BY CallFields DEF QType
<1>3. f \in Files /\ l \in Seq(Files) BY <1>1, <1>2, HeadTailProperties DEF CallHolds
<1>4. IF f \in Range(disk)
      THEN /\ disk' = Without(f)
           /\ call' = [call EXCEPT ![t].at = "removed", ![t].file = f, ![t].then = "pick", ![t].list = l]
      ELSE call' = [call EXCEPT ![t].at = "pick", ![t].list = l] /\ UNCHANGED disk
  BY DEF UnlinkFile
<1> HIDE DEF f, l
<1>5. CASE f \in Range(disk)
  <2> DEFINE c == [o EXCEPT !.at = "removed", !.file = f, !.then = "pick", !.list = l]
  <2>1. call' = [call EXCEPT ![t] = c] BY <1>4, <1>5 DEF QType
  <2>2. o.name = "cleanup" BY <1>1, <1>2 DEF CallHolds
  <2> HIDE DEF o
  <2>3. c \in CallRecords BY <1>2, <1>3 DEF CallRecords, Spots, Thens
  <2>4. c.at = "removed" /\ c.name = o.name /\ c.file = f /\ c.then = "pick" /\ c.list = l BY <1>2 DEF CallRecords
  <2> HIDE DEF c
  <2>5. CallHolds(c) BY <1>1, <1>2, <1>3, <2>2, <2>4 DEF CallHolds, Checking
  <2>6. o = call[t] BY DEF o
  <2>7. Acts(t, c) BY <1>1, <1>4, <1>5, <2>2, <2>4, <2>6 DEF Acts, Removes
  <2>8. StillTells(t, c) BY <1>0, <1>1, <2>6 DEF StillTells, QType, IsExceeded
  <2>9. QED BY <1>0, <1>1, <2>1, <2>3, <2>4, <2>5, <2>6, <2>7, <2>8, GoingOn
<1>6. CASE f \notin Range(disk)
  <2>1. call' = [call EXCEPT ![t] = [[o EXCEPT !.at = "pick"] EXCEPT !.list = l]] BY <1>4, <1>6 DEF QType
  <2>2. [[o EXCEPT !.at = "pick"] EXCEPT !.list = l] = [[[o EXCEPT !.at = "pick"] EXCEPT !.file = o.file] EXCEPT !.list = l]
    <3> HIDE DEF o
    <3>1. QED BY <1>2 DEF CallRecords
  <2>3. call' = [call EXCEPT ![t] = [[[o EXCEPT !.at = "pick"] EXCEPT !.file = o.file] EXCEPT !.list = l]]
    BY <2>1, <2>2
  <2>4. o.file \in Files \cup {None} BY <1>2, CallFields
  <2>5. QED BY <1>1, <1>3, <1>4, <1>6, <2>3, <2>4, CleanupGoesOn
<1>7. QED BY <1>5, <1>6

LEMMA StepDoes ==
  ASSUME QType, NEW t \in Threads, Step(t)
  PROVE  Does(t)
BY StoreDoes, RecordBytesAddedDoes, RecordFileAddedDoes, LookAtUsageDoes, TellDoes, ResetDoes, ScanDirectoryDoes,
   AssignUsageDoes, RecordBytesRemovedDoes, RecordFileRemovedDoes, ListFilesDoes, PickFileDoes, UnlinkFileDoes
   DEF Step

\* Starting and stopping the server leaves its manager alone.
LEMMA LifecycleDoes ==
  ASSUME QType, NEW t \in Threads, ServerStep(t)
  PROVE  Does(t)
<1> USE DEF AllCalls, Spots, Places, Thens, Settling, Checking
<1>1. CASE Start(t) \/ Stop(t)
  <2>1. PICK name \in {"start", "stop"}, where \in {"begin", "halt"} :
          Enter(t, name, where, None, "idle") /\ UNCHANGED <<total, usage, disk, told>>
    BY <1>1 DEF Start, Stop, Begins
  <2>2. total \in Nat BY DEF QType
  <2>3. QED BY <2>1, <2>2, BeginningDoes
<1>2. CASE ~(Start(t) \/ Stop(t))
  <2>1. call[t].at \in Places /\ UNCHANGED <<total, usage, disk, calls, told>>
    BY <1>2 DEF ServerStep, StartBegins, StartServer, StartEnds, StopBegins, StopServer, StopFails, StopEnds,
                ForgetPort, ManagerStays, At
  <2>2. Return(t) \/ \E at \in Places : Goto(t, at)
    BY <1>2 DEF ServerStep, StartBegins, StartServer, StartEnds, StopBegins, StopServer, StopFails, StopEnds,
                ForgetPort
  <2>3. CallHolds(call[t]) BY DEF QType
  <2>4. PICK c \in CallRecords : /\ call' = [call EXCEPT ![t] = c] /\ CallHolds(c)
                                 /\ c.at \in Places \cup {"idle"} /\ c.name \in {call[t].name, None}
    <3>1. CASE Return(t) BY <3>1, ReturnIs
    <3>2. CASE \E at \in Places : Goto(t, at)
      <4>1. PICK at \in Places : Goto(t, at) BY <3>2
      <4>2. PICK c \in CallRecords : /\ call' = [call EXCEPT ![t] = c] /\ c.at = at
                                     /\ c.name = call[t].name /\ c.file = call[t].file /\ c.then = call[t].then
        BY <4>1, GotoIs
      <4>3. CallHolds(c) BY <2>1, <2>3, <4>2 DEF CallHolds
      <4>4. QED BY <4>2, <4>3
    <3>3. QED BY <2>2, <3>1, <3>2
  <2>5. c.name # "upload" /\ call[t].name # "upload" BY <2>1, <2>3, <2>4, Constants DEF CallHolds
  <2>6. Acts(t, c) BY <2>1, <2>4, <2>5 DEF Acts, Passes
  <2>7. StillTells(t, c) BY <2>1 DEF StillTells, QType, IsExceeded
  <2>8. QED BY <2>1, <2>4, <2>6, <2>7, GoingOn
<1>3. QED BY <1>1, <1>2

LEMMA Others ==
  ASSUME QType, NEW t \in Threads, NEW c, Leaves(t, c)
  PROVE  \A u \in Threads : call'[u] = IF u = t THEN c ELSE call[u]
BY DEF QType, Leaves

LEMMA ActsKeepQType ==
  ASSUME QType, QFiles, NEW t \in Threads, NEW c, Acts(t, c), Leaves(t, c), StillTells(t, c)
  PROVE  QType'
<1>1. \A u \in Threads : call'[u] = IF u = t THEN c ELSE call[u] BY Others
<1>2. call' \in [Threads -> CallRecords] BY DEF QType, Leaves
<1>3. \A u \in Threads : CallHolds(call'[u]) /\ call'[u].name \in calls'.of \cup {None} BY <1>1 DEF QType, Leaves
<1>4. disk' \in Seq(Files) /\ Distinct(disk')
  <2>1. CASE disk' = disk BY <2>1 DEF QType
  <2>2. CASE Stores(t, c)
    <3>1. c.file \in Files \ Range(disk) BY <2>2 DEF QFiles, Leaves, CallHolds, Stores
    <3>2. QED BY <2>2, <3>1, DiskAppended DEF QType, Stores
  <2>3. CASE Removes(t, c) BY <2>3, DiskRemoved DEF QType, Removes
  <2>4. QED BY <2>1, <2>2, <2>3 DEF Acts, Passes, Accepts, Adds, Counts, Discounts, Uncounts, Assigns
<1>5. usage' \in Usages
  <2>1. CASE Adds(t, c)
    <3>1. Size[c.file] \in Nat BY <2>1, <1>1, <1>3, Constants DEF Adds, QType, Leaves, CallHolds
    <3>2. QED BY <2>1, <3>1, BytesAddedType DEF Adds, QType
  <2>2. CASE Discounts(t, c)
    <3>1. Size[c.file] \in Nat BY <2>2, Constants DEF Discounts, Leaves, CallHolds
    <3>2. QED BY <2>2, <3>1, BytesRemovedType DEF Discounts, QType
  <2>3. CASE Counts(t, c) BY <2>3 DEF Counts, QType, Usages
  <2>4. CASE Uncounts(t, c)
    <3> DEFINE n == IF usage.files > 0 THEN usage.files - 1 ELSE 0
    <3>1. usage \in Usages /\ usage' = [usage EXCEPT !.files = n] BY <2>4 DEF Uncounts, QType
    <3>2. n \in Nat BY <3>1, UsageFields
    <3> HIDE DEF n
    <3>3. QED BY <3>1, <3>2 DEF Usages
  <2>5. CASE Assigns(t, c) BY <2>5 DEF Assigns
  <2>6. CASE UNCHANGED usage BY <2>6 DEF QType
  <2>7. QED BY <2>1, <2>2, <2>3, <2>4, <2>5, <2>6 DEF Acts, Passes, Accepts, Stores, Removes
<1>6. QED BY <1>2, <1>3, <1>4, <1>5 DEF QType, Leaves, StillTells

\* What is in the directory after a step.
LEMMA RangeAfter ==
  ASSUME QType, QFiles, NEW t \in Threads, NEW c, Acts(t, c), Leaves(t, c)
  PROVE  Range(disk') = IF Stores(t, c) THEN Range(disk) \cup {c.file}
                        ELSE IF Removes(t, c) THEN Range(disk) \ {c.file} ELSE Range(disk)
<1>1. CASE Stores(t, c)
  <2>1. c.file \in Files \ Range(disk) BY <1>1 DEF QFiles, Leaves, CallHolds, Stores
  <2>2. QED BY <1>1, <2>1, DiskAppended DEF QType, Stores
<1>2. CASE ~Stores(t, c) /\ Removes(t, c) BY <1>2, DiskRemoved DEF QType, Removes
<1>3. CASE ~Stores(t, c) /\ ~Removes(t, c)
  BY <1>3 DEF Acts, Passes, Accepts, Adds, Counts, Discounts, Uncounts, Assigns
<1>4. QED BY <1>1, <1>2, <1>3

\* Which of an upload's and a removal's places a call leaves and enters.
LEMMA ActsKeepQFiles ==
  ASSUME QType, QFiles, NEW t \in Threads, NEW c, Acts(t, c), Leaves(t, c), StillTells(t, c)
  PROVE  QFiles'
<1> DEFINE o == call[t]
           d == Range(disk)
           e == Range(disk')
<1>1. \A u \in Threads : call'[u] = IF u = t THEN c ELSE call[u] BY Others
<1>2. e = IF Stores(t, c) THEN d \cup {c.file} ELSE IF Removes(t, c) THEN d \ {c.file} ELSE d BY RangeAfter
<1>3. CallHolds(o) /\ CallHolds(c) /\ \A u \in Threads : CallHolds(call[u]) BY DEF QType, Leaves
<1> HIDE DEF d, e
\* the places of the stepping thread
<1>4. c.at = "store" => /\ c.file \notin d /\ e = d /\ \A u \in Threads : call[u].file # c.file
  BY <1>2 DEF Acts, Passes, Accepts, Stores, Adds, Counts, Removes, Discounts, Uncounts, Assigns, Settling, d
<1>5. Leaving(c) => \/ Leaving(o) /\ c.file = o.file /\ e = d
                    \/ c.file \in d /\ e = d \ {c.file}
  BY <1>2 DEF Acts, Passes, Accepts, Stores, Adds, Counts, Removes, Discounts, Uncounts, Assigns, Settling, d, Leaving
<1>6. c.name = "upload" => (o.name = "upload" /\ c.file = o.file) \/ \A u \in Threads : call[u].file # c.file
  <2>1. CASE c.at = "store" BY <1>4, <2>1
  <2>2. CASE c.at # "store"
    <3>1. CASE Passes(t, c) BY <3>1 DEF Passes
    <3>2. CASE ~Passes(t, c)
      <4>1. c.name = "upload" => Stores(t, c) \/ Adds(t, c)
        BY <1>3, <2>2, <3>2
           DEF Acts, Accepts, Counts, Removes, Discounts, Uncounts, Assigns, CallHolds, Checking
      <4>2. QED BY <4>1 DEF Stores, Adds
    <3>3. QED BY <3>1, <3>2
  <2>3. QED BY <2>1, <2>2
<1>7. \A u \in Threads : (u # t /\ (call[u].at = "store" \/ Leaving(call[u]))) => call[u].file \notin e
  <2> SUFFICES ASSUME NEW u \in Threads, u # t, call[u].at = "store" \/ Leaving(call[u]) PROVE call[u].file \notin e
    OBVIOUS
  <2>1. call[u].file \notin d BY DEF QFiles, d
  <2>2. ASSUME Stores(t, c) PROVE call[u].file # c.file
    <3>1. o.at = "store" /\ c.file = o.file BY <2>2 DEF Stores
    <3>2. o.name = "upload" /\ (call[u].at = "store" => call[u].name = "upload") BY <1>3, <3>1 DEF CallHolds
    <3>3. QED BY <3>1, <3>2 DEF QFiles
  <2>3. QED BY <1>2, <2>1, <2>2
<1>8. (\A u \in Threads : call'[u].at = "store" \/ Leaving(call'[u]) => call'[u].file \notin e)
  <2>1. c.at = "store" \/ Leaving(c) => c.file \notin e BY <1>4, <1>5 DEF QFiles, d
  <2>2. QED BY <1>1, <1>7, <2>1
<1>9. \A u, v \in Threads : call'[u].name = "upload" /\ call'[v].name = "upload" /\ call'[u].file = call'[v].file => u = v
  BY <1>1, <1>6 DEF QFiles
<1>10. \A u, v \in Threads : Leaving(call'[u]) /\ (Leaving(call'[v]) \/ call'[v].at = "store") /\ call'[u].file = call'[v].file
          => u = v
  <2> SUFFICES ASSUME NEW u \in Threads, NEW v \in Threads, Leaving(call'[u]), Leaving(call'[v]) \/ call'[v].at = "store",
                      call'[u].file = call'[v].file, u # v
               PROVE FALSE
    OBVIOUS
  <2>1. CASE u # t /\ v # t BY <1>1, <2>1 DEF QFiles
  <2>2. CASE u = t
    <3>1. Leaving(c) /\ call'[u] = c /\ call'[v] = call[v] BY <1>1, <2>2
    <3>2. call[v].file \notin d BY <1>1, <2>2, <3>1 DEF QFiles, d
    <3>3. Leaving(o) /\ c.file = o.file BY <1>5, <3>1, <3>2
    <3>4. QED BY <2>2, <3>1, <3>3 DEF QFiles
  <2>3. CASE v = t
    <3>1. Leaving(call[u]) /\ call'[u] = call[u] /\ call'[v] = c BY <1>1, <2>3
    <3>2. call[u].file \notin d BY <3>1 DEF QFiles, d
    <3>3. CASE c.at = "store" BY <1>4, <3>1, <3>3
    <3>4. CASE Leaving(c)
      <4>1. Leaving(o) /\ c.file = o.file BY <1>5, <3>1, <3>2, <3>4
      <4>2. QED BY <2>3, <3>1, <4>1 DEF QFiles
    <3>5. QED BY <3>1, <3>3, <3>4
  <2>4. QED BY <2>1, <2>2, <2>3
<1>11. QED BY <1>8, <1>9, <1>10 DEF QFiles, Leaving, e

LEMMA ActsKeepQExcess ==
  ASSUME QType, QExcess, NEW t \in Threads, NEW c, Leaves(t, c), StillTells(t, c)
  PROVE  QExcess'
<1>1. \A u \in Threads : call'[u] = IF u = t THEN c ELSE call[u] BY Others
<1>2. CASE told' \/ ~IsExceeded(usage)' BY <1>2 DEF QExcess, IsExceeded
<1>3. CASE c.at \in {"check", "exceeded"} BY <1>1, <1>3 DEF QExcess
<1>4. CASE IsExceeded(usage) /\ ~told /\ call[t].at \notin {"check", "exceeded"}
  <2>1. PICK u \in Threads : call[u].at \in {"check", "exceeded"} BY <1>4 DEF QExcess
  <2>2. call'[u].at \in {"check", "exceeded"} BY <1>1, <1>4, <2>1
  <2>3. QED BY <2>2 DEF QExcess
<1>5. QED BY <1>2, <1>3, <1>4 DEF StillTells

LEMMA InitQBase == ServerInit => QBase
<1> SUFFICES ASSUME ServerInit PROVE QBase OBVIOUS
<1>1. /\ total = Quota /\ disk = <<>> /\ usage = CalculateUsage /\ call = [t \in Threads |-> Idle]
      /\ calls = [made |-> 0, of |-> {}, overlapped |-> {}] /\ told = IsExceeded(usage)
  BY DEF ServerInit, Init
<1>2. disk \in Seq(Files) /\ Distinct(disk) /\ Range(disk) = {}
  <2>1. <<>> \in Seq(Files) /\ Len(<<>>) = 0 OBVIOUS
  <2>2. Range(disk) = {} BY <1>1 DEF Range
  <2>3. QED BY <1>1, <2>1, <2>2 DEF Distinct
<1>3. usage \in Usages
  <2>1. Stored = 0 BY <1>2, SizeOfNone DEF Stored, SizeOf
  <2>2. Stored % Word = 0 BY <2>1, Constants
  <2>3. Len(disk) = 0 BY <1>1
  <2>4. usage = [total |-> Quota, used |-> 0, files |-> 0,
                 available |-> IF Quota > 0 THEN Remaining(0, Quota) ELSE Free,
                 percent |-> IF Quota > 0 THEN Percent(0, Quota) ELSE NoPercent]
    BY <1>1, <2>2, <2>3 DEF CalculateUsage
  <2>5. QED BY <2>4, Constants DEF Usages, Remaining, Percent, NoPercent
<1>4. \A t \in Threads : call[t] = Idle BY <1>1
<1>5. calls \in [made : Nat, of : SUBSET AllCalls, overlapped : SUBSET AllCalls] BY <1>1
<1>6. QType BY <1>1, <1>2, <1>3, <1>4, <1>5, IdleIs, Constants DEF QType, IsExceeded
<1>7. QFiles BY <1>4, IdleIs, Constants DEF QFiles, Leaving, AllCalls
<1>8. QExcess BY <1>1 DEF QExcess
<1>9. QED BY <1>6, <1>7, <1>8 DEF QBase

\* Every step of the server is one of the manager's, or leaves all of it as it is.
LEMMA NextDoes ==
  ASSUME QType, [ServerNext]_allVars
  PROVE  (\E t \in Threads : Does(t)) \/ UNCHANGED vars
<1>1. CASE Next BY <1>1, StepDoes, CallDoes DEF Next
<1>2. CASE \E t \in Threads : ServerStep(t) BY <1>2, LifecycleDoes
<1>3. CASE UNCHANGED allVars BY <1>3 DEF allVars
<1>4. QED BY <1>1, <1>2, <1>3 DEF ServerNext

LEMMA NextKeepsQBase == QBase /\ [ServerNext]_allVars => QBase'
<1> SUFFICES ASSUME QBase, [ServerNext]_allVars PROVE QBase' OBVIOUS
<1>1. CASE UNCHANGED vars BY <1>1 DEF vars, QBase, QType, QFiles, QExcess, Leaving, IsExceeded
<1>2. ASSUME NEW t \in Threads, NEW c, Acts(t, c), Leaves(t, c), StillTells(t, c) PROVE QBase'
  BY <1>2, ActsKeepQType, ActsKeepQFiles, ActsKeepQExcess DEF QBase
<1>3. QED BY <1>1, <1>2, NextDoes DEF QBase, Does

(* An excess is announced (check_thresholds): whenever no call is in        *)
(* progress and the usage is at the quota, exceeded_callback was called     *)
(* since it was last below, for any threads, files, sizes and thresholds,   *)
(* although a copy of the usage decides after the lock is gone.             *)
THEOREM ExcessAnnounced == ServerSpec => []ExcessIsAnnounced
<1>1. QBase => ExcessIsAnnounced BY DEF QBase, QExcess, ExcessIsAnnounced, Quiet, At
<1>2. QED BY <1>1, InitQBase, NextKeepsQBase, PTL DEF ServerSpec

-----------------------------------------------------------------------------
(***************************************************************************)
(* While files are only uploaded and deleted, the cached usage counts the  *)
(* files of the directory, without those whose record is outstanding.      *)
(***************************************************************************)
LEMMA CountedIs ==
  \A x : x \in Counted <=> \/ x \in Range(disk) /\ \A u \in Threads : ~(call[u].at = "add" /\ call[u].file = x)
                           \/ \E u \in Threads : call[u].at = "removed" /\ call[u].file = x
BY DEF Counted, FilesAt

LEMMA TalliedIs ==
  \A x : x \in Tallied <=> \/ x \in Range(disk) /\ \A u \in Threads : ~(call[u].name = "upload" /\ call[u].file = x)
                           \/ \E u \in Threads : Leaving(call[u]) /\ call[u].file = x
BY DEF Tallied, FilesAt, Uploading, Leaving

\* The files a step adds to those counted, and takes away from them.
InBytes(t, c)   == IF Adds(t, c) THEN {c.file} ELSE {}
OutBytes(t, c)  == IF Discounts(t, c) THEN {c.file} ELSE {}
InFiles(t, c)   == IF Counts(t, c) THEN {call[t].file} ELSE {}
OutFiles(t, c)  == IF Uncounts(t, c) THEN {call[t].file} ELSE {}

LEMMA PlainActs ==
  ASSUME QType, NEW t \in Threads, NEW c, Acts(t, c), Leaves(t, c), Plain'
  PROVE  /\ Plain /\ c.name # "cleanup" /\ call[t].name # "cleanup"
         /\ ~Assigns(t, c)
         /\ total' = total
<1>1. Plain BY DEF Plain, Leaves
<1>2. c.name # "cleanup" /\ call[t].name # "cleanup"
  BY <1>1, Constants DEF Plain, Leaves, QType, AllCalls
<1>3. ~Assigns(t, c)
  <2>1. CallHolds(call[t]) /\ call[t].name \in calls.of \cup {None} BY DEF QType
  <2>2. call[t].name \notin {"refresh", "set_quota"} BY <1>1, <2>1, Constants DEF Plain, AllCalls
  <2>3. QED BY <2>1, <2>2 DEF Assigns, CallHolds
<1>4. total' = total BY DEF Leaves, Plain
<1>5. QED BY <1>1, <1>2, <1>3, <1>4

LEMMA ActsKeepStored ==
  ASSUME QType, QFiles, StoredUploads, NEW t \in Threads, NEW c, Acts(t, c), Leaves(t, c), Plain'
  PROVE  StoredUploads'
<1>1. \A u \in Threads : call'[u] = IF u = t THEN c ELSE call[u] BY Others
<1>2. Range(disk') = IF Stores(t, c) THEN Range(disk) \cup {c.file}
                     ELSE IF Removes(t, c) THEN Range(disk) \ {c.file} ELSE Range(disk) BY RangeAfter
<1>3. CallHolds(c) /\ CallHolds(call[t]) BY DEF QType, Leaves
<1>4. ASSUME Removes(t, c) PROVE \A u \in Threads : call[u].file # c.file
  BY <1>4, PlainActs DEF Removes
<1>5. ASSUME c.name = "upload", c.at # "store" PROVE c.file \in Range(disk')
  <2>1. CASE Stores(t, c) BY <1>2, <2>1
  <2>2. CASE Adds(t, c) \/ Passes(t, c)
    <3>1. call[t].name = "upload" /\ call[t].at # "store" /\ c.file = call[t].file
      BY <1>5, <2>2 DEF Adds, Passes, Settling
    <3>2. ~Stores(t, c) /\ ~Removes(t, c) BY <1>3, <1>5, <2>2 DEF Stores, Removes, Adds, Passes, CallHolds, Checking, Settling
    <3>3. QED BY <1>2, <3>1, <3>2 DEF StoredUploads
  <2>3. QED BY <1>3, <1>5, <2>1, <2>2, PlainActs
           DEF Acts, Accepts, Counts, Removes, Discounts, Uncounts, CallHolds, Checking
<1>6. QED BY <1>1, <1>2, <1>4, <1>5 DEF StoredUploads

LEMMA CountedAfter ==
  ASSUME QType, QFiles, StoredUploads, NEW t \in Threads, NEW c, Acts(t, c), Leaves(t, c), Plain'
  PROVE  /\ Counted' = (Counted \ OutBytes(t, c)) \cup InBytes(t, c)
         /\ InBytes(t, c) \cap Counted = {} /\ OutBytes(t, c) \subseteq Counted
<1> DEFINE d == Range(disk)
           e == Range(disk')
           o == call[t]
<1>1. \A u \in Threads : call'[u] = IF u = t THEN c ELSE call[u] BY Others
<1>2. e = IF Stores(t, c) THEN d \cup {c.file} ELSE IF Removes(t, c) THEN d \ {c.file} ELSE d BY RangeAfter
<1>3. CallHolds(c) /\ \A u \in Threads : CallHolds(call[u]) BY DEF QType, Leaves
<1>4. \A x : x \in Counted <=> \/ x \in d /\ \A u \in Threads : ~(call[u].at = "add" /\ call[u].file = x)
                               \/ \E u \in Threads : call[u].at = "removed" /\ call[u].file = x
  BY CountedIs
<1>5. \A x : x \in Counted' <=> \/ x \in e /\ \A u \in Threads : ~(call'[u].at = "add" /\ call'[u].file = x)
                                \/ \E u \in Threads : call'[u].at = "removed" /\ call'[u].file = x
  BY DEF Counted, FilesAt
<1>6. \A u \in Threads : call[u].at = "removed" => call[u].file \notin d BY DEF QFiles, Leaving
<1>7. \A u \in Threads : call[u].at = "add" => call[u].file \in d /\ call[u].name = "upload"
  BY <1>3 DEF StoredUploads, CallHolds
<1>8. \A u \in Threads : u # t /\ call[u].name = "upload" /\ o.name = "upload" => call[u].file # o.file
  BY DEF QFiles
<1>9. \A u \in Threads : u # t /\ Leaving(call[u]) /\ Leaving(o) => call[u].file # o.file BY DEF QFiles
<1>. HIDE DEF d, e
<1>10. CASE Passes(t, c) \/ Accepts(t, c) \/ Counts(t, c) \/ Uncounts(t, c)
  <2>1. e = d /\ c.at \notin {"add", "removed"} /\ o.at \notin {"add", "removed"}
    BY <1>2, <1>10 DEF Passes, Accepts, Counts, Uncounts, Stores, Removes, Settling
  <2>2. InBytes(t, c) = {} /\ OutBytes(t, c) = {} BY <2>1 DEF InBytes, OutBytes, Adds, Discounts
  <2>3. \A x : x \in Counted' <=> x \in Counted BY <1>1, <1>4, <1>5, <2>1
  <2>4. QED BY <2>2, <2>3
<1>11. CASE Stores(t, c)
  <2>1. e = d \cup {c.file} /\ c.at = "add" /\ o.at = "store" /\ c.file = o.file BY <1>2, <1>11 DEF Stores
  <2>2. InBytes(t, c) = {} /\ OutBytes(t, c) = {} BY <2>1 DEF InBytes, OutBytes, Adds, Discounts
  <2>3. o.file \notin d BY <2>1 DEF QFiles, d
  <2>4. \A x : x \in Counted' <=> x \in Counted BY <1>1, <1>4, <1>5, <2>1, <2>3
  <2>5. QED BY <2>2, <2>4
<1>12. CASE Removes(t, c)
  <2>1. c.file \in d /\ c.at = "removed" /\ o.at \notin {"add", "removed"} /\ \A u \in Threads : call[u].file # c.file
    BY <1>12, PlainActs DEF Removes, d
  <2>2. e = d \ {c.file} BY <1>2, <1>12, <2>1 DEF Stores
  <2>3. InBytes(t, c) = {} /\ OutBytes(t, c) = {} BY <2>1 DEF InBytes, OutBytes, Adds, Discounts
  <2>4. \A x : x \in Counted' <=> x \in Counted BY <1>1, <1>4, <1>5, <2>1, <2>2
  <2>5. QED BY <2>3, <2>4
<1>13. CASE Adds(t, c)
  <2>1. e = d /\ c.at = "check" /\ o.at = "add" /\ c.file = o.file BY <1>2, <1>13 DEF Adds, Stores, Removes
  <2>2. InBytes(t, c) = {o.file} /\ OutBytes(t, c) = {} BY <1>13, <2>1 DEF InBytes, OutBytes, Discounts
  <2>3. o.file \in d /\ o.name = "upload" BY <1>7, <2>1
  <2>4. o.file \notin Counted BY <1>4, <1>6, <2>1, <2>3
  <2>5. \A x : x \in Counted' <=> x \in Counted \/ x = o.file
    <3>1. \A u \in Threads : u # t /\ call[u].at = "add" => call[u].file # o.file BY <1>7, <1>8, <2>3
    <3>2. QED BY <1>1, <1>4, <1>5, <2>1, <2>3, <3>1
  <2>6. QED BY <2>2, <2>4, <2>5
<1>14. CASE Discounts(t, c)
  <2>1. e = d /\ c.at = "uncount" /\ o.at = "removed" /\ c.file = o.file BY <1>2, <1>14 DEF Discounts, Stores, Removes
  <2>2. InBytes(t, c) = {} /\ OutBytes(t, c) = {o.file} BY <1>14, <2>1 DEF InBytes, OutBytes, Adds
  <2>3. o.file \in Counted /\ o.file \notin d BY <1>4, <1>6, <2>1
  <2>4. \A x : x \in Counted' <=> x \in Counted /\ x # o.file
    <3>1. \A u \in Threads : u # t /\ call[u].at = "removed" => call[u].file # o.file BY <1>9, <2>1 DEF Leaving
    <3>2. QED BY <1>1, <1>4, <1>5, <2>1, <2>3, <3>1
  <2>5. QED BY <2>2, <2>3, <2>4
<1>15. QED BY <1>10, <1>11, <1>12, <1>13, <1>14, PlainActs DEF Acts

LEMMA TalliedAfter ==
  ASSUME QType, QFiles, StoredUploads, NEW t \in Threads, NEW c, Acts(t, c), Leaves(t, c), Plain'
  PROVE  /\ Tallied' = (Tallied \ OutFiles(t, c)) \cup InFiles(t, c)
         /\ InFiles(t, c) \cap Tallied = {} /\ OutFiles(t, c) \subseteq Tallied
<1> DEFINE d == Range(disk)
           e == Range(disk')
           o == call[t]
<1>1. \A u \in Threads : call'[u] = IF u = t THEN c ELSE call[u] BY Others
<1>2. e = IF Stores(t, c) THEN d \cup {c.file} ELSE IF Removes(t, c) THEN d \ {c.file} ELSE d BY RangeAfter
<1>3. CallHolds(c) /\ \A u \in Threads : CallHolds(call[u]) BY DEF QType, Leaves
<1>4. \A x : x \in Tallied <=> \/ x \in d /\ \A u \in Threads : ~(call[u].name = "upload" /\ call[u].file = x)
                               \/ \E u \in Threads : Leaving(call[u]) /\ call[u].file = x
  BY TalliedIs
<1>5. \A x : x \in Tallied' <=> \/ x \in e /\ \A u \in Threads : ~(call'[u].name = "upload" /\ call'[u].file = x)
                                \/ \E u \in Threads : Leaving(call'[u]) /\ call'[u].file = x
  BY DEF Tallied, FilesAt, Uploading, Leaving
<1>6. \A u \in Threads : Leaving(call[u]) => call[u].file \notin d BY DEF QFiles
<1>7. \A u \in Threads : u # t /\ call[u].name = "upload" /\ o.name = "upload" => call[u].file # o.file
  BY DEF QFiles
<1>8. \A u \in Threads : u # t /\ Leaving(call[u]) /\ Leaving(o) => call[u].file # o.file BY DEF QFiles
<1>9. (Leaving(o) => o.name # "upload") /\ (Leaving(c) => c.name # "upload") BY <1>3 DEF Leaving, CallHolds, Checking
<1>. HIDE DEF d, e
<1>10. CASE Passes(t, c) \/ Adds(t, c) \/ Discounts(t, c)
  <2>1. /\ e = d /\ (Leaving(c) <=> Leaving(o)) /\ (Leaving(c) => c.file = o.file)
        /\ (c.name = "upload" <=> o.name = "upload") /\ (c.name = "upload" => c.file = o.file)
    BY <1>2, <1>10 DEF Passes, Adds, Discounts, Stores, Removes, Settling, Leaving
  <2>2. InFiles(t, c) = {} /\ OutFiles(t, c) = {}
    BY <1>10 DEF Passes, Adds, Discounts, InFiles, OutFiles, Counts, Uncounts, Settling
  <2>3. \A x : x \in Tallied' <=> x \in Tallied BY <1>1, <1>4, <1>5, <2>1
  <2>4. QED BY <2>2, <2>3
<1>11. CASE Accepts(t, c)
  <2>1. e = d /\ ~Leaving(c) /\ ~Leaving(o) /\ c.name = "upload" /\ c.file \notin d /\ o.name # "upload"
    BY <1>2, <1>3, <1>11 DEF Accepts, Stores, Removes, Leaving, d, CallHolds, Checking
  <2>2. InFiles(t, c) = {} /\ OutFiles(t, c) = {} BY <1>11 DEF Accepts, InFiles, OutFiles, Counts, Uncounts
  <2>3. \A x : x \in Tallied' <=> x \in Tallied BY <1>1, <1>4, <1>5, <2>1
  <2>4. QED BY <2>2, <2>3
<1>12. CASE Stores(t, c)
  <2>1. e = d \cup {c.file} /\ ~Leaving(c) /\ ~Leaving(o) /\ c.name = "upload" /\ o.name = "upload" /\ c.file = o.file
    BY <1>2, <1>3, <1>12 DEF Stores, Leaving, CallHolds
  <2>2. InFiles(t, c) = {} /\ OutFiles(t, c) = {} BY <1>12 DEF Stores, InFiles, OutFiles, Counts, Uncounts
  <2>3. \A x : x \in Tallied' <=> x \in Tallied BY <1>1, <1>4, <1>5, <2>1
  <2>4. QED BY <2>2, <2>3
<1>13. CASE Counts(t, c)
  <2>1. e = d /\ ~Leaving(c) /\ ~Leaving(o) /\ c.name # "upload" /\ o.name = "upload"
    BY <1>2, <1>3, <1>13 DEF Counts, Stores, Removes, Leaving, CallHolds, Checking
  <2>2. o.file \in d BY <1>13, <2>1 DEF Counts, StoredUploads, d
  <2>3. InFiles(t, c) = {o.file} /\ OutFiles(t, c) = {} BY <1>13 DEF Counts, InFiles, OutFiles, Uncounts
  <2>4. o.file \notin Tallied BY <1>4, <1>6, <2>1, <2>2
  <2>5. \A x : x \in Tallied' <=> x \in Tallied \/ x = o.file BY <1>1, <1>4, <1>5, <1>7, <2>1, <2>2
  <2>6. QED BY <2>3, <2>4, <2>5
<1>14. CASE Removes(t, c)
  <2>1. /\ c.file \in d /\ Leaving(c) /\ ~Leaving(o) /\ c.name # "upload" /\ o.name # "upload"
        /\ \A u \in Threads : call[u].file # c.file
    BY <1>3, <1>14, PlainActs DEF Removes, d, Leaving, CallHolds, Checking
  <2>2. e = d \ {c.file} BY <1>2, <1>14, <2>1 DEF Stores, Removes
  <2>3. InFiles(t, c) = {} /\ OutFiles(t, c) = {} BY <1>14 DEF Removes, InFiles, OutFiles, Counts, Uncounts
  <2>4. \A x : x \in Tallied' <=> x \in Tallied BY <1>1, <1>4, <1>5, <2>1, <2>2
  <2>5. QED BY <2>3, <2>4
<1>15. CASE Uncounts(t, c)
  <2>1. e = d /\ ~Leaving(c) /\ Leaving(o) /\ o.name # "upload" /\ c.name # "upload"
    BY <1>2, <1>3, <1>9, <1>15 DEF Uncounts, Stores, Removes, Leaving, CallHolds, Checking
  <2>2. InFiles(t, c) = {} /\ OutFiles(t, c) = {o.file} BY <1>15 DEF InFiles, OutFiles, Counts, Uncounts
  <2>3. o.file \in Tallied /\ o.file \notin d BY <1>4, <1>6, <2>1
  <2>4. \A x : x \in Tallied' <=> x \in Tallied /\ x # o.file BY <1>1, <1>4, <1>5, <1>8, <2>1, <2>3
  <2>5. QED BY <2>2, <2>3, <2>4
<1>16. QED BY <1>10, <1>11, <1>12, <1>13, <1>14, <1>15, PlainActs DEF Acts

\* All the files together have fewer bytes than a word counts.
FilesFit == \A S \in SUBSET Files : IsFiniteSet(S) => SizeOf(S) < Word

LEMMA CountedAreFiles == QType => Counted \in SUBSET Files /\ Tallied \in SUBSET Files
<1> SUFFICES ASSUME QType PROVE Counted \in SUBSET Files /\ Tallied \in SUBSET Files OBVIOUS
<1>1. Range(disk) \in SUBSET Files BY DiskFacts DEF QType
<1>2. \A u \in Threads : Leaving(call[u]) => call[u].file \in Files BY DEF QType, CallHolds, Leaving
<1>3. FilesAt({"removed"}) \in SUBSET Files /\ FilesAt({"removed", "uncount"}) \in SUBSET Files
  BY <1>2 DEF FilesAt, Leaving
<1>4. QED BY <1>1, <1>3 DEF Counted, Tallied

LEMMA UsedAfter ==
  ASSUME QType, FilesFit, IsFiniteSet(Counted), usage.used = SizeOf(Counted),
         NEW t \in Threads, NEW c, Acts(t, c), Leaves(t, c), Plain',
         Counted' = (Counted \ OutBytes(t, c)) \cup InBytes(t, c), InBytes(t, c) \cap Counted = {},
         OutBytes(t, c) \subseteq Counted
  PROVE  IsFiniteSet(Counted') /\ usage'.used = SizeOf(Counted')
<1>1. Counted \in SUBSET Files /\ usage \in Usages BY CountedAreFiles DEF QType
<1>2. CallHolds(c) BY DEF Leaves
<1>3. CASE Adds(t, c)
  <2>1. c.file \in Files BY <1>2, <1>3 DEF QType, Adds, CallHolds
  <2>2. Counted' = Counted \cup {c.file} /\ c.file \notin Counted BY <1>3 DEF InBytes, OutBytes, Adds, Discounts
  <2> DEFINE n == SizeOf(Counted \cup {c.file})
  <2>3. n = SizeOf(Counted) + Size[c.file] /\ IsFiniteSet(Counted \cup {c.file})
    BY <1>1, <2>1, <2>2, SizeOfAdded, FS_AddElement
  <2>4. Counted \cup {c.file} \in SUBSET Files BY <1>1, <2>1
  <2>5. n \in Nat /\ n < Word BY <2>3, <2>4, SizeOfTaken DEF FilesFit
  <2>6. Size[c.file] \in Nat /\ Word \in Nat \ {0} BY <2>1, Constants
  <2>7. usage'.used = (usage.used + Size[c.file]) % Word BY <1>1, <1>3, <2>6, BytesAddedType DEF Adds, QType
  <2>8. usage'.used = n % Word BY <2>3, <2>7
  <2> HIDE DEF n
  <2>9. usage'.used = n BY <2>5, <2>6, <2>8
  <2>10. QED BY <2>2, <2>3, <2>9 DEF n
<1>4. CASE Discounts(t, c)
  <2>1. Counted' = Counted \ {c.file} /\ c.file \in Counted BY <1>4 DEF InBytes, OutBytes, Adds, Discounts
  <2>2. c.file \in Files BY <1>1, <2>1
  <2>3. SizeOf(Counted) = Size[c.file] + SizeOf(Counted \ {c.file}) /\ IsFiniteSet(Counted \ {c.file})
    BY <1>1, <2>1, SizeOfTaken, FS_RemoveElement
  <2>4. Counted \ {c.file} \in SUBSET Files BY <1>1
  <2>5. SizeOf(Counted \ {c.file}) \in Nat BY <2>3, <2>4, SizeOfTaken
  <2>6. Size[c.file] \in Nat BY <2>2, Constants
  <2>7. usage'.used = IF Size[c.file] > usage.used THEN 0 ELSE usage.used - Size[c.file]
    BY <1>1, <1>4, <2>6, BytesRemovedType DEF Discounts, QType
  <2> DEFINE m == SizeOf(Counted \ {c.file})
             n == SizeOf(Counted)
  <2>8. usage.used = n /\ n = Size[c.file] + m /\ m \in Nat BY <2>3, <2>5
  <2> HIDE DEF m, n
  <2>9. usage'.used = m BY <2>6, <2>7, <2>8
  <2>10. QED BY <2>1, <2>3, <2>9 DEF m
<1>5. CASE ~Adds(t, c) /\ ~Discounts(t, c)
  <2>1. Counted' = Counted BY <1>5 DEF InBytes, OutBytes
  <2>2. usage'.used = usage.used
    BY <1>1, <1>5, PlainActs DEF Acts, Passes, Accepts, Stores, Counts, Removes, Uncounts, Usages
  <2>3. QED BY <2>1, <2>2
<1>6. QED BY <1>3, <1>4, <1>5

LEMMA FilesAfter ==
  ASSUME QType, IsFiniteSet(Tallied), usage.files = Cardinality(Tallied),
         NEW t \in Threads, NEW c, Acts(t, c), Leaves(t, c), Plain',
         Tallied' = (Tallied \ OutFiles(t, c)) \cup InFiles(t, c), InFiles(t, c) \cap Tallied = {},
         OutFiles(t, c) \subseteq Tallied
  PROVE  IsFiniteSet(Tallied') /\ usage'.files = Cardinality(Tallied')
<1>1. usage \in Usages BY DEF QType
<1>2. Cardinality(Tallied) \in Nat BY FS_CardinalityType
<1>3. CASE Counts(t, c)
  <2>1. Tallied' = Tallied \cup {call[t].file} /\ call[t].file \notin Tallied
    BY <1>3 DEF InFiles, OutFiles, Counts, Uncounts
  <2>2. usage'.files = usage.files + 1 BY <1>1, <1>3 DEF Counts, Usages
  <2>3. IsFiniteSet(Tallied \cup {call[t].file}) /\ Cardinality(Tallied \cup {call[t].file}) = Cardinality(Tallied) + 1
    BY <2>1, FS_AddElement
  <2>4. QED BY <2>1, <2>2, <2>3
<1>4. CASE Uncounts(t, c)
  <2>1. Tallied' = Tallied \ {call[t].file} /\ call[t].file \in Tallied
    BY <1>4 DEF InFiles, OutFiles, Counts, Uncounts
  <2> DEFINE n == IF usage.files > 0 THEN usage.files - 1 ELSE 0
  <2>2. usage' = [usage EXCEPT !.files = n] BY <1>4 DEF Uncounts
  <2> HIDE DEF n
  <2>3. usage'.files = n BY <1>1, <2>2 DEF Usages
  <2>4. Cardinality(Tallied) # 0 BY <2>1, FS_EmptySet
  <2>5. Cardinality(Tallied \ {call[t].file}) = Cardinality(Tallied) - 1 /\ IsFiniteSet(Tallied \ {call[t].file})
    BY <2>1, FS_RemoveElement
  <2>6. n = Cardinality(Tallied) - 1 BY <1>2, <2>4 DEF n
  <2>7. QED BY <2>1, <2>3, <2>5, <2>6
<1>5. CASE ~Counts(t, c) /\ ~Uncounts(t, c)
  <2>1. Tallied' = Tallied BY <1>5 DEF InFiles, OutFiles
  <2>2. usage'.files = usage.files
    <3>1. CASE Adds(t, c)
      <4>1. CallHolds(c) /\ c.name = "upload" BY <3>1 DEF Leaves, Adds, QType, CallHolds
      <4>2. Size[c.file] \in Nat BY <4>1, Constants DEF CallHolds
      <4>3. QED BY <1>1, <3>1, <4>2, BytesAddedType DEF Adds, QType
    <3>2. CASE Discounts(t, c)
      <4>1. Size[c.file] \in Nat BY <3>2, Constants DEF Leaves, Discounts, CallHolds
      <4>2. QED BY <1>1, <3>2, <4>1, BytesRemovedType DEF Discounts, QType
    <3>3. CASE ~Adds(t, c) /\ ~Discounts(t, c)
      BY <1>5, <3>3, PlainActs DEF Acts, Passes, Accepts, Stores, Removes
    <3>4. QED BY <3>1, <3>2, <3>3
  <2>3. QED BY <2>1, <2>2
<1>6. QED BY <1>3, <1>4, <1>5

LEMMA ActsKeepQTracks ==
  ASSUME FilesFit, QBase, QTracks, NEW t \in Threads, NEW c, Acts(t, c), Leaves(t, c)
  PROVE  QTracks'
<1> SUFFICES ASSUME Plain' PROVE /\ StoredUploads'
                                 /\ IsFiniteSet(Counted') /\ usage'.used = SizeOf(Counted')
                                 /\ IsFiniteSet(Tallied') /\ usage'.files = Cardinality(Tallied')
  BY DEF QTracks
<1>1. /\ StoredUploads
      /\ IsFiniteSet(Counted) /\ usage.used = SizeOf(Counted)
      /\ IsFiniteSet(Tallied) /\ usage.files = Cardinality(Tallied)
  BY PlainActs DEF QTracks, QBase
<1>2. QED BY <1>1, ActsKeepStored, CountedAfter, TalliedAfter, UsedAfter, FilesAfter DEF QBase

LEMMA InitQTracks == ServerInit => QTracks
<1> SUFFICES ASSUME ServerInit PROVE QTracks OBVIOUS
<1>1. disk = <<>> /\ call = [t \in Threads |-> Idle] /\ usage = CalculateUsage BY DEF ServerInit, Init
<1>2. \A t \in Threads : call[t].at = "idle" /\ call[t].name = None BY <1>1, IdleIs
<1>3. Range(disk) = {} BY <1>1 DEF Range
<1>4. Counted = {} /\ Tallied = {} BY <1>2, <1>3 DEF Counted, Tallied, FilesAt
<1>5. Stored = 0 BY <1>3, SizeOfNone DEF Stored, SizeOf
<1>6. usage.used = 0 /\ usage.files = 0
  <2>1. Stored % Word = 0 /\ Len(disk) = 0 BY <1>1, <1>5, Constants
  <2>2. QED BY <1>1, <2>1 DEF CalculateUsage
<1>7. QED BY <1>2, <1>4, <1>6, SizeOfNone, FS_EmptySet, Constants DEF QTracks, StoredUploads, AllCalls

LEMMA NextKeepsQTracks == ASSUME FilesFit PROVE QBase /\ QTracks /\ [ServerNext]_allVars => QTracks'
<1> SUFFICES ASSUME QBase, QTracks, [ServerNext]_allVars PROVE QTracks' OBVIOUS
<1>1. CASE UNCHANGED vars BY <1>1 DEF vars, QTracks, StoredUploads, Plain, Counted, Tallied, FilesAt, Uploading
<1>2. ASSUME NEW t \in Threads, NEW c, Acts(t, c), Leaves(t, c), StillTells(t, c) PROVE QTracks'
  BY <1>2, ActsKeepQTracks
<1>3. QED BY <1>1, <1>2, NextDoes DEF QBase, Does

(* The cached usage tells the bytes and the files of the directory between  *)
(* calls (record_bytes_added, record_file_added and their removals), in     *)
(* whatever order uploads and deletions were stored and recorded.           *)
THEOREM UsageTracksDisk == ASSUME FilesFit PROVE ServerSpec => []TracksTheDisk
<1>1. QBase /\ QTracks => TracksTheDisk
  <2> SUFFICES ASSUME QBase, QTracks, Quiet, Plain PROVE usage.used = Stored /\ usage.files = Len(disk)
    BY DEF TracksTheDisk, Plain
  <2>1. \A t \in Threads : call[t].at = "idle" /\ call[t].name # "upload"
    <3>1. \A t \in Threads : call[t].at = "idle" /\ CallHolds(call[t]) BY DEF Quiet, At, QBase, QType
    <3>2. QED BY <3>1 DEF CallHolds, Checking
  <2>2. Counted = Range(disk) /\ Tallied = Range(disk) BY <2>1 DEF Counted, Tallied, FilesAt, Uploading
  <2>3. usage.used = SizeOf(Range(disk)) /\ usage.files = Cardinality(Range(disk)) BY <2>2 DEF QTracks
  <2>4. QED BY <2>3, DiskFacts DEF Stored, SizeOf, QBase, QType
<1>2. QED BY <1>1, InitQBase, NextKeepsQBase, InitQTracks, NextKeepsQTracks, PTL DEF ServerSpec

-----------------------------------------------------------------------------
(***************************************************************************)
(* While uploads take turns, what the directory holds is within what the   *)
(* usage counts and the upload under way adds to it.                       *)
(***************************************************************************)
\* The quota and any one file together fit a word.
QuotaFits == \A f \in Files : Quota + Size[f] < Word

LEMMA TurnedActs ==
  ASSUME QType, NEW t \in Threads, NEW c, Acts(t, c), Leaves(t, c), Turned'
  PROVE  Turned /\ ~Assigns(t, c) /\ total' = total
<1>1. Turned BY DEF Turned, Leaves
<1>2. ~Assigns(t, c)
  <2>1. CallHolds(call[t]) /\ call[t].name \in calls.of \cup {None} BY DEF QType
  <2>2. call[t].name \notin {"refresh", "set_quota"} BY <1>1, <2>1, Constants DEF Turned, AllCalls
  <2>3. QED BY <2>1, <2>2 DEF Assigns, CallHolds
<1>3. QED BY <1>1, <1>2 DEF Leaves, Turned

LEMMA ActsKeepOneUpload ==
  ASSUME QType, OneUpload, NEW t \in Threads, NEW c, Acts(t, c), Leaves(t, c), Turned'
  PROVE  OneUpload'
<1>1. \A u \in Threads : call'[u] = IF u = t THEN c ELSE call[u] BY Others
<1>2. CallHolds(c) /\ CallHolds(call[t]) BY DEF QType, Leaves
<1>3. c.name = "upload" => call[t].name = "upload" \/ \A u \in Threads : call[u].name # "upload"
  BY <1>2, TurnedActs
     DEF Acts, Passes, Accepts, Stores, Adds, Counts, Removes, Discounts, Uncounts, CallHolds, Checking, Turned
<1>4. QED BY <1>1, <1>3 DEF OneUpload

LEMMA UsageTotalStays ==
  ASSUME QType, NEW t \in Threads, NEW c, Acts(t, c), Leaves(t, c), ~Assigns(t, c)
  PROVE  usage'.total = usage.total
<1>1. usage \in Usages /\ CallHolds(c) /\ total \in Nat /\ (c.file \in Files => Size[c.file] \in Nat)
  BY Constants DEF QType, Leaves
<1>2. CASE Adds(t, c)
  <2>1. c.file \in Files BY <1>2 DEF Adds, QType, CallHolds
  <2>2. QED BY <1>1, <1>2, <2>1, BytesAddedType DEF Adds
<1>3. CASE Discounts(t, c)
  <2>1. c.file \in Files BY <1>1, <1>3 DEF Discounts, CallHolds
  <2>2. QED BY <1>1, <1>3, <2>1, BytesRemovedType DEF Discounts
<1>4. CASE ~Adds(t, c) /\ ~Discounts(t, c)
  BY <1>1, <1>4 DEF Acts, Passes, Accepts, Stores, Counts, Removes, Uncounts, Usages
<1>5. QED BY <1>2, <1>3, <1>4

LEMMA HeldAfter ==
  ASSUME QType, QFiles, NEW t \in Threads, NEW c, Acts(t, c), Leaves(t, c)
  PROVE  /\ Stores(t, c) => Held' = Held \cup {c.file} /\ c.file \in Files \ Held
         /\ Discounts(t, c) => Held' = Held \ {c.file} /\ c.file \in Held
         /\ ~Stores(t, c) /\ ~Discounts(t, c) => Held' = Held
<1> DEFINE d == Range(disk)
           e == Range(disk')
           o == call[t]
<1>1. \A u \in Threads : call'[u] = IF u = t THEN c ELSE call[u] BY Others
<1>2. e = IF Stores(t, c) THEN d \cup {c.file} ELSE IF Removes(t, c) THEN d \ {c.file} ELSE d BY RangeAfter
<1>3. CallHolds(c) /\ \A u \in Threads : CallHolds(call[u]) BY DEF QType, Leaves
<1>4. \A x : x \in Held <=> x \in d \/ \E u \in Threads : call[u].at = "removed" /\ call[u].file = x
  BY DEF Held, FilesAt
<1>5. \A x : x \in Held' <=> x \in e \/ \E u \in Threads : call'[u].at = "removed" /\ call'[u].file = x
  BY DEF Held, FilesAt
<1> HIDE DEF d, e
<1>6. CASE Stores(t, c)
  <2>1. e = d \cup {c.file} /\ c.at = "add" /\ o.at = "store" /\ c.file = o.file BY <1>2, <1>6 DEF Stores
  <2>2. o.file \notin d /\ \A u \in Threads : call[u].at = "removed" => call[u].file # o.file
    BY <2>1 DEF QFiles, d, Leaving
  <2>3. c.file \in Files BY <1>3, <2>1 DEF CallHolds
  <2>4. \A x : x \in Held' <=> x \in Held \/ x = c.file BY <1>1, <1>4, <1>5, <2>1
  <2>5. c.file \notin Held BY <1>4, <2>1, <2>2
  <2>6. ~Discounts(t, c) BY <2>1 DEF Discounts
  <2>7. Held' = Held \cup {c.file} BY <2>4
  <2>8. QED BY <1>6, <2>3, <2>5, <2>6, <2>7
<1>7. CASE Discounts(t, c)
  <2>1. e = d /\ c.at = "uncount" /\ o.at = "removed" /\ c.file = o.file BY <1>2, <1>7 DEF Discounts, Stores, Removes
  <2>2. o.file \notin d /\ \A u \in Threads : u # t /\ call[u].at = "removed" => call[u].file # o.file
    BY <2>1 DEF QFiles, d, Leaving
  <2>3. \A x : x \in Held' <=> x \in Held /\ x # c.file BY <1>1, <1>4, <1>5, <2>1, <2>2
  <2>4. c.file \in Held BY <1>4, <2>1
  <2>5. ~Stores(t, c) BY <2>1 DEF Stores
  <2>6. Held' = Held \ {c.file} BY <2>3
  <2>7. QED BY <1>7, <2>4, <2>5, <2>6
<1>8. CASE Removes(t, c)
  <2>1. c.file \in d /\ c.at = "removed" /\ o.at \in {"idle", "unlink"} BY <1>8 DEF Removes, d
  <2>2. e = d \ {c.file} /\ ~Stores(t, c) /\ ~Discounts(t, c) BY <1>2, <1>8, <2>1 DEF Stores, Discounts
  <2>3. \A x : x \in Held' <=> x \in Held BY <1>1, <1>4, <1>5, <2>1, <2>2
  <2>4. Held' = Held BY <2>3
  <2>5. QED BY <2>2, <2>4
<1>9. CASE ~Stores(t, c) /\ ~Discounts(t, c) /\ ~Removes(t, c)
  <2>1. e = d /\ c.at # "removed" /\ o.at # "removed"
    BY <1>2, <1>9 DEF Acts, Passes, Accepts, Adds, Counts, Uncounts, Assigns, Settling
  <2>2. \A x : x \in Held' <=> x \in Held BY <1>1, <1>4, <1>5, <2>1
  <2>3. Held' = Held BY <2>2
  <2>4. QED BY <1>9, <2>3
<1>10. QED BY <1>6, <1>7, <1>8, <1>9

LEMMA HeldAreFiles == QType => Held \in SUBSET Files
<1> SUFFICES ASSUME QType PROVE Held \in SUBSET Files OBVIOUS
<1>1. Range(disk) \in SUBSET Files BY DiskFacts DEF QType
<1>2. \A u \in Threads : call[u].at = "removed" => call[u].file \in Files BY DEF QType, CallHolds
<1>3. QED BY <1>1, <1>2 DEF Held, FilesAt

LEMMA ActsKeepInQuota ==
  ASSUME QuotaFits, QBase, OneUpload, InQuota, total = Quota, total > 0, usage.total = total,
         NEW t \in Threads, NEW c, Acts(t, c), Leaves(t, c), Turned'
  PROVE  InQuota'
<1> DEFINE o == call[t]
           used == usage.used
           size == Size[c.file]
           held == SizeOf(Held)
<1>1. \A u \in Threads : call'[u] = IF u = t THEN c ELSE call[u] BY Others DEF QBase
<1>2. CallHolds(c) /\ \A u \in Threads : CallHolds(call[u]) BY DEF QBase, QType, Leaves
<1>3. /\ Stores(t, c) => Held' = Held \cup {c.file} /\ c.file \in Files \ Held
      /\ Discounts(t, c) => Held' = Held \ {c.file} /\ c.file \in Held
      /\ ~Stores(t, c) /\ ~Discounts(t, c) => Held' = Held
  BY HeldAfter DEF QBase
<1>4. ~Assigns(t, c) /\ total' = total BY TurnedActs DEF QBase
<1>5. QType /\ usage \in Usages /\ total \in Nat /\ used \in Nat /\ Word \in Nat \ {0} /\ Held \in SUBSET Files
  BY Constants, UsageFields, HeldAreFiles DEF QBase, QType
<1>6. IsFiniteSet(Held) /\ held \in Nat BY <1>5, SizeOfTaken DEF InQuota
<1>7. OneUpload' BY <1>5, ActsKeepOneUpload
<1>8. \A u \in Threads : call[u].at \in {"store", "add"} => call[u].name = "upload" /\ call[u].file \in Files
  BY <1>2 DEF CallHolds
<1>9. \A f \in Files : Size[f] \in Nat BY Constants
<1>10. ASSUME c.at \notin {"store", "add"}, o.at \notin {"store", "add"}, usage'.used = used, Held' = Held
       PROVE  InQuota'
  BY <1>1, <1>4, <1>10 DEF InQuota
<1>11. CASE Passes(t, c) BY <1>3, <1>10, <1>11 DEF Passes, Stores, Discounts, Settling
<1>12. CASE Removes(t, c) BY <1>3, <1>10, <1>12 DEF Removes, Stores, Discounts
<1>13. CASE Counts(t, c)
  <2>1. usage'.used = used BY <1>5, <1>13 DEF Counts, Usages
  <2>2. QED BY <1>3, <1>10, <1>13, <2>1 DEF Counts, Stores, Discounts
<1>14. CASE Uncounts(t, c)
  <2>1. usage'.used = used BY <1>5, <1>14 DEF Uncounts, Usages
  <2>2. QED BY <1>3, <1>10, <1>14, <2>1 DEF Uncounts, Stores, Discounts
<1>15. CASE Accepts(t, c)
  <2>1. c.file \in Files /\ usage' = usage /\ Held' = Held /\ c.at = "store" /\ c.name = "upload" /\ o.at = "idle"
    BY <1>3, <1>15 DEF Accepts, Stores, Discounts
  <2>2. (used + size) % Word <= total BY <1>15 DEF Accepts, CheckQuota
  <2>3. used <= Quota /\ Quota + size < Word /\ size \in Nat /\ Quota \in Nat BY <1>9, <2>1, Constants DEF InQuota, QuotaFits
  <2>4. used + size \in Nat /\ used + size < Word BY <1>5, <2>3
  <2>5. (used + size) % Word = used + size
    <3> HIDE DEF used, size
    <3>1. \A n \in Nat : n < Word => n % Word = n BY <1>5
    <3>2. QED BY <2>4, <3>1
  <2>6. used + size <= total BY <2>2, <2>5
  <2>7. \A u \in Threads : u # t => call[u].at \notin {"store", "add"}
    BY <1>1, <1>7, <1>8, <2>1 DEF OneUpload
  <2>8. held <= used BY <2>1, <2>7 DEF InQuota
  <2>9. QED BY <1>1, <1>4, <1>6, <2>1, <2>6, <2>7, <2>8 DEF InQuota
<1>16. CASE Stores(t, c)
  <2>1. /\ o.at = "store" /\ c.at = "add" /\ c.file = o.file /\ usage' = usage
        /\ Held' = Held \cup {c.file} /\ c.file \in Files \ Held
    BY <1>3, <1>16 DEF Stores
  <2>2. \A u \in Threads : u # t => call[u].at \notin {"store", "add"} BY <1>8, <2>1 DEF OneUpload
  <2>3. held <= used /\ used + size <= total BY <2>1, <2>2 DEF InQuota
  <2>4. SizeOf(Held \cup {c.file}) = held + size /\ IsFiniteSet(Held \cup {c.file})
    BY <1>5, <1>6, <2>1, SizeOfAdded, FS_AddElement
  <2>5. size \in Nat BY <1>9, <2>1
  <2>6. SizeOf(Held)' = held + size /\ IsFiniteSet(Held')
    <3>1. SizeOf(Held)' = SizeOf(Held') OBVIOUS
    <3>2. QED BY <2>1, <2>4, <3>1
  <2>7. SizeOf(Held)' <= used + size BY <1>5, <1>6, <2>3, <2>5, <2>6
  <2>8. QED BY <1>1, <1>4, <2>1, <2>2, <2>3, <2>6, <2>7 DEF InQuota
<1>17. CASE Adds(t, c)
  <2>1. o.at = "add" /\ c.at = "check" /\ c.file = o.file /\ Held' = Held
    BY <1>3, <1>17 DEF Adds, Stores, Discounts
  <2>2. \A u \in Threads : u # t => call[u].at \notin {"store", "add"} BY <1>8, <2>1 DEF OneUpload
  <2>3. held <= used + size /\ used + size <= total BY <2>1 DEF InQuota
  <2>4. c.file \in Files /\ size \in Nat BY <1>8, <1>9, <2>1
  <2>5. used + size \in Nat /\ used + size < Word
    <3>1. Quota + size < Word BY <2>4 DEF QuotaFits
    <3>2. QED BY <1>5, <2>3, <2>4, <3>1
  <2>6. usage'.used = (used + size) % Word BY <1>5, <1>17, <2>4, BytesAddedType DEF Adds
  <2>7. usage'.used = used + size
    <3> HIDE DEF used, size
    <3>1. \A n \in Nat : n < Word => n % Word = n BY <1>5
    <3>2. QED BY <2>5, <2>6, <3>1
  <2>8. SizeOf(Held)' = held BY <2>1
  <2>9. QED BY <1>1, <1>4, <1>6, <2>1, <2>2, <2>3, <2>7, <2>8 DEF InQuota
<1>18. CASE Discounts(t, c)
  <2>1. o.at = "removed" /\ c.at = "uncount" /\ Held' = Held \ {c.file} /\ c.file \in Held
    BY <1>3, <1>18 DEF Discounts
  <2>2. c.file \in Files /\ size \in Nat BY <1>5, <1>9, <2>1
  <2>3. held = size + SizeOf(Held \ {c.file}) /\ IsFiniteSet(Held \ {c.file})
    BY <1>5, <1>6, <2>1, SizeOfTaken, FS_RemoveElement
  <2>4. SizeOf(Held \ {c.file}) \in Nat
    <3>1. Held \ {c.file} \in SUBSET Files BY <1>5
    <3>2. QED BY <2>3, <3>1, SizeOfTaken
  <2>5. usage'.used = IF size > used THEN 0 ELSE used - size BY <1>5, <1>18, <2>2, BytesRemovedType DEF Discounts
  <2> DEFINE rest == SizeOf(Held \ {c.file})
             now  == usage'.used
  <2>6. SizeOf(Held)' = rest /\ IsFiniteSet(Held')
    <3>1. SizeOf(Held)' = SizeOf(Held') OBVIOUS
    <3>2. QED BY <2>1, <2>3, <3>1
  <2>7. held = size + rest /\ rest \in Nat /\ now = IF size > used THEN 0 ELSE used - size BY <2>3, <2>4, <2>5
  <2> HIDE DEF rest, now, held, used, size
  <2>8. now \in Nat /\ now <= used /\ now >= used - size BY <1>5, <2>2, <2>7
  <2>9. now <= total
    <3>1. used <= total BY DEF InQuota, used
    <3>2. QED BY <1>5, <2>8, <3>1
  <2>10. ASSUME NEW u \in Threads, call[u].at \in {"store", "add"}
         PROVE  now + Size[call[u].file] <= total
    <3>1. used + Size[call[u].file] <= total BY <2>10 DEF InQuota, used
    <3>2. Size[call[u].file] \in Nat BY <1>8, <1>9, <2>10
    <3>3. QED BY <1>5, <2>8, <3>1, <3>2
  <2>11. ASSUME \A u \in Threads : call[u].at # "add" PROVE rest <= now
    <3>1. held <= used BY <2>11 DEF InQuota, held, used
    <3>2. QED BY <1>5, <2>2, <2>7, <2>8, <3>1
  <2>12. ASSUME NEW u \in Threads, call[u].at = "add" PROVE rest <= now + Size[call[u].file]
    <3>1. held <= used + Size[call[u].file] BY <2>12 DEF InQuota, held, used
    <3>2. Size[call[u].file] \in Nat BY <1>8, <1>9, <2>12
    <3>3. QED BY <1>5, <2>2, <2>7, <2>8, <3>1, <3>2
  <2>13. \A u \in Threads : /\ call'[u].at \in {"store", "add"} => call[u].at \in {"store", "add"}
                            /\ (call'[u].at = "add" <=> call[u].at = "add")
                            /\ (call[u].at \in {"store", "add"} => call'[u].file = call[u].file)
    BY <1>1, <2>1
  <2>14. now = usage'.used BY DEF now
  <2>15. QED BY <1>4, <2>6, <2>9, <2>10, <2>11, <2>12, <2>13, <2>14 DEF InQuota
<1>19. QED BY <1>4, <1>11, <1>12, <1>13, <1>14, <1>15, <1>16, <1>17, <1>18 DEF Acts

LEMMA ActsKeepQKeeps ==
  ASSUME QuotaFits, QBase, QKeeps, NEW t \in Threads, NEW c, Acts(t, c), Leaves(t, c)
  PROVE  QKeeps'
<1> SUFFICES ASSUME Turned' PROVE total' = Quota /\ usage'.total = total' /\ OneUpload' /\ (total' > 0 => InQuota')
  BY DEF QKeeps
<1>1. Turned /\ ~Assigns(t, c) /\ total' = total BY TurnedActs DEF QBase
<1>2. total = Quota /\ usage.total = total /\ OneUpload /\ (total > 0 => InQuota) BY <1>1 DEF QKeeps
<1>3. usage'.total = usage.total BY <1>1, UsageTotalStays DEF QBase
<1>4. OneUpload' BY <1>2, ActsKeepOneUpload DEF QBase
<1>5. total > 0 => InQuota' BY <1>2, ActsKeepInQuota
<1>6. QED BY <1>1, <1>2, <1>3, <1>4, <1>5

LEMMA InitQKeeps == ServerInit => QKeeps
<1> SUFFICES ASSUME ServerInit PROVE QKeeps OBVIOUS
<1>1. total = Quota /\ disk = <<>> /\ call = [t \in Threads |-> Idle] /\ usage = CalculateUsage BY DEF ServerInit, Init
<1>2. \A t \in Threads : call[t].at = "idle" /\ call[t].name # "upload" BY <1>1, IdleIs, Constants DEF AllCalls
<1>3. Range(disk) = {} BY <1>1 DEF Range
<1>4. Held = {} BY <1>2, <1>3 DEF Held, FilesAt
<1>5. Stored = 0 BY <1>3, SizeOfNone DEF Stored, SizeOf
<1>6. usage.used = 0 /\ usage.total = total
  <2>1. Stored % Word = 0 BY <1>5, Constants
  <2>2. QED BY <2>1, <1>1 DEF CalculateUsage
<1>7. SizeOf(Held) = 0 /\ IsFiniteSet(Held) BY <1>4, SizeOfNone, FS_EmptySet
<1>8. OneUpload /\ (total > 0 => InQuota) BY <1>2, <1>6, <1>7, <1>1, Constants DEF OneUpload, InQuota
<1>9. QED BY <1>1, <1>6, <1>8 DEF QKeeps

LEMMA NextKeepsQKeeps == ASSUME QuotaFits PROVE QBase /\ QKeeps /\ [ServerNext]_allVars => QKeeps'
<1> SUFFICES ASSUME QBase, QKeeps, [ServerNext]_allVars PROVE QKeeps' OBVIOUS
<1>1. CASE UNCHANGED vars BY <1>1 DEF vars, QKeeps, OneUpload, InQuota, Turned, Held, FilesAt
<1>2. ASSUME NEW t \in Threads, NEW c, Acts(t, c), Leaves(t, c), StillTells(t, c) PROVE QKeeps'
  BY <1>2, ActsKeepQKeeps
<1>3. QED BY <1>1, <1>2, NextDoes DEF QBase, Does

(* Uploads that take turns keep the directory within the quota             *)
(* (check_upload_allowed), whatever is deleted and cleaned up between an   *)
(* upload's check, its store and its record.                               *)
THEOREM TurnsWithinQuota == ASSUME QuotaFits PROVE ServerSpec => []TurnsKeepQuota
<1>1. QBase /\ QKeeps => TurnsKeepQuota
  <2> SUFFICES ASSUME QBase, QKeeps, Turned, total > 0 PROVE Stored <= total
    BY DEF TurnsKeepQuota, WithinQuota, Turned
  <2>1. InQuota /\ total \in Nat BY DEF QKeeps, QBase, QType
  <2>2. Range(disk) \subseteq Held /\ Held \in SUBSET Files BY HeldAreFiles DEF Held, QBase
  <2>3. IsFiniteSet(Held) /\ IsFiniteSet(Range(disk)) BY <2>1, <2>2, FS_Subset DEF InQuota
  <2>4. SizeOf(Range(disk)) <= SizeOf(Held) BY <2>2, <2>3, SizeOfPart
  <2>5. SizeOf(Range(disk)) \in Nat /\ SizeOf(Held) \in Nat
    <3>1. Range(disk) \in SUBSET Files BY <2>2
    <3>2. QED BY <2>2, <2>3, <3>1, SizeOfTaken
  <2>6. usage.used \in Nat BY Constants, UsageFields DEF QBase, QType
  <2>7. SizeOf(Held) <= total
    <3>1. CASE \A t \in Threads : call[t].at # "add" BY <2>1, <2>5, <2>6, <3>1 DEF InQuota
    <3>2. CASE \E t \in Threads : call[t].at = "add"
      <4>1. PICK t \in Threads : call[t].at = "add" BY <3>2
      <4>2. SizeOf(Held) <= usage.used + Size[call[t].file] /\ usage.used + Size[call[t].file] <= total
        BY <2>1, <4>1 DEF InQuota
      <4>3. Size[call[t].file] \in Nat BY <4>1, Constants DEF QBase, QType, CallHolds
      <4>4. QED BY <2>1, <2>5, <2>6, <4>2, <4>3
    <3>3. QED BY <3>1, <3>2
  <2>8. Stored = SizeOf(Range(disk)) BY DEF Stored, SizeOf
  <2>9. QED BY <2>1, <2>4, <2>5, <2>7, <2>8
<1>2. QED BY <1>1, InitQBase, NextKeepsQBase, InitQKeeps, NextKeepsQKeeps, PTL DEF ServerSpec
=============================================================================
