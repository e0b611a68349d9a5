---------------------------- MODULE SessionStore ----------------------------
(***************************************************************************)
(* transport/session_resumption.cpp: the tickets kept for the next         *)
(* connection to a server, in memory or also in a file, and the manager    *)
(* through which a QUIC transport asks for one, is given one and gives one *)
(* up that the server rejected.  Every call holds the store's mutex.       *)
(***************************************************************************)
EXTENDS Naturals, Sequences, FiniteSets, FiniteSetsExt

CONSTANTS
  Servers,        \* make_server_id: host and port
  MaxTickets,     \* store_config.max_tickets, 0 for no limit
  MinRemaining,   \* store_config.min_remaining_lifetime
  Lifetimes,      \* lifetimes of the tickets a server gives
  MaxTime,        \* bound: the clock stops there
  MaxIssued       \* bound: so many tickets are given

ASSUME StoreAssumption ==
  MaxTickets \in Nat /\ MinRemaining \in Nat /\ Lifetimes \subseteq Nat \ {0} /\ MaxTime \in Nat /\ MaxIssued \in Nat

VARIABLES
  now,        \* the clock
  tickets,    \* server -> its ticket, for the servers that have one
  disk,       \* the tickets in the session file
  dirty,      \* tickets_ changed since they were saved
  issued,     \* how many tickets were given
  rejected,   \* history: the tickets a server rejected
  forgotten   \* history: a removal may not have reached the file before the process ended

storeVars == <<now, tickets, disk, dirty, issued, rejected, forgotten>>

NoTickets == [s \in {} |-> 0]

IsValid(t)         == now < t.expires
AllowsEarlyData(t) == t.early /\ IsValid(t)
Remaining(t)       == IF t.expires > now THEN t.expires - now ELSE 0

StoreInit ==
  /\ now = 0 /\ tickets = NoTickets /\ disk = NoTickets /\ dirty = FALSE
  /\ issued = 0 /\ rejected = {} /\ forgotten = FALSE

Restricted(f, S) == [s \in S |-> f[s]]
Erased(s)        == Restricted(tickets, DOMAIN tickets \ {s})

-----------------------------------------------------------------------------
(* save_internal truncates the file, writes it and does not look whether   *)
(* the writing succeeded: it may end short of some tickets.                *)
Saves(file, new) ==
  \/ ~file /\ dirty' = FALSE /\ UNCHANGED disk                       \* the store in memory
  \/ file /\ disk' = new /\ dirty' = FALSE
  \/ file /\ UNCHANGED disk /\ dirty' = TRUE                         \* the file could not be opened
  \/ file /\ dirty' = FALSE /\ \E S \in SUBSET DOMAIN new : S # DOMAIN new /\ disk' = Restricted(new, S)

\* load_internal keeps the tickets that are still valid
Loaded == Restricted(disk, {s \in DOMAIN disk : IsValid(disk[s])})

\* at the limit a ticket goes: one that expired or else the oldest, also when the server had one
Evicted ==
  LET S == DOMAIN tickets
      expired == {s \in S : ~IsValid(tickets[s])}
      oldest  == {s \in S : \A r \in S : tickets[s].issued <= tickets[r].issued}
  IN IF MaxTickets = 0 \/ Cardinality(S) < MaxTickets THEN {tickets}
     ELSE {Erased(s) : s \in IF expired # {} THEN expired ELSE oldest}

NewTicket(life, early) == [n |-> issued + 1, issued |-> now, expires |-> now + life, early |-> early]

\* session_resumption_manager::store_ticket and the store's store
StoreTicket(file, s) ==
  /\ issued < MaxIssued
  /\ \E life \in Lifetimes, early \in BOOLEAN, kept \in Evicted :
       LET t   == NewTicket(life, early)
           new == [r \in DOMAIN kept \cup {s} |-> IF r = s THEN t ELSE kept[r]]
       IN tickets' = new /\ Saves(file, new)
  /\ issued' = issued + 1
  /\ UNCHANGED <<now, rejected, forgotten>>

\* retrieve: a ticket that expired, or is about to, is erased and not given
Usable(s) == s \in DOMAIN tickets /\ IsValid(tickets[s]) /\ Remaining(tickets[s]) >= MinRemaining
Drops(s)  == s \in DOMAIN tickets /\ ~Usable(s)

Retrieve(file, s) ==
  /\ tickets' = IF Drops(s) THEN Erased(s) ELSE tickets
  /\ dirty' = (dirty \/ (file /\ Drops(s)))
  /\ UNCHANGED <<now, disk, issued, rejected, forgotten>>

\* get_ticket_for_server and can_use_0rtt: the ticket retrieved, if it allows early data
TicketFor(s) == IF Usable(s) /\ AllowsEarlyData(tickets[s]) THEN tickets[s].n ELSE 0

\* remove, remove_ticket and on_0rtt_rejected only mark the store dirty
DiscardQuietly(file, s) ==   \* mutated form: the store is not marked dirty
  /\ tickets' = Erased(s)
  /\ UNCHANGED <<now, disk, dirty, issued, forgotten>>
Discard(file, s) ==
  /\ tickets' = Erased(s)
  /\ dirty' = (dirty \/ (file /\ s \in DOMAIN tickets))
  /\ UNCHANGED <<now, disk, issued, forgotten>>

RemoveTicket(file, s) == s \in DOMAIN tickets /\ Discard(file, s) /\ UNCHANGED rejected
On0rttRejected(file, s, n) == Discard(file, s) /\ rejected' = rejected \cup ({n} \ {0})

CleanupExpired(file) ==
  LET gone == {s \in DOMAIN tickets : tickets[s].expires <= now}
  IN /\ gone # {}
     /\ tickets' = Restricted(tickets, DOMAIN tickets \ gone)
     /\ dirty' = (dirty \/ file)
     /\ UNCHANGED <<now, disk, issued, rejected, forgotten>>

Clear(file) ==
  /\ tickets' = NoTickets /\ dirty' = (dirty \/ file)
  /\ UNCHANGED <<now, disk, issued, rejected, forgotten>>

\* the process ends, with the destructor, which saves what is dirty, or without it, and the next one
\* loads the file; load does so at any time
EndsWell(file) ==
  /\ \/ file /\ dirty /\ \E S \in SUBSET DOMAIN tickets :
          disk' = Restricted(tickets, S) /\ UNCHANGED forgotten
     \/ file /\ dirty /\ UNCHANGED disk /\ forgotten' = TRUE          \* the file could not be opened
     \/ ~(file /\ dirty) /\ UNCHANGED <<disk, forgotten>>
  /\ dirty' = FALSE
  /\ tickets' = Restricted(disk', {s \in DOMAIN disk' : IsValid(disk'[s])})
  /\ UNCHANGED <<now, issued, rejected>>
Crashes ==
  /\ tickets' = Loaded /\ dirty' = FALSE /\ forgotten' = (forgotten \/ dirty)
  /\ UNCHANGED <<now, disk, issued, rejected>>
Load ==
  /\ tickets' = Loaded /\ forgotten' = (forgotten \/ dirty)
  /\ UNCHANGED <<now, disk, dirty, issued, rejected>>

ClockTicks == now < MaxTime /\ now' = now + 1 /\ UNCHANGED <<tickets, disk, dirty, issued, rejected, forgotten>>

StoreCall(file) ==
  \/ \E s \in Servers : StoreTicket(file, s) \/ RemoveTicket(file, s)
  \/ CleanupExpired(file) \/ Clear(file)
  \/ file /\ Load

=============================================================================
