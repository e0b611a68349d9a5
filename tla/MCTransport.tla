---------------------------- MODULE MCTransport ----------------------------
EXTENDS Transport

MCInterfaces == <<"eth", "wifi">>

Setting(probing, forward) ==
  [probing |-> probing, fallback |-> TRUE, keep |-> TRUE, auto |-> TRUE, max |-> 2, forward |-> forward]
MCSettings == {Setting(p, f) : p, f \in BOOLEAN}

One == {CHOOSE t \in Threads : TRUE}

\* one use of a transport at a time: messages, tickets, paths
Messages(kind) == [kind |-> kind, file |-> FALSE, calls |-> {"connect", "disconnect", "send", "receive"},
                   by |-> Threads, settings |-> {Setting(TRUE, FALSE)}]
Resuming(file) == [kind |-> "quic", file |-> file, calls |-> {"early", "disconnect"},
                   by |-> One, settings |-> {Setting(TRUE, FALSE)}]
Migrating(T, S) == [kind |-> "quic", file |-> FALSE, calls |-> {"connect", "migrate", "watch"},
                    by |-> T, settings |-> S]

MCConfs ==
  {Messages("tcp"), Messages("quic"), Resuming(TRUE), Resuming(FALSE),
   Migrating(Threads, {Setting(TRUE, FALSE), Setting(FALSE, FALSE)}),
   Migrating(One, {Setting(TRUE, TRUE)})}
=============================================================================
