----------------------------- MODULE Statistics -----------------------------
(***************************************************************************)
(* The counters of protocolStats (protocol.go), which callers of send()    *)
(* and the broker increment and statsPoller() (infinitive.go) reports      *)
(* every 15 seconds, all without a lock.                                   *)
(*                                                                         *)
(* "p.stats.x++" loads the pointer p.stats, loads the field and stores it  *)
(* again; getStatsString() replaces the pointer and then divides and reads *)
(* the old object, into which an increment may still be under way.  The    *)
(* sums of times are counted by "p.stats.x = p.stats.x + y", which loads   *)
(* the pointer twice, in an order that is the compiler's.  Of the          *)
(* counters there are here the ones that are related to one another and,   *)
(* for those with several writers, srdt.  The reader's counters and aother *)
(* are like aretr: one goroutine increments them.                          *)
(***************************************************************************)
EXTENDS Integers, Sequences

CONSTANTS
  Callers,     \* goroutines that call ReadTable()
  Broker,      \* the broker
  Retries,     \* responseRetries
  MaxElapsed,  \* the longest time an action takes
  MaxOrders,   \* bound: calls of ReadTable() in a behaviour
  MaxActions,  \* bound: actions
  MaxReports   \* bound: reports

ASSUME StatisticsAssumption ==
  /\ Broker \notin Callers
  /\ Retries \in Nat \ {0} /\ MaxElapsed \in Nat \ {0}
  /\ MaxOrders \in Nat /\ MaxActions \in Nat /\ MaxReports \in Nat

Goroutines == Callers \cup {Broker}

Counters == {"srdt", "aact", "aretr", "aok1", "aokN", "aokms", "afail", "afailms"}
Sums == {"aokms", "afailms"}

VARIABLES
  stats,     \* p.stats: the object counted in, by number
  mem,       \* the objects
  todo,      \* the increments a goroutine is about to do, the first under way
  at,        \* how far that one is
  obj,       \* the object it found in p.stats first
  val,       \* the value it found there
  tries,     \* retransmissions of the action in hand, or NoAction
  poller,    \* where the poller is in getStatsString()
  quotient,  \* the average it is about to store
  report,    \* the last report
  happened,  \* history: what has been counted
  reported   \* history: the sum of all reports

broker == <<tries>>
counting == <<mem, todo, at, obj, val, happened>>
polling == <<stats, poller, quotient, report, reported>>
vars == <<counting, broker, polling>>

NoAction == -1
Zero == [c \in Counters |-> 0]
Objects == 1 .. MaxReports + 1

TypeOK ==
  /\ stats \in Objects
  /\ mem \in [Objects -> [Counters -> Nat]]
  /\ at \in [Goroutines -> {"load", "read", "write"}]
  /\ \A g \in Goroutines : /\ todo[g] \in Seq(Counters \X Nat)
                            /\ todo[g] = <<>> => at[g] = "load"
  /\ obj \in [Goroutines -> Objects] /\ \A g \in Goroutines : obj[g] \in 1 .. stats
  /\ tries \in NoAction .. Retries
  /\ poller \in {"sleep", "ok", "storeOk", "fail", "storeFail", "print"}
  /\ poller # "sleep" => stats > 1
  /\ report \in [Counters -> Nat]

Init ==
  /\ stats = 1
  /\ mem = [o \in Objects |-> Zero]
  /\ todo = [g \in Goroutines |-> <<>>]
  /\ at = [g \in Goroutines |-> "load"]
  /\ obj = [g \in Goroutines |-> 1]
  /\ val = [g \in Goroutines |-> 0]
  /\ tries = NoAction
  /\ poller = "sleep"
  /\ quotient = 0
  /\ report = Zero
  /\ happened = Zero
  /\ reported = Zero

-----------------------------------------------------------------------------
(* Counting.                                                               *)

\* g goes on to increment counters, each by the amount beside its name.
Count(g, increments) ==
  /\ todo[g] = <<>>
  /\ todo' = [todo EXCEPT ![g] = increments]
  /\ UNCHANGED <<mem, at, obj, val, happened, polling>>

Load(g) ==
  /\ at[g] = "load" /\ todo[g] # <<>>
  /\ obj' = [obj EXCEPT ![g] = stats]
  /\ at' = [at EXCEPT ![g] = "read"]
  /\ UNCHANGED <<mem, todo, val, happened, broker, polling>>

\* The objects an access of the increment under way may find: that of the one
\* load of the pointer, or, for a sum, any that was in use since.
Found(g) == IF Head(todo[g])[1] \in Sums THEN obj[g] .. stats ELSE {obj[g]}

Read(g) ==
  /\ at[g] = "read"
  /\ \E o \in Found(g) : val' = [val EXCEPT ![g] = mem[o][Head(todo[g])[1]]]
  /\ at' = [at EXCEPT ![g] = "write"]
  /\ UNCHANGED <<mem, todo, obj, happened, broker, polling>>

\* The value goes to field counter of object o; the goroutine keeps nothing of it.
Store(g, o) ==
  LET counter == Head(todo[g])[1]
      by == Head(todo[g])[2] IN
  /\ at[g] = "write"
  /\ mem' = [mem EXCEPT ![o][counter] = val[g] + by]
  /\ happened' = [happened EXCEPT ![counter] = @ + by]
  /\ todo' = [todo EXCEPT ![g] = Tail(@)]
  /\ at' = [at EXCEPT ![g] = "load"]
  /\ obj' = [obj EXCEPT ![g] = 1]
  /\ val' = [val EXCEPT ![g] = 0]
  /\ UNCHANGED <<broker, polling>>

\* Mutant of Write: the pointer is loaded a second time for the store.
WriteThroughCurrent(g) == Store(g, stats)

Write(g) == at[g] = "write" /\ \E o \in Found(g) : Store(g, o)

\* ReadTable(), before it calls send().
ReadTable(c) ==
  /\ happened["srdt"] < MaxOrders
  /\ Count(c, <<<<"srdt", 1>>>>)
  /\ UNCHANGED broker

\* performAction(): an answer ends the action, or its last retransmission does.
BeginAction ==
  /\ tries = NoAction /\ happened["aact"] < MaxActions
  /\ tries' = 0
  /\ Count(Broker, <<<<"aact", 1>>>>)

Retransmit ==
  /\ tries # NoAction /\ tries < Retries
  /\ tries' = tries + 1
  /\ Count(Broker, <<<<"aretr", 1>>>>)

\* Mutant of ActionOk: an answer after a retransmission counts as one before too.
ActionOkTwice(ms) ==
  /\ tries # NoAction /\ tries < Retries
  /\ tries' = NoAction
  /\ Count(Broker, IF tries = 0 THEN <<<<"aok1", 1>>, <<"aokms", ms>>>>
                   ELSE <<<<"aok1", 1>>, <<"aokN", 1>>, <<"aokms", ms>>>>)

ActionOk(ms) ==
  /\ tries # NoAction /\ tries < Retries
  /\ tries' = NoAction
  /\ Count(Broker, <<<<IF tries = 0 THEN "aok1" ELSE "aokN", 1>>, <<"aokms", ms>>>>)

ActionFails(ms) ==
  /\ tries = Retries
  /\ tries' = NoAction
  /\ Count(Broker, <<<<"afailms", ms>>, <<"afail", 1>>>>)

-----------------------------------------------------------------------------
(* Reporting: getStatsString().                                            *)

\* The pointer is replaced: only the poller writes it, so that its load and its
\* store are one step.
Swap ==
  /\ poller = "sleep"
  /\ stats <= MaxReports /\ stats' = stats + 1
  /\ poller' = "ok"
  /\ UNCHANGED <<quotient, report, reported, counting, broker>>

ostats == mem[stats - 1]

\* An average is computed, unless nothing was counted, and stored in the place of
\* the sum.
Divide(total, count, store, next) ==
  /\ IF count > 0 THEN poller' = store /\ quotient' = ostats[total] \div count
                  ELSE poller' = next /\ UNCHANGED quotient
  /\ UNCHANGED <<stats, report, reported, counting, broker>>

StoreQuotient(total, next) ==
  /\ mem' = [mem EXCEPT ![stats - 1][total] = quotient]
  /\ poller' = next
  /\ quotient' = 0
  /\ UNCHANGED <<stats, report, reported, todo, at, obj, val, happened, broker>>

Averages ==
  \/ poller = "ok" /\ Divide("aokms", ostats["aok1"] + ostats["aokN"], "storeOk", "fail")
  \/ poller = "storeOk" /\ StoreQuotient("aokms", "fail")
  \/ poller = "fail" /\ Divide("afailms", ostats["afail"], "storeFail", "print")
  \/ poller = "storeFail" /\ StoreQuotient("afailms", "print")

\* Sprintf() reads the fields, in one step: of every goroutine at most one store
\* can come in between.
LogStats ==
  /\ poller = "print"
  /\ poller' = "sleep"
  /\ report' = ostats
  /\ reported' = [c \in Counters |-> reported[c] + ostats[c]]
  /\ UNCHANGED <<stats, quotient, counting, broker>>

-----------------------------------------------------------------------------

Next ==
  \/ \E g \in Goroutines : Load(g) \/ Read(g) \/ Write(g)
  \/ \E c \in Callers : ReadTable(c)
  \/ BeginAction \/ Retransmit
  \/ \E ms \in 1 .. MaxElapsed : ActionOk(ms) \/ ActionFails(ms)
  \/ Swap \/ Averages \/ LogStats

Spec == Init /\ [][Next]_vars

-----------------------------------------------------------------------------
(* Properties.                                                             *)

\* In every report the actions originated are those processed OK and those
\* failed, but for one at either end of the period: no more than one increment
\* is under way when the object is replaced (protocol.go:47-52).
ReportsBalance ==
  report["aact"] - report["aok1"] - report["aokN"] - report["afail"] \in -1 .. 1

\* What happened and is neither in a report nor in the object in use.
Lost(c) == happened[c] - reported[c] - mem[stats][c]

\* A report loses at most one of all the broker's counts, the one whose
\* increment is under way, and none is in two reports; those of the callers,
\* which are several, may get lost among themselves but are never too high.
FewCountsAreLost ==
  poller = "sleep" =>
    /\ \A c \in {"srdt", "aact", "aretr", "aok1", "aokN", "afail"} : Lost(c) >= 0
    /\ Lost("aact") + Lost("aretr") + Lost("aok1") + Lost("aokN") + Lost("afail") <= stats - 1
=============================================================================
