--------------------------------- MODULE Bot ---------------------------------
(***************************************************************************)
(* The bot itself (MyBot.cpp): on_ready registers its slash commands, once *)
(* per process (run_once, once.h), and on_slashcommand answers "ping".     *)
(* Every shard has a READY each time it connects anew; the events of       *)
(* different shards are dispatched by different pool threads, at once.     *)
(* Discord, the HTTP requests and the pool are outside of the repository.  *)
(***************************************************************************)
EXTENDS Naturals, FiniteSets

CONSTANTS
  Readies,       \* READY events, of any shards
  Interactions,  \* slash commands that users enter
  Names,         \* their names, of this bot's commands or of old ones
  AtOnceModes    \* whether READY events may be dispatched at once

ASSUME BotAssumption == "ping" \in Names /\ AtOnceModes \subseteq BOOLEAN

VARIABLES
  called,      \* run_once's static variable
  rpc,         \* where the on_ready handler of each READY event is
  seen,        \* what its std::exchange has read
  requests,    \* the bulk registrations sent, by the READY that did
  registered,  \* Discord knows the commands
  name,        \* the command each interaction is for
  ipc,         \* where the on_slashcommand handler of each interaction is
  replies,     \* the interactions Discord got a reply to
  atOnce       \* READY events are dispatched at once

readyVars == <<called, rpc, seen, requests, registered>>
slashVars == <<name, ipc, replies>>
botVars   == <<readyVars, slashVars, atOnce>>

BotTypeOK ==
  /\ called \in BOOLEAN
  /\ rpc \in [Readies -> {"none", "exchange", "write", "decide", "done"}]
  /\ seen \in [Readies -> BOOLEAN]
  /\ requests \subseteq Readies
  /\ registered \in BOOLEAN
  /\ name \in [Interactions -> Names]
  /\ ipc \in [Interactions -> {"none", "handling", "replying", "resumed", "ended"}]
  /\ replies \subseteq {i \in Interactions :
                    name[i] = "ping" /\ ipc[i] \in {"resumed", "ended"}}
  /\ atOnce \in AtOnceModes

\* Commands of an earlier version of the bot may be registered already.
BotInit ==
  /\ called = FALSE
  /\ rpc = [d \in Readies |-> "none"]
  /\ seen = [d \in Readies |-> FALSE]
  /\ requests = {}
  /\ registered \in BOOLEAN
  /\ name \in [Interactions -> Names]
  /\ ipc = [i \in Interactions |-> "none"]
  /\ replies = {}
  /\ atOnce \in AtOnceModes

-----------------------------------------------------------------------------
(* on_ready *)

\* A shard connects: its first time, or anew after its session was lost.
Ready(d) ==
  /\ rpc[d] = "none"
  /\ atOnce \/ \A other \in Readies : rpc[other] \in {"none", "done"}
  /\ rpc' = [rpc EXCEPT ![d] = "exchange"]
  /\ UNCHANGED <<called, seen, requests, registered, slashVars, atOnce>>

\* std::exchange(called, true) on a plain bool reads it, then writes it.
ReadCalled(d) ==
  /\ rpc[d] = "exchange"
  /\ seen' = [seen EXCEPT ![d] = called]
  /\ rpc' = [rpc EXCEPT ![d] = "write"]
  /\ UNCHANGED <<called, requests, registered, slashVars, atOnce>>

\* Mutant of Written: the variable is local instead of static.
WrittenLocal == called

Written == TRUE

WriteCalled(d) ==
  /\ rpc[d] = "write"
  /\ called' = Written
  /\ rpc' = [rpc EXCEPT ![d] = "decide"]
  /\ UNCHANGED <<seen, requests, registered, slashVars, atOnce>>

\* Mutant of RunOnce: it tells whether it was called before.
RunBefore(d) == seen[d]

RunOnce(d) == ~seen[d]

\* global_bulk_command_create, if run_once says so.
Register(d) ==
  /\ rpc[d] = "decide"
  /\ rpc' = [rpc EXCEPT ![d] = "done"]
  /\ requests' = IF RunOnce(d) THEN requests \cup {d} ELSE requests
  /\ UNCHANGED <<called, seen, registered, slashVars, atOnce>>

\* Discord takes the request; one that fails is not repeated.
Accepted ==
  /\ requests # {} /\ ~registered
  /\ registered' = TRUE
  /\ UNCHANGED <<called, rpc, seen, requests, slashVars, atOnce>>

-----------------------------------------------------------------------------
(* on_slashcommand *)

Enter(i) ==
  /\ registered /\ ipc[i] = "none"
  /\ ipc' = [ipc EXCEPT ![i] = "handling"]
  /\ UNCHANGED <<readyVars, name, replies, atOnce>>

Answers(n) == n = "ping"

\* co_reply sends the reply and suspends the handler; other commands end it.
Handle(i) ==
  /\ ipc[i] = "handling"
  /\ ipc' = [ipc EXCEPT ![i] = IF Answers(name[i]) THEN "replying" ELSE "ended"]
  /\ UNCHANGED <<readyVars, name, replies, atOnce>>

\* The reply arrives, or the request fails: the handler is resumed either way.
ReplyDone(i) ==
  /\ ipc[i] = "replying"
  /\ ipc' = [ipc EXCEPT ![i] = "resumed"]
  /\ \E ok \in BOOLEAN : replies' = IF ok THEN replies \cup {i} ELSE replies
  /\ UNCHANGED <<readyVars, name, atOnce>>

EndHandler(i) ==
  /\ ipc[i] = "resumed"
  /\ ipc' = [ipc EXCEPT ![i] = "ended"]
  /\ UNCHANGED <<readyVars, name, replies, atOnce>>

ReadyStep(d) == ReadCalled(d) \/ WriteCalled(d) \/ Register(d)
SlashStep(i) == Handle(i) \/ ReplyDone(i) \/ EndHandler(i)

BotNext ==
  \/ \E d \in Readies : Ready(d) \/ ReadyStep(d)
  \/ Accepted
  \/ \E i \in Interactions : Enter(i) \/ SlashStep(i)

\* Pool threads run what is dispatched, and HTTP requests end.
BotFairness ==
  /\ \A d \in Readies : WF_botVars(ReadyStep(d))
  /\ \A i \in Interactions : WF_botVars(SlashStep(i))

BotSpec == BotInit /\ [][BotNext]_botVars
BotFairSpec == BotSpec /\ BotFairness

-----------------------------------------------------------------------------
(* What the bot promises *)

\* The intent of once.h, "Run some code within an if() statement only once",
\* which fails when READY events are dispatched at once.
RegisteredOnce == Cardinality(requests) <= 1

\* Where READY events are dispatched one after the other, no reconnection
\* registers the commands again ("make sure it doesnt run on every full
\* reconnection").
RegisteredOnceInTurn == ~atOnce => RegisteredOnce

\* However the reads and writes of run_once's flag interleave, once the
\* handlers of the READY events that came have ended, one of them has
\* registered the commands: no two leave it to each other.
RegisteredAtRest ==
  /\ \E d \in Readies : rpc[d] = "done"
  /\ \A d \in Readies : rpc[d] \in {"none", "done"}
  => requests # {}

\* However the READY events race, one of them registers the commands.
ReadyRegisters == \A d \in Readies : (rpc[d] = "exchange") ~> (requests # {})
=============================================================================
