------------------------------ MODULE PathTable ------------------------------
(***************************************************************************)
(* The path table of one extension (core/src/ten_runtime/path).            *)
(*                                                                         *)
(* An extension that sends a command records one OUT path per destination; *)
(* the paths of one send form a group with a result return policy.  Every  *)
(* command result that comes back is matched with its OUT path, and the    *)
(* policy decides whether it reaches the result handler.  A command that   *)
(* enters the extension leaves an IN path, through which its results flow  *)
(* back.  Two timers remove expired paths and on_deinit_done flushes the   *)
(* remaining ones.                                                         *)
(*                                                                         *)
(* An OUT path is named <<c, i>>: the path of command c to its i-th        *)
(* destination.  The destinations are the environment: each sends some     *)
(* partial results and at most one final one, or stays silent.             *)
(***************************************************************************)
EXTENDS Naturals, Sequences

CONSTANTS
  OwnCmds,     \* commands this extension originates
  InCmds,      \* commands it receives, and may forward under the same id
  Converted,   \* received commands whose IN path has a result conversion
  MaxDests,    \* bound on the destinations of one send
  MaxPartial,  \* bound on the partial (non-final) results for a command,
               \* and of a received command
  SchemaFaults \* may a result fail the schema check of this extension?

Cmds == OwnCmds \cup InCmds
Paths == Cmds \X (1 .. MaxDests)

FirstErrorOrLastOk == "first_error_or_last_ok"
EachOkAndError == "each_ok_and_error"
Policies == {FirstErrorOrLastOk, EachOkAndError}
Status == {"OK", "ERROR"}
Results == [status : Status, final : BOOLEAN]
\* What the result handler sees: is_final, is_completed and the destination.
Deliveries == [status : Status, final : BOOLEAN, completed : BOOLEAN, from : 1 .. MaxDests]
NotCached == [status |-> "none", final |-> FALSE]

ASSUME ConstantsAssumption ==
  /\ OwnCmds \cap InCmds = {}
  /\ Converted \subseteq InCmds
  /\ MaxDests \in Nat \ {0}
  /\ MaxPartial \in Nat
  /\ SchemaFaults \in BOOLEAN

VARIABLES
  state,     \* "running", "deinit" (path timers closed), "deinit_done"
  sent,      \* what ten_env_send_cmd was called with; dests = 0: not sent
  out_paths, \* the OUT paths in the table
  has_final, \* paths whose has_received_final_cmd_result is set
  cached,    \* cached_cmd_result of the last path of each group
  expired,   \* OUT paths whose expired_time_us has passed
  overdue,   \* sends of which a timer tick has found a path expired
  received,  \* received commands
  in_paths,  \* received commands whose IN path is in the table
  partials,  \* number of partial results sent for each command
  answered,  \* paths whose destination has sent its final result
  batch,     \* paths the running timer or flush callback still has to fail
  delivered, \* what the result handler of each command was called with
  returned   \* results that left through each IN path

vars == <<state, sent, out_paths, has_final, cached, expired, overdue, received,
          in_paths, partials, answered, batch, delivered, returned>>
tableVars == <<out_paths, has_final, cached, expired>>
outVars == <<delivered, returned, in_paths>>
envVars == <<overdue, partials, answered>>

NotSent == [dests |-> 0, policy |-> FirstErrorOrLastOk, handler |-> FALSE]
Members(c) == {c} \X (1 .. sent[c].dests)
IsGroup(c) == sent[c].dests > 1
LastInGroup(p) == IsGroup(p[1]) /\ p[2] = sent[p[1]].dests
ErrorResult == [status |-> "ERROR", final |-> TRUE]

Init ==
  /\ state = "running"
  /\ sent = [c \in Cmds |-> NotSent]
  /\ out_paths = {} /\ has_final = {} /\ expired = {}
  /\ cached = [c \in Cmds |-> NotCached]
  /\ overdue = {} /\ received = {} /\ in_paths = {}
  /\ partials = [c \in Cmds |-> 0]
  /\ answered = {}
  /\ batch = {}
  /\ delivered = [c \in Cmds |-> << >>]
  /\ returned = [c \in InCmds |-> << >>]

-----------------------------------------------------------------------------
(* Results leaving the extension: ten_env_return_result, which dispatches  *)
(* the result through the IN path of its command.                          *)

\* A failing conversion lets the original result flow with an error status.
ConvertResult(c, r) ==
  {r} \cup IF c \in Converted THEN {[r EXCEPT !.status = "ERROR"]} ELSE {}

\* A result that fails the schema check of the sender is not dispatched.
RejectedBySchema == IF SchemaFaults THEN BOOLEAN ELSE {FALSE}

\* Mutant: the IN path of a command survives its final result.
ReturnKeepsInPath(c, r) ==
  IF state = "deinit_done" \/ c \notin in_paths
  THEN UNCHANGED <<returned, in_paths>>
  ELSE /\ returned' = [returned EXCEPT ![c] = Append(@, r)]
       /\ UNCHANGED in_paths

ten_env_return_result(c, r) ==
  \E rejected \in RejectedBySchema :
    IF state = "deinit_done" \/ rejected \/ c \notin in_paths
    THEN UNCHANGED <<returned, in_paths>>
    ELSE /\ \E conv \in ConvertResult(c, r) :
              returned' = [returned EXCEPT ![c] = Append(@, conv)]
         /\ in_paths' = IF r.final THEN in_paths \ {c} ELSE in_paths

-----------------------------------------------------------------------------
(* Results entering the extension.                                         *)

\* An incoming result that fails the schema check flows on as an error.
ValidateIn(d) ==
  {d} \cup IF SchemaFaults THEN {[d EXCEPT !.status = "ERROR"]} ELSE {}

\* The processed result reaches its handler, or is returned upstream when
\* the command was sent without one.
Deliver(c, r, completed, i) ==
  LET d0 == [status |-> r.status, final |-> r.final, completed |-> completed, from |-> i]
  IN \E d \in ValidateIn(d0) :
       IF sent[c].handler
       THEN /\ delivered' = [delivered EXCEPT ![c] = Append(@, d)]
            /\ UNCHANGED <<returned, in_paths>>
       ELSE /\ UNCHANGED delivered
            /\ ten_env_return_result(c, [status |-> d.status, final |-> d.final])

RemovePaths(S) ==
  /\ out_paths' = out_paths \ S
  /\ has_final' = has_final \ S
  /\ expired' = expired \ S

MarkFinal(p, r) == IF r.final THEN has_final \cup {p} ELSE has_final

\* A path that is not in the table any more: the result is discarded.
DiscardResult(p, r) ==
  /\ p \notin out_paths
  /\ UNCHANGED <<tableVars, outVars>>

\* Mutant: the final result of a path outside of any group leaves the path.
ProcessSingleKeepsPath(p, r) ==
  /\ p \in out_paths /\ ~IsGroup(p[1])
  /\ Deliver(p[1], r, r.final, p[2])
  /\ UNCHANGED tableVars

\* A path outside of any group: every result proceeds, the final one
\* completes the command and removes the path.
ProcessSingle(p, r) ==
  /\ p \in out_paths /\ ~IsGroup(p[1])
  /\ Deliver(p[1], r, r.final, p[2])
  /\ IF r.final THEN RemovePaths({p}) ELSE UNCHANGED <<out_paths, has_final, expired>>
  /\ UNCHANGED cached

\* Mutant: an error removes its own path only.
FirstErrorRemovesOne(p, r) ==
  /\ p \in out_paths /\ IsGroup(p[1])
  /\ sent[p[1]].policy = FirstErrorOrLastOk
  /\ r.status # "OK"
  /\ Deliver(p[1], r, TRUE, p[2])
  /\ RemovePaths({p})
  /\ UNCHANGED cached

\* FIRST_ERROR_OR_LAST_OK: an error cancels the whole group.
ProcessFirstError(p, r) ==
  LET c == p[1] IN
  /\ p \in out_paths /\ IsGroup(c)
  /\ sent[c].policy = FirstErrorOrLastOk
  /\ r.status # "OK"
  /\ Deliver(c, r, TRUE, p[2])
  /\ RemovePaths(Members(c))
  /\ UNCHANGED cached

\* Mutant: the final OK of the last member does not wait for the others.
LastOkDoesNotWait(p, r) ==
  LET c == p[1] IN
  /\ p \in out_paths /\ IsGroup(c)
  /\ sent[c].policy = FirstErrorOrLastOk
  /\ r.status = "OK"
  /\ UNCHANGED cached
  /\ IF LastInGroup(p) /\ r.final
     THEN /\ Deliver(c, r, TRUE, sent[c].dests)
          /\ RemovePaths(Members(c))
     ELSE /\ has_final' = MarkFinal(p, r)
          /\ UNCHANGED <<out_paths, expired, outVars>>

\* FIRST_ERROR_OR_LAST_OK: the OK of the last member is kept, and flows back
\* once every member has its final result.
ProcessLastOk(p, r) ==
  LET c == p[1]
      kept == IF LastInGroup(p) THEN r ELSE cached[c]
      final == MarkFinal(p, r)
  IN
  /\ p \in out_paths /\ IsGroup(c)
  /\ sent[c].policy = FirstErrorOrLastOk
  /\ r.status = "OK"
  /\ cached' = [cached EXCEPT ![c] = kept]
  /\ IF Members(c) \subseteq final
     THEN /\ Deliver(c, kept, TRUE, sent[c].dests)
          /\ RemovePaths(Members(c))
     ELSE /\ has_final' = final
          /\ UNCHANGED <<out_paths, expired, outVars>>

\* Mutant: every final result of a group is marked completed.
EachCompletesAlone(p, r) ==
  /\ p \in out_paths /\ IsGroup(p[1])
  /\ sent[p[1]].policy = EachOkAndError
  /\ Deliver(p[1], r, r.final, p[2])
  /\ has_final' = MarkFinal(p, r)
  /\ UNCHANGED <<out_paths, expired, cached>>

\* EACH_OK_AND_ERROR: every result proceeds; the one that makes all members
\* final completes the command.
ProcessEach(p, r) ==
  LET c == p[1]
      final == MarkFinal(p, r)
      all == Members(c) \subseteq final
  IN
  /\ p \in out_paths /\ IsGroup(c)
  /\ sent[c].policy = EachOkAndError
  /\ Deliver(c, r, all, p[2])
  /\ IF all THEN RemovePaths(Members(c))
     ELSE has_final' = final /\ UNCHANGED <<out_paths, expired>>
  /\ UNCHANGED cached

ten_path_table_process_cmd_result(p, r) ==
  \/ DiscardResult(p, r)
  \/ ProcessSingle(p, r)
  \/ ProcessFirstError(p, r)
  \/ ProcessLastOk(p, r)
  \/ ProcessEach(p, r)

-----------------------------------------------------------------------------
(* Operations of the extension.                                            *)

\* Mutant: one path too many is created.
SendCmdOffByOne(c, n, handler, multiple) ==
  /\ state # "deinit_done"
  /\ sent[c].dests = 0
  /\ sent' = [sent EXCEPT ![c] = [dests |-> n, handler |-> handler, policy |-> FirstErrorOrLastOk]]
  /\ out_paths' = out_paths \cup ({c} \X (1 .. n + 1))
  /\ UNCHANGED <<state, has_final, cached, expired, received, envVars, batch, outVars>>

\* FIRST_ERROR_OR_LAST_OK unless a handler asks for multiple results.
ReturnPolicy(multiple) == IF multiple THEN EachOkAndError ELSE FirstErrorOrLastOk

\* ten_env_send_cmd and ten_extension_dispatch_msg.  It may be called from a callback, between two results
\* of a batch.  A received command may be sent on while it is known.
SendCmd(c, n, handler, multiple) ==
  /\ state # "deinit_done"
  /\ sent[c].dests = 0
  /\ c \in InCmds => c \in received
  /\ multiple => handler
  /\ sent' = [sent EXCEPT ![c] =
                [dests |-> n, handler |-> handler, policy |-> ReturnPolicy(multiple)]]
  /\ out_paths' = out_paths \cup ({c} \X (1 .. n))
  /\ UNCHANGED <<state, has_final, cached, expired, received, envVars, batch, outVars>>

\* A command enters: ten_path_table_add_in_path.
RecvCmd(c) ==
  /\ state = "running" /\ batch = {}
  /\ c \notin received
  /\ received' = received \cup {c}
  /\ in_paths' = in_paths \cup {c}
  /\ UNCHANGED <<state, sent, tableVars, envVars, batch, delivered, returned>>

\* The extension answers a received command itself.
ReturnResult(c, r) ==
  /\ c \in in_paths
  /\ ~r.final => Len(returned[c]) < MaxPartial
  /\ ten_env_return_result(c, r)
  /\ UNCHANGED <<state, sent, tableVars, received, envVars, batch, delivered>>

\* A result arrives from destination p[2] of command p[1], at any time after
\* the send, late ones included.
RecvResult(p, r) ==
  /\ batch = {}
  /\ p \in Members(p[1]) /\ p \notin answered
  /\ ~r.final => partials[p[1]] < MaxPartial
  /\ answered' = IF r.final THEN answered \cup {p} ELSE answered
  /\ partials' = [partials EXCEPT ![p[1]] = IF r.final THEN @ ELSE @ + 1]
  /\ ten_path_table_process_cmd_result(p, r)
  /\ UNCHANGED <<state, sent, received, overdue, batch>>

\* ten_extension_out_path_timer_on_triggered collects an error result for
\* every expired path, then feeds them one by one.  The paths of one send
\* expire within microseconds, so a tick may fall between them, but the next
\* tick, a check interval later, finds all of them expired.
OutPathTimer ==
  /\ state = "running" /\ batch = {}
  /\ expired \cap out_paths # {}
  /\ \A c \in overdue : Members(c) \cap out_paths \subseteq expired
  /\ batch' = expired \cap out_paths
  /\ overdue' = overdue \cup {p[1] : p \in batch'}
  /\ UNCHANGED <<state, sent, tableVars, received, outVars, partials, answered>>

\* ten_extension_in_path_timer_on_triggered drops expired IN paths silently.
InPathTimer(S) ==
  /\ state = "running" /\ batch = {}
  /\ S # {} /\ in_paths' = in_paths \ S
  /\ UNCHANGED <<state, sent, tableVars, received, envVars, batch, delivered, returned>>

\* The next synthetic result goes through ten_extension_handle_in_msg.  The
\* paths of one send are fed in list order; the order of different sends is
\* left open, because a result only touches the paths of its own send.
FeedBatch(p) ==
  /\ p \in batch
  /\ \A q \in batch : q[1] = p[1] => p[2] <= q[2]
  /\ batch' = batch \ {p}
  /\ ten_path_table_process_cmd_result(p, ErrorResult)
  /\ UNCHANGED <<state, sent, received, envVars>>

\* on_stop_done: the path timers are closed, then on_deinit is called.
OnDeinit ==
  /\ state = "running" /\ batch = {}
  /\ state' = "deinit"
  /\ UNCHANGED <<sent, tableVars, received, outVars, envVars, batch>>

\* Mutant: only the expired OUT paths are flushed.
FlushExpiredOnly ==
  /\ state = "deinit"
  /\ state' = "deinit_done"
  /\ in_paths' = {}
  /\ batch' = out_paths \cap expired
  /\ UNCHANGED <<sent, tableVars, received, envVars, delivered, returned>>

\* on_deinit_done: ten_env_close, then ten_extension_flush_remaining_paths.
OnDeinitDone ==
  /\ state = "deinit"
  /\ state' = "deinit_done"
  /\ in_paths' = {}
  /\ batch' = out_paths
  /\ UNCHANGED <<sent, tableVars, received, envVars, delivered, returned>>

\* Time passes.  The paths of one send are created one after the other, so
\* an earlier one never expires later.
Expire(p) ==
  /\ p \in out_paths \ expired
  /\ \A j \in 1 .. (p[2] - 1) : <<p[1], j>> \in expired
  /\ expired' = expired \cup {p}
  /\ UNCHANGED <<state, sent, out_paths, has_final, cached, received, outVars, envVars, batch>>

Next ==
  \/ \E c \in Cmds, n \in 1 .. MaxDests, h, m \in BOOLEAN : SendCmd(c, n, h, m)
  \/ \E c \in InCmds : RecvCmd(c)
  \/ \E c \in InCmds, r \in Results : ReturnResult(c, r)
  \/ \E p \in Paths, r \in Results : RecvResult(p, r)
  \/ OutPathTimer
  \/ \E S \in SUBSET in_paths : InPathTimer(S)
  \/ \E p \in Paths : FeedBatch(p)
  \/ OnDeinit
  \/ OnDeinitDone
  \/ \E p \in Paths : Expire(p)

Spec == Init /\ [][Next]_vars

(* The two path timers restart themselves for ever and the clock runs, the  *)
(* callback that feeds a batch runs to its end, and an extension whose      *)
(* on_deinit has been called owes the runtime an on_deinit_done.            *)
Fairness ==
  /\ \A p \in Paths : WF_vars(Expire(p)) /\ WF_vars(FeedBatch(p))
  /\ WF_vars(OutPathTimer)
  /\ WF_vars(OnDeinitDone)

FairSpec == Spec /\ Fairness

-----------------------------------------------------------------------------
(* Properties.                                                             *)

\* The type invariant: paths name a command and one of its destinations, and
\* handlers see only well-formed results.
TypeOK ==
  /\ state \in {"running", "deinit", "deinit_done"}
  /\ sent \in [Cmds -> [dests : 0 .. MaxDests, policy : Policies, handler : BOOLEAN]]
  /\ out_paths \subseteq Paths /\ has_final \subseteq Paths /\ expired \subseteq Paths
  /\ cached \in [Cmds -> Results \cup {NotCached}]
  /\ overdue \subseteq Cmds
  /\ received \subseteq InCmds /\ in_paths \subseteq InCmds
  /\ partials \in [Cmds -> 0 .. MaxPartial]
  /\ answered \subseteq Paths
  /\ batch \subseteq Paths
  /\ delivered \in [Cmds -> Seq(Deliveries)]
  /\ returned \in [InCmds -> Seq(Results)]

\* ten_path_table_remove_group_and_all_its_paths asserts that every member
\* of a group is still in the table: the paths of one send are all there or
\* all gone, and only paths that are there carry marks.
GroupIntact ==
  /\ \A c \in Cmds : \/ Members(c) \subseteq out_paths
                     \/ Members(c) \cap out_paths = {}
  /\ out_paths \subseteq UNION {Members(c) : c \in Cmds}
  /\ has_final \subseteq out_paths

\* ten_path_table_process_cmd_result asserts, when all members of a group
\* are final, that the last one has a cached result: its final OK.
CachedWhenFinal ==
  \A p \in has_final :
    LastInGroup(p) /\ sent[p[1]].policy = FirstErrorOrLastOk
      => cached[p[1]] = [status |-> "OK", final |-> TRUE]

\* The bindings free the result handler when they see a completed result, so
\* a handler is called at most once with one, and never again after it.
CompletedOnce ==
  \A c \in Cmds : \A k \in 1 .. Len(delivered[c]) :
    delivered[c][k].completed =>
      /\ k = Len(delivered[c])
      /\ Members(c) \cap out_paths = {}

\* FIRST_ERROR_OR_LAST_OK over several destinations yields one result, and
\* an OK among them comes from the last destination, after every destination
\* has given its final result (result_return_policy.h).
GroupResult ==
  \A c \in Cmds :
    IsGroup(c) /\ sent[c].policy = FirstErrorOrLastOk =>
      /\ Len(delivered[c]) <= 1
      /\ \A k \in 1 .. Len(delivered[c]) :
           /\ delivered[c][k].completed
           /\ delivered[c][k].status = "OK" =>
                /\ delivered[c][k].from = sent[c].dests
                /\ delivered[c][k].final
                /\ Members(c) \subseteq answered

\* What send.c says of a handler that has not asked for multiple results: "the
\* upper layer can expect to receive only one result."
SingleResult ==
  \A c \in Cmds :
    sent[c].handler /\ sent[c].policy = FirstErrorOrLastOk => Len(delivered[c]) <= 1

\* Upstream sees at most one final result of a command, as the last one,
\* whatever mixture of forwarding, own answers and timeouts happens.
UpstreamFinalOnce ==
  \A c \in InCmds : \A k \in 1 .. Len(returned[c]) :
    returned[c][k].final => k = Len(returned[c]) /\ c \notin in_paths

\* on_deinit_done promises that all registered result handlers are called:
\* once the flush has run, no OUT path is left and every handler has seen a
\* completed result.
HandlersCalled ==
  state = "deinit_done" /\ batch = {} =>
    /\ out_paths = {}
    /\ \A c \in Cmds :
         sent[c].handler =>
           /\ delivered[c] # << >>
           /\ delivered[c][Len(delivered[c])].completed

-----------------------------------------------------------------------------
(* The promise to the callers of ten_env_send_cmd.                         *)

IsCompleted(c) == \E k \in 1 .. Len(delivered[c]) : delivered[c][k].completed

phaseBar == [c \in Cmds |-> IF ~sent[c].handler THEN "idle"
                            ELSE IF IsCompleted(c) THEN "completed" ELSE "waiting"]
resultsBar == [c \in Cmds |-> Len(delivered[c])]

Promise == INSTANCE ResultPromise
             WITH phase <- phaseBar, results <- resultsBar

\* The table keeps the promise of ResultPromise, its liveness included.
KeepsPromise == Promise!FairSpec
==============================================================================
