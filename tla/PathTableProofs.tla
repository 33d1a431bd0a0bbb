--------------------------- MODULE PathTableProofs ---------------------------
(***************************************************************************)
(* Theorems about the path table of PathTable, for any sets of commands    *)
(* and any bounds.                                                         *)
(***************************************************************************)
EXTENDS PathTable, TLAPS

-----------------------------------------------------------------------------
(* Types.                                                                  *)

\* Members are paths.
LEMMA MembersArePaths ==
  ASSUME TypeOK, NEW c \in Cmds
  PROVE  /\ Members(c) \subseteq Paths
         /\ \A p \in Members(c) : p[1] = c /\ p[2] \in 1 .. sent[c].dests
         /\ sent[c].dests \in 0 .. MaxDests
  BY ConstantsAssumption DEF TypeOK, Members, Paths

\* A path names a command and a destination.
LEMMA PathParts ==
  ASSUME NEW p \in Paths
  PROVE  p[1] \in Cmds /\ p[2] \in 1 .. MaxDests /\ p = <<p[1], p[2]>>
  BY DEF Paths

\* What ten_env_return_result may do to the IN paths: a result leaves through
\* the IN path of its command, with the finality the caller gave it.
LEMMA ReturnEffect ==
  ASSUME TypeOK, NEW c \in Cmds, NEW r \in Results, ten_env_return_result(c, r)
  PROVE  \/ UNCHANGED <<returned, in_paths>>
         \/ /\ c \in in_paths
            /\ \E conv \in Results :
                 /\ conv.final = r.final
                 /\ returned' = [returned EXCEPT ![c] = Append(@, conv)]
            /\ in_paths' = IF r.final THEN in_paths \ {c} ELSE in_paths
<1>1. PICK rejected \in RejectedBySchema :
        IF state = "deinit_done" \/ rejected \/ c \notin in_paths
        THEN UNCHANGED <<returned, in_paths>>
        ELSE /\ \E conv \in ConvertResult(c, r) :
                  returned' = [returned EXCEPT ![c] = Append(@, conv)]
             /\ in_paths' = IF r.final THEN in_paths \ {c} ELSE in_paths
  BY DEF ten_env_return_result
<1>2. \A conv \in ConvertResult(c, r) : conv \in Results /\ conv.final = r.final
  BY DEF ConvertResult, Results, Status
<1> QED
  BY <1>1, <1>2

\* What delivering a processed result may do: it reaches the handler as it
\* is, or as an error, or it is returned upstream.
LEMMA DeliverEffect ==
  ASSUME TypeOK, NEW c \in Cmds, NEW r \in Results, NEW completed \in BOOLEAN,
         NEW i \in 1 .. MaxDests, Deliver(c, r, completed, i)
  PROVE  \/ /\ sent[c].handler
            /\ \E d \in Deliveries :
                 /\ d.completed = completed /\ d.final = r.final /\ d.from = i
                 /\ d.status = "OK" => r.status = "OK"
                 /\ delivered' = [delivered EXCEPT ![c] = Append(@, d)]
            /\ UNCHANGED <<returned, in_paths>>
         \/ /\ ~sent[c].handler
            /\ UNCHANGED delivered
            /\ \E s \in Results : s.final = r.final /\ ten_env_return_result(c, s)
<1> DEFINE d0 == [status |-> r.status, final |-> r.final, completed |-> completed, from |-> i]
<1>1. PICK d \in ValidateIn(d0) :
        IF sent[c].handler
        THEN /\ delivered' = [delivered EXCEPT ![c] = Append(@, d)]
             /\ UNCHANGED <<returned, in_paths>>
        ELSE /\ UNCHANGED delivered
             /\ ten_env_return_result(c, [status |-> d.status, final |-> d.final])
  BY DEF Deliver
<1>2. /\ d \in Deliveries
      /\ d.completed = completed /\ d.final = r.final /\ d.from = i
      /\ d.status = "OK" => r.status = "OK"
  BY DEF ValidateIn, Deliveries, Results, Status
<1>3. /\ [status |-> d.status, final |-> d.final] \in Results
      /\ [status |-> d.status, final |-> d.final].final = r.final
  BY <1>2 DEF Results, Deliveries
<1> QED
  BY <1>1, <1>2, <1>3

-----------------------------------------------------------------------------
(* The inductive invariant.  The safety properties of PathTable are not    *)
(* inductive one by one: that a handler is called only once with a         *)
(* completed result, for example, needs the path to be gone by then, and   *)
(* the typing of a delivered result needs the cached one to exist.         *)

\* A marked path of a FIRST_ERROR_OR_LAST_OK group was marked by its own
\* destination, since a synthetic error would have cancelled the group.
AnsweredWhenFinal ==
  \A p \in has_final : sent[p[1]].policy = FirstErrorOrLastOk => p \in answered

\* A group whose members are all final has been removed.
SomeNotFinal ==
  \A c \in Cmds : sent[c].dests > 0 => \E p \in Members(c) : p \notin has_final

NothingBeforeSend ==
  \A c \in Cmds : sent[c].dests = 0 => delivered[c] = << >> /\ ~sent[c].handler

\* Paths go only together with a completed result.
CompletedWhenGone ==
  \A c \in Cmds :
    sent[c].handler /\ Members(c) \cap out_paths = {} =>
      /\ delivered[c] # << >>
      /\ delivered[c][Len(delivered[c])].completed

\* The flush has every remaining path before it or has already marked it.
FlushCovers ==
  /\ state = "deinit" => batch = {}
  /\ state = "deinit_done" => out_paths \subseteq batch \cup has_final

ReturnedWasReceived ==
  /\ in_paths \subseteq received
  /\ \A c \in InCmds : returned[c] # << >> => c \in received

IInv ==
  /\ TypeOK
  /\ GroupIntact
  /\ CachedWhenFinal
  /\ AnsweredWhenFinal
  /\ SomeNotFinal
  /\ NothingBeforeSend
  /\ CompletedOnce
  /\ CompletedWhenGone
  /\ GroupResult
  /\ FlushCovers
  /\ ReturnedWasReceived
  /\ UpstreamFinalOnce

\* The invariant holds of the empty table that ten_path_table_create makes.
LEMMA InitIInv == Init => IInv
<1> SUFFICES ASSUME Init PROVE IInv
  OBVIOUS
<1>1. TypeOK
  BY ConstantsAssumption DEF Init, TypeOK, NotSent, Policies
<1>2. \A c \in Cmds : Members(c) = {} /\ sent[c].dests = 0 /\ delivered[c] = << >>
                       /\ ~sent[c].handler
  BY DEF Init, Members, NotSent
<1>3. GroupIntact
  BY <1>2 DEF Init, GroupIntact
<1>4. CachedWhenFinal /\ AnsweredWhenFinal /\ SomeNotFinal /\ NothingBeforeSend
  BY <1>2 DEF Init, CachedWhenFinal, AnsweredWhenFinal, SomeNotFinal, NothingBeforeSend
<1>5. CompletedOnce /\ CompletedWhenGone /\ GroupResult
  BY <1>2 DEF CompletedOnce, CompletedWhenGone, GroupResult, IsGroup
<1>6. FlushCovers /\ ReturnedWasReceived /\ UpstreamFinalOnce
  BY DEF Init, FlushCovers, ReturnedWasReceived, UpstreamFinalOnce
<1> QED
  BY <1>1, <1>3, <1>4, <1>5, <1>6 DEF IInv

\* A path in the table belongs to the send of its command.
LEMMA PathIsMember ==
  ASSUME IInv, NEW p \in Paths, p \in out_paths
  PROVE  /\ p[1] \in Cmds
         /\ p \in Members(p[1])
         /\ Members(p[1]) \subseteq out_paths
         /\ sent[p[1]].dests \in 1 .. MaxDests
         /\ p[2] \in 1 .. sent[p[1]].dests
<1>1. PICK c \in Cmds : p \in Members(c)
  BY DEF IInv, GroupIntact
<1>2. p[1] = c /\ p[2] \in 1 .. sent[c].dests /\ sent[c].dests \in 0 .. MaxDests
  BY <1>1, MembersArePaths DEF IInv
<1> QED
  BY <1>1, <1>2 DEF IInv, GroupIntact

-----------------------------------------------------------------------------
(* Processing a result either leaves the paths of its command in the table *)
(* or completes the command and removes them.                              *)

Keeps(p, r) ==
  /\ out_paths' = out_paths /\ expired' = expired
  /\ has_final' = MarkFinal(p, r)
  /\ \E q \in Members(p[1]) : q \notin has_final'
  /\ \/ UNCHANGED cached
     \/ /\ LastInGroup(p) /\ r.status = "OK"
        /\ cached' = [cached EXCEPT ![p[1]] = r]
  /\ LastInGroup(p) /\ sent[p[1]].policy = FirstErrorOrLastOk =>
       r.status = "OK" /\ cached' = [cached EXCEPT ![p[1]] = r]
  /\ IsGroup(p[1]) /\ sent[p[1]].policy = FirstErrorOrLastOk =>
       r.status = "OK" /\ UNCHANGED outVars
  /\ UNCHANGED outVars \/ Deliver(p[1], r, FALSE, p[2])

Completes(p, r) ==
  /\ RemovePaths(Members(p[1]))
  /\ cached' = cached \/ cached' = [cached EXCEPT ![p[1]] = r]
  /\ \E k \in Results, i \in 1 .. MaxDests :
       /\ Deliver(p[1], k, TRUE, i)
       /\ IsGroup(p[1]) /\ sent[p[1]].policy = FirstErrorOrLastOk /\ k.status = "OK" =>
            /\ k.final /\ i = sent[p[1]].dests
            /\ r.status = "OK"
            /\ \A q \in Members(p[1]) : q \in has_final \/ (q = p /\ r.final)

\* What ten_path_table_process_cmd_result may do to the table and to what
\* leaves it, whichever branch the result takes.
LEMMA ProcessEffect ==
  ASSUME IInv, NEW p \in Paths, NEW r \in Results,
         r.status = "OK" => p \notin answered,
         ten_path_table_process_cmd_result(p, r)
  PROVE  \/ p \notin out_paths /\ UNCHANGED <<tableVars, outVars>>
         \/ p \in out_paths /\ Keeps(p, r)
         \/ p \in out_paths /\ Completes(p, r)
<1> DEFINE c == p[1]
<1>1. CASE DiscardResult(p, r)
  BY <1>1 DEF DiscardResult
<1> SUFFICES ASSUME p \in out_paths PROVE Keeps(p, r) \/ Completes(p, r)
  BY <1>1 DEF ten_path_table_process_cmd_result, ProcessSingle, ProcessFirstError,
              ProcessLastOk, ProcessEach
<1>0. /\ c \in Cmds /\ p \in Members(c) /\ sent[c].dests \in 1 .. MaxDests
      /\ p[2] \in 1 .. sent[c].dests /\ p[2] \in 1 .. MaxDests /\ r.final \in BOOLEAN
      /\ r.status \in Status
  BY PathIsMember, PathParts DEF Results
<1>t. has_final \subseteq out_paths /\ cached \in [Cmds -> Results \cup {NotCached}]
  BY DEF IInv, GroupIntact, TypeOK
<1>2. CASE ProcessSingle(p, r)
  <2>1. Members(c) = {p} /\ ~LastInGroup(p)
    BY <1>0, <1>2, PathParts DEF Members, LastInGroup, IsGroup, ProcessSingle
  <2>2. CASE r.final
    BY <1>0, <1>2, <2>1, <2>2 DEF ProcessSingle, Completes
  <2>3. CASE ~r.final
    <3>1. \E q \in Members(c) : q \notin has_final
      BY <1>0 DEF IInv, SomeNotFinal
    <3> QED
      BY <1>0, <1>2, <2>1, <2>3, <3>1 DEF ProcessSingle, Keeps, MarkFinal
  <2> QED
    BY <2>2, <2>3, <1>0
<1>3. CASE ProcessFirstError(p, r)
  BY <1>0, <1>3 DEF ProcessFirstError, Completes
<1>4. CASE ProcessLastOk(p, r)
  <2> DEFINE kept == IF LastInGroup(p) THEN r ELSE cached[c]
             final == MarkFinal(p, r)
  <2>1. /\ IsGroup(c) /\ sent[c].policy = FirstErrorOrLastOk /\ r.status = "OK"
        /\ cached' = [cached EXCEPT ![c] = kept]
    BY <1>4 DEF ProcessLastOk
  <2>2. \/ cached' = cached /\ ~LastInGroup(p)
        \/ cached' = [cached EXCEPT ![c] = r] /\ LastInGroup(p)
    BY <1>0, <1>t, <2>1
  <2>3. CASE Members(c) \subseteq final
    <3>1. Deliver(c, kept, TRUE, sent[c].dests) /\ RemovePaths(Members(c))
      BY <1>4, <2>3 DEF ProcessLastOk
    <3>2. \A q \in Members(c) : q \in has_final \/ (q = p /\ r.final)
      BY <2>3 DEF MarkFinal
    <3>3. CASE LastInGroup(p)
      <4>1. p \notin has_final
        BY <2>1, <1>0 DEF IInv, AnsweredWhenFinal
      <4>2. kept = r /\ r.final
        BY <3>2, <3>3, <4>1, <1>0
      <4> QED
        BY <1>0, <2>1, <2>2, <3>1, <3>2, <4>2 DEF Completes
    <3>4. CASE ~LastInGroup(p)
      <4> DEFINE q == <<c, sent[c].dests>>
      <4>1. q \in Members(c) /\ q # p /\ LastInGroup(q)
        BY <1>0, <2>1, <3>4 DEF Members, LastInGroup
      <4>2. kept = [status |-> "OK", final |-> TRUE]
        BY <2>1, <3>2, <3>4, <4>1 DEF IInv, CachedWhenFinal
      <4> HIDE DEF kept
      <4>3. kept \in Results /\ kept.final
        BY <4>2 DEF Results, Status
      <4> QED
        BY <1>0, <2>1, <2>2, <3>1, <3>2, <4>3 DEF Completes
    <3> QED
      BY <3>3, <3>4
  <2>4. CASE ~(Members(c) \subseteq final)
    <3>1. has_final' = final /\ UNCHANGED <<out_paths, expired, outVars>>
      BY <1>4, <2>4 DEF ProcessLastOk
    <3> QED
      BY <1>0, <2>1, <2>2, <2>4, <3>1 DEF Keeps
  <2> QED
    BY <2>3, <2>4
<1>5. CASE ProcessEach(p, r)
  <2> DEFINE final == MarkFinal(p, r)
  <2>1. IsGroup(c) /\ sent[c].policy # FirstErrorOrLastOk /\ UNCHANGED cached
    BY <1>5 DEF ProcessEach, EachOkAndError, FirstErrorOrLastOk
  <2>2. CASE Members(c) \subseteq final
    <3>1. Deliver(c, r, TRUE, p[2]) /\ RemovePaths(Members(c))
      BY <1>5, <2>2 DEF ProcessEach
    <3> QED
      BY <1>0, <2>1, <3>1 DEF Completes
  <2>3. CASE ~(Members(c) \subseteq final)
    <3>1. /\ Deliver(c, r, FALSE, p[2])
          /\ has_final' = final /\ UNCHANGED <<out_paths, expired>>
      BY <1>5, <2>3 DEF ProcessEach
    <3> QED
      BY <1>0, <2>1, <2>3, <3>1 DEF Keeps
  <2> QED
    BY <2>2, <2>3
<1> QED
  BY <1>1, <1>2, <1>3, <1>4, <1>5 DEF ten_path_table_process_cmd_result

-----------------------------------------------------------------------------
(* Every conjunct is preserved when a result is processed, from a          *)
(* destination or from a batch.                                            *)

\* What the two callers of the processing have in common.
Processing(p, r) ==
  /\ ten_path_table_process_cmd_result(p, r)
  /\ UNCHANGED <<state, sent, received, overdue>>
  /\ r.status = "OK" => p \notin answered
  /\ answered' = answered \/ (r.final /\ answered' = answered \cup {p})
  /\ r.status = "OK" /\ r.final => p \in answered'
  /\ partials' \in [Cmds -> 0 .. MaxPartial]
  /\ batch' = batch \/ (r.final /\ batch' = batch \ {p})

\* Processing a result keeps the invariants on what leaves the extension.
LEMMA ProcessingOut ==
  ASSUME IInv, NEW p \in Paths, NEW r \in Results, Processing(p, r)
  PROVE  /\ delivered' \in [Cmds -> Seq(Deliveries)]
         /\ \A c \in Cmds \ {p[1]} : delivered'[c] = delivered[c]
         /\ returned' \in [InCmds -> Seq(Results)]
         /\ in_paths' \subseteq in_paths
         /\ UpstreamFinalOnce'
         /\ ReturnedWasReceived'
<1> DEFINE c == p[1]
<1>0. /\ c \in Cmds /\ p[2] \in 1 .. MaxDests
      /\ delivered \in [Cmds -> Seq(Deliveries)]
      /\ returned \in [InCmds -> Seq(Results)] /\ in_paths \subseteq InCmds
      /\ UNCHANGED received
  BY PathParts DEF IInv, TypeOK, Processing
<1>1. \/ UNCHANGED outVars
      \/ \E k \in Results, done \in BOOLEAN, i \in 1 .. MaxDests : Deliver(c, k, done, i)
  BY <1>0, ProcessEffect DEF Processing, Keeps, Completes
<1>2. CASE UNCHANGED outVars
  BY <1>0, <1>2 DEF outVars, IInv, UpstreamFinalOnce, ReturnedWasReceived
<1>3. ASSUME NEW k \in Results, NEW done \in BOOLEAN, NEW i \in 1 .. MaxDests,
             Deliver(c, k, done, i)
      PROVE  /\ delivered' \in [Cmds -> Seq(Deliveries)]
             /\ \A e \in Cmds \ {c} : delivered'[e] = delivered[e]
             /\ returned' \in [InCmds -> Seq(Results)]
             /\ in_paths' \subseteq in_paths
             /\ UpstreamFinalOnce'
             /\ ReturnedWasReceived'
  <2>1. CASE UNCHANGED <<returned, in_paths>>
    <3>1. UpstreamFinalOnce' /\ ReturnedWasReceived'
      BY <1>0, <2>1 DEF IInv, UpstreamFinalOnce, ReturnedWasReceived
    <3>2. CASE \E d \in Deliveries : delivered' = [delivered EXCEPT ![c] = Append(@, d)]
      BY <1>0, <2>1, <3>1, <3>2
    <3>3. CASE UNCHANGED delivered
      BY <1>0, <2>1, <3>1, <3>3
    <3> QED
      BY <1>0, <1>3, <3>2, <3>3, DeliverEffect DEF IInv
  <2>2. CASE ~UNCHANGED <<returned, in_paths>>
    <3>1. PICK s \in Results : ten_env_return_result(c, s)
      BY <1>0, <1>3, <2>2, DeliverEffect DEF IInv
    <3>2. UNCHANGED delivered
      BY <1>0, <1>3, <2>2, DeliverEffect DEF IInv
    <3>3. PICK conv \in Results :
            /\ c \in in_paths
            /\ conv.final = s.final
            /\ returned' = [returned EXCEPT ![c] = Append(@, conv)]
            /\ in_paths' = IF s.final THEN in_paths \ {c} ELSE in_paths
      BY <1>0, <2>2, <3>1, ReturnEffect DEF IInv
    <3> QED
      BY <1>0, <3>2, <3>3 DEF IInv, UpstreamFinalOnce, ReturnedWasReceived
  <2> QED
    BY <2>1, <2>2
<1> QED
  BY <1>1, <1>2, <1>3

\* Processing a result keeps the groups of the table whole and their last
\* members' results cached.
LEMMA ProcessingTable ==
  ASSUME IInv, NEW p \in Paths, NEW r \in Results, Processing(p, r)
  PROVE  /\ TypeOK'
         /\ GroupIntact'
         /\ CachedWhenFinal'
         /\ AnsweredWhenFinal'
         /\ SomeNotFinal'
         /\ FlushCovers'
<1> DEFINE c == p[1]
<1>0. /\ c \in Cmds /\ UNCHANGED <<state, sent, received, overdue>>
      /\ r.final \in BOOLEAN
  BY PathParts DEF Processing, Results
<1>m. /\ \A e \in Cmds : Members(e)' = Members(e) /\ (IsGroup(e)' <=> IsGroup(e))
      /\ \A q : LastInGroup(q)' <=> LastInGroup(q)
      /\ \A e \in Cmds : \A q \in Members(e) : q[1] = e /\ q \in Paths
  BY <1>0, MembersArePaths DEF Members, IsGroup, LastInGroup, IInv
<1>t. (out_paths \subseteq Paths /\ has_final \subseteq Paths /\ expired \subseteq Paths
       /\ cached \in [Cmds -> Results \cup {NotCached}])' => TypeOK'
  BY <1>0, ProcessingOut DEF IInv, TypeOK, Processing
<1>1. CASE p \notin out_paths /\ UNCHANGED <<tableVars, outVars>>
  <2>1. UNCHANGED <<out_paths, has_final, expired, cached>>
    BY <1>1 DEF tableVars
  <2>2. TypeOK'
    BY <1>t, <2>1 DEF IInv, TypeOK
  <2>4. GroupIntact' /\ SomeNotFinal'
    BY <1>0, <1>m, <2>1 DEF IInv, GroupIntact, SomeNotFinal
  <2>5. CachedWhenFinal'
    BY <1>0, <1>m, <2>1 DEF IInv, CachedWhenFinal
  <2>3. AnsweredWhenFinal' /\ FlushCovers'
    BY <1>0, <1>1, <2>1 DEF IInv, AnsweredWhenFinal, FlushCovers, Processing
  <2> QED
    BY <2>2, <2>3, <2>4, <2>5
<1> SUFFICES ASSUME p \in out_paths, Keeps(p, r) \/ Completes(p, r)
             PROVE  /\ TypeOK' /\ GroupIntact' /\ CachedWhenFinal'
                    /\ AnsweredWhenFinal' /\ SomeNotFinal' /\ FlushCovers'
  BY <1>1, ProcessEffect DEF Processing
<1>p. p \in Members(c) /\ Members(c) \subseteq out_paths
  BY PathIsMember
<1>c. cached' = cached \/ cached' = [cached EXCEPT ![c] = r]
  BY DEF Keeps, Completes
<1>2. CASE Keeps(p, r)
  <2>1. /\ out_paths' = out_paths /\ expired' = expired
        /\ has_final' = IF r.final THEN has_final \cup {p} ELSE has_final
    BY <1>2 DEF Keeps, MarkFinal
  <2>2. TypeOK'
    BY <1>0, <1>t, <1>c, <2>1, ZenonT(30) DEF IInv, TypeOK
  <2>3. GroupIntact'
    BY <1>0, <1>m, <2>1 DEF IInv, GroupIntact
  <2>4. SomeNotFinal'
    <3> SUFFICES ASSUME NEW e \in Cmds, sent[e].dests > 0
                 PROVE  \E q \in Members(e) : q \notin has_final'
      BY <1>0, <1>m DEF SomeNotFinal
    <3>1. CASE e = c
      BY <1>2, <3>1 DEF Keeps
    <3>2. CASE e # c
      BY <1>m, <1>p, <2>1, <3>2 DEF IInv, SomeNotFinal
    <3> QED
      BY <3>1, <3>2
  <2>5. AnsweredWhenFinal'
    <3> SUFFICES ASSUME NEW q \in has_final', sent[q[1]].policy = FirstErrorOrLastOk
                 PROVE  q \in answered'
      BY <1>0 DEF AnsweredWhenFinal
    <3>1. CASE q \in has_final
      BY <3>1 DEF IInv, AnsweredWhenFinal, Processing
    <3>2. CASE q \notin has_final
      <4>1. q = p /\ r.final
        BY <2>1, <3>2, <1>0
      <4>2. IsGroup(c)
        <5>1. CASE Members(c) = {p}
          BY <1>2, <2>1, <4>1, <5>1 DEF Keeps
        <5>2. CASE Members(c) # {p}
          BY <1>0, <1>p, <5>2, PathIsMember, PathParts DEF Members, IsGroup
        <5> QED
          BY <5>1, <5>2
      <4> QED
        BY <1>2, <4>1, <4>2 DEF Keeps, Processing
    <3> QED
      BY <3>1, <3>2
  <2>6. CachedWhenFinal'
    <3> SUFFICES ASSUME NEW q \in has_final', LastInGroup(q),
                        sent[q[1]].policy = FirstErrorOrLastOk
                 PROVE  cached'[q[1]] = [status |-> "OK", final |-> TRUE]
      BY <1>0, <1>m DEF CachedWhenFinal
    <3>0. q \in Paths /\ q \in out_paths /\ q[1] \in Cmds
          /\ cached \in [Cmds -> Results \cup {NotCached}]
      BY <2>1, <1>p, PathParts DEF IInv, GroupIntact, TypeOK
    <3>1. CASE q[1] # c
      BY <1>c, <2>1, <3>0, <3>1 DEF IInv, CachedWhenFinal
    <3>2. CASE q[1] = c /\ q = p
      <4>1. r.status = "OK" /\ cached' = [cached EXCEPT ![c] = r]
        BY <1>2, <3>2 DEF Keeps
      <4>2. p \notin has_final
        BY <3>2, <4>1 DEF IInv, AnsweredWhenFinal, Processing
      <4>3. r.final
        BY <2>1, <3>2, <4>2
      <4>4. r = [status |-> "OK", final |-> TRUE]
        BY <4>1, <4>3 DEF Results
      <4> QED
        BY <1>0, <3>0, <3>2, <4>1, <4>4
    <3>3. CASE q[1] = c /\ q # p
      <4>1. ~LastInGroup(p)
        BY <3>0, <3>3, PathParts DEF LastInGroup
      <4>2. UNCHANGED cached /\ q \in has_final
        BY <1>2, <2>1, <3>3, <4>1 DEF Keeps
      <4> QED
        BY <3>3, <4>2 DEF IInv, CachedWhenFinal
    <3> QED
      BY <3>1, <3>2, <3>3
  <2>7. FlushCovers'
    BY <1>0, <2>1 DEF IInv, FlushCovers, Processing
  <2> QED
    BY <2>2, <2>3, <2>4, <2>5, <2>6, <2>7
<1>3. CASE Completes(p, r)
  <2>1. /\ out_paths' = out_paths \ Members(c) /\ expired' = expired \ Members(c)
        /\ has_final' = has_final \ Members(c)
    BY <1>3 DEF Completes, RemovePaths
  <2>2. TypeOK'
    BY <1>0, <1>t, <1>c, <2>1, ZenonT(30) DEF IInv, TypeOK
  <2>3. GroupIntact'
    BY <1>0, <1>m, <2>1 DEF IInv, GroupIntact
  <2>4. SomeNotFinal'
    BY <1>0, <1>m, <2>1 DEF IInv, SomeNotFinal
  <2>5. AnsweredWhenFinal'
    BY <1>0, <2>1 DEF IInv, AnsweredWhenFinal, Processing
  <2>6. CachedWhenFinal'
    <3> SUFFICES ASSUME NEW q \in has_final', LastInGroup(q),
                        sent[q[1]].policy = FirstErrorOrLastOk
                 PROVE  cached'[q[1]] = [status |-> "OK", final |-> TRUE]
      BY <1>0, <1>m DEF CachedWhenFinal
    <3>1. q \in has_final /\ q \in out_paths /\ q \notin Members(c) /\ q \in Paths
      BY <2>1 DEF IInv, GroupIntact, TypeOK
    <3>2. q[1] # c /\ q[1] \in Cmds
      BY <3>1, PathIsMember, PathParts
    <3> QED
      BY <1>0, <1>c, <3>1, <3>2 DEF IInv, CachedWhenFinal, TypeOK
  <2>7. FlushCovers'
    BY <1>0, <1>p, <2>1 DEF IInv, FlushCovers, Processing
  <2> QED
    BY <2>2, <2>3, <2>4, <2>5, <2>6, <2>7
<1> QED
  BY <1>2, <1>3

\* Processing a result keeps the invariants on what the handlers have seen.
LEMMA ProcessingHandlers ==
  ASSUME IInv, NEW p \in Paths, NEW r \in Results, Processing(p, r)
  PROVE  /\ NothingBeforeSend'
         /\ CompletedOnce'
         /\ CompletedWhenGone'
         /\ GroupResult'
<1> DEFINE c == p[1]
<1>0. /\ c \in Cmds /\ p[2] \in 1 .. MaxDests /\ UNCHANGED sent
      /\ delivered \in [Cmds -> Seq(Deliveries)]
      /\ answered \subseteq answered'
  BY PathParts DEF IInv, TypeOK, Processing
<1>m. \A e \in Cmds : Members(e)' = Members(e) /\ (IsGroup(e)' <=> IsGroup(e))
  BY <1>0 DEF Members, IsGroup
<1>d. Members(c) \cap out_paths # {} =>
        /\ \A k \in 1 .. Len(delivered[c]) : ~delivered[c][k].completed
        /\ IsGroup(c) /\ sent[c].policy = FirstErrorOrLastOk => delivered[c] = << >>
  <2> SUFFICES ASSUME Members(c) \cap out_paths # {}
               PROVE  /\ \A k \in 1 .. Len(delivered[c]) : ~delivered[c][k].completed
                      /\ IsGroup(c) /\ sent[c].policy = FirstErrorOrLastOk =>
                           delivered[c] = << >>
    OBVIOUS
  <2>1. \A k \in 1 .. Len(delivered[c]) : ~delivered[c][k].completed
    BY <1>0 DEF IInv, CompletedOnce
  <2>2. IsGroup(c) /\ sent[c].policy = FirstErrorOrLastOk => Len(delivered[c]) = 0
    BY <1>0, <2>1 DEF IInv, GroupResult
  <2> QED
    BY <1>0, <2>1, <2>2
<1>1. CASE UNCHANGED <<out_paths, delivered>>
  BY <1>0, <1>m, <1>1 DEF IInv, NothingBeforeSend, CompletedOnce, CompletedWhenGone, GroupResult
<1>2. CASE p \in out_paths /\ Keeps(p, r)
  <2>1. CASE UNCHANGED delivered
    BY <1>1, <1>2, <2>1 DEF Keeps
  <2>2. CASE ~UNCHANGED delivered
    <3>1. /\ Deliver(c, r, FALSE, p[2]) /\ UNCHANGED out_paths
          /\ ~(IsGroup(c) /\ sent[c].policy = FirstErrorOrLastOk)
      BY <1>2, <2>2 DEF Keeps, outVars
    <3>2. PICK d \in Deliveries : /\ ~d.completed /\ sent[c].handler
                                  /\ delivered' = [delivered EXCEPT ![c] = Append(@, d)]
      BY <1>0, <2>2, <3>1, DeliverEffect DEF IInv
    <3>3. Members(c) \cap out_paths # {} /\ sent[c].dests # 0
      BY <1>2, PathIsMember
    <3>4. /\ delivered'[c] = Append(delivered[c], d)
          /\ \A e \in Cmds \ {c} : delivered'[e] = delivered[e]
      BY <1>0, <3>2
    <3>5. \A k \in 1 .. Len(delivered'[c]) : ~delivered'[c][k].completed
      BY <1>0, <1>d, <3>2, <3>3, <3>4
    <3>6. NothingBeforeSend' /\ CompletedWhenGone'
      BY <1>0, <1>m, <3>1, <3>3, <3>4 DEF IInv, NothingBeforeSend, CompletedWhenGone
    <3>7. CompletedOnce'
      BY <1>0, <1>m, <3>1, <3>4, <3>5, ZenonT(30) DEF IInv, CompletedOnce
    <3>8. GroupResult'
      BY <1>0, <1>m, <3>1, <3>4 DEF IInv, GroupResult
    <3> QED
      BY <3>6, <3>7, <3>8
  <2> QED
    BY <2>1, <2>2
<1>3. CASE p \in out_paths /\ Completes(p, r)
  <2>1. PICK k \in Results, i \in 1 .. MaxDests :
          /\ Deliver(c, k, TRUE, i)
          /\ IsGroup(c) /\ sent[c].policy = FirstErrorOrLastOk /\ k.status = "OK" =>
               /\ k.final /\ i = sent[c].dests
               /\ r.status = "OK"
               /\ \A q \in Members(c) : q \in has_final \/ (q = p /\ r.final)
    BY <1>3 DEF Completes
  <2>2. out_paths' = out_paths \ Members(c)
    BY <1>3 DEF Completes, RemovePaths
  <2>3. Members(c) \cap out_paths # {} /\ sent[c].dests # 0
    BY <1>3, PathIsMember
  <2>m. \A e \in Cmds \ {c} : Members(e) \cap out_paths' = Members(e) \cap out_paths
    BY <1>0, <2>2, MembersArePaths DEF IInv
  <2>4. CASE sent[c].handler
    <3>1. PICK d \in Deliveries :
            /\ d.completed /\ d.final = k.final /\ d.from = i
            /\ d.status = "OK" => k.status = "OK"
            /\ delivered' = [delivered EXCEPT ![c] = Append(@, d)]
      BY <1>0, <2>1, <2>4, DeliverEffect DEF IInv
    <3>2. /\ delivered'[c] = Append(delivered[c], d)
          /\ \A e \in Cmds \ {c} : delivered'[e] = delivered[e]
      BY <1>0, <3>1
    <3>3. NothingBeforeSend' /\ CompletedWhenGone'
      BY <1>0, <1>m, <2>2, <2>3, <2>m, <3>1, <3>2 DEF IInv, NothingBeforeSend, CompletedWhenGone
    <3>4. CompletedOnce'
      <4> SUFFICES ASSUME NEW e \in Cmds, NEW n \in 1 .. Len(delivered'[e]),
                          delivered'[e][n].completed
                   PROVE  n = Len(delivered'[e]) /\ Members(e) \cap out_paths' = {}
        BY <1>m DEF CompletedOnce
      <4>1. CASE e = c
        BY <1>0, <1>d, <2>2, <2>3, <3>1, <3>2, <4>1
      <4>2. CASE e # c
        BY <2>m, <3>2, <4>2 DEF IInv, CompletedOnce
      <4> QED
        BY <4>1, <4>2
    <3>5. GroupResult'
      <4> SUFFICES ASSUME NEW e \in Cmds, IsGroup(e), sent[e].policy = FirstErrorOrLastOk
                   PROVE  /\ Len(delivered'[e]) <= 1
                          /\ \A n \in 1 .. Len(delivered'[e]) :
                               /\ delivered'[e][n].completed
                               /\ delivered'[e][n].status = "OK" =>
                                    /\ delivered'[e][n].from = sent[e].dests
                                    /\ delivered'[e][n].final
                                    /\ Members(e) \subseteq answered'
        BY <1>0, <1>m DEF GroupResult
      <4>1. CASE e = c
        <5>1. Len(delivered'[c]) = 1 /\ delivered'[c][1] = d
          <6>1. delivered[c] \in Seq(Deliveries) /\ Len(delivered[c]) = 0
            BY <1>0, <1>d, <2>3, <4>1
          <6> QED
            BY <3>2, <6>1
        <5>2. d.status = "OK" => Members(c) \subseteq answered'
          BY <1>0, <2>1, <3>1, <4>1 DEF IInv, AnsweredWhenFinal, Processing, Members
        <5>3. d.status = "OK" => d.from = sent[c].dests /\ d.final
          BY <2>1, <3>1, <4>1
        <5>4. \A n \in 1 .. Len(delivered'[c]) : delivered'[c][n] = d
          BY <5>1
        <5> QED
          BY <3>1, <4>1, <5>1, <5>2, <5>3, <5>4
      <4>2. CASE e # c
        BY <1>0, <3>2, <4>2 DEF IInv, GroupResult
      <4> QED
        BY <4>1, <4>2
    <3> QED
      BY <3>3, <3>4, <3>5
  <2>5. CASE ~sent[c].handler
    <3>1. UNCHANGED delivered
      BY <1>0, <2>1, <2>5, DeliverEffect DEF IInv
    <3>2. NothingBeforeSend' /\ GroupResult'
      BY <1>0, <1>m, <3>1 DEF IInv, NothingBeforeSend, GroupResult
    <3>3. CompletedOnce'
      BY <1>0, <1>m, <1>d, <2>2, <2>3, <2>m, <3>1 DEF IInv, CompletedOnce
    <3>4. CompletedWhenGone'
      BY <1>0, <1>m, <2>5, <2>m, <3>1 DEF IInv, CompletedWhenGone
    <3> QED
      BY <3>2, <3>3, <3>4
  <2> QED
    BY <2>4, <2>5
<1>4. CASE p \notin out_paths /\ UNCHANGED <<tableVars, outVars>>
  BY <1>1, <1>4 DEF tableVars, outVars
<1> QED
  BY <1>2, <1>3, <1>4, ProcessEffect DEF Processing

-----------------------------------------------------------------------------
(* The steps of the specification.                                         *)

\* Processing a result keeps the whole invariant; RecvResult and FeedBatch,
\* the two callers of ten_path_table_process_cmd_result, rest on it.
LEMMA ProcessingIInv ==
  ASSUME IInv, NEW p \in Paths, NEW r \in Results, Processing(p, r)
  PROVE  IInv'
  BY ProcessingOut, ProcessingTable, ProcessingHandlers DEF IInv

\* The paths of a command that has not been sent are new ones.
LEMMA SendCmdIInv ==
  ASSUME IInv, NEW c \in Cmds, NEW n \in 1 .. MaxDests, NEW handler \in BOOLEAN,
         NEW multiple \in BOOLEAN, SendCmd(c, n, handler, multiple)
  PROVE  IInv'
<1> DEFINE new == [dests |-> n, handler |-> handler,
                   policy |-> IF multiple THEN EachOkAndError ELSE FirstErrorOrLastOk]
           added == {c} \X (1 .. n)
<1>0. /\ state # "deinit_done" /\ sent[c].dests = 0
      /\ sent' = [sent EXCEPT ![c] = new]
      /\ out_paths' = out_paths \cup added
      /\ UNCHANGED <<state, has_final, cached, expired, received, overdue, partials,
                     answered, batch, delivered, returned, in_paths>>
  BY DEF SendCmd, ReturnPolicy, envVars, outVars
<1>1. new \in [dests : 0 .. MaxDests, policy : Policies, handler : BOOLEAN]
      /\ new.dests = n /\ new.handler = handler
  BY ConstantsAssumption DEF Policies
<1> HIDE DEF new
<1>2. /\ sent \in [Cmds -> [dests : 0 .. MaxDests, policy : Policies, handler : BOOLEAN]]
      /\ sent'[c] = new /\ \A e \in Cmds \ {c} : sent'[e] = sent[e]
  BY <1>0 DEF IInv, TypeOK
<1>3. /\ Members(c) = {} /\ Members(c)' = added /\ added # {}
      /\ \A e \in Cmds \ {c} : Members(e)' = Members(e) /\ (IsGroup(e)' <=> IsGroup(e))
      /\ \A e \in Cmds \ {c} : Members(e) \cap added = {}
      /\ added \subseteq Paths
  <2>1. Members(c) = {}
    BY <1>0 DEF Members
  <2>2. Members(c)' = added /\ << c, 1 >> \in added
    BY <1>1, <1>2, ConstantsAssumption DEF Members
  <2>3. \A e \in Cmds \ {c} : Members(e)' = Members(e) /\ (IsGroup(e)' <=> IsGroup(e))
    BY <1>2 DEF Members, IsGroup
  <2>4. \A e \in Cmds \ {c} : Members(e) \cap added = {}
    BY DEF Members
  <2>5. added \subseteq Paths
    BY ConstantsAssumption DEF Paths
  <2> QED
    BY <2>1, <2>2, <2>3, <2>4, <2>5
<1>4. added \cap out_paths = {} /\ added \cap has_final = {}
  BY <1>3 DEF IInv, GroupIntact
<1>5. \A q \in has_final : q[1] \in Cmds \ {c}
  <2> SUFFICES ASSUME NEW q \in has_final PROVE q[1] \in Cmds \ {c}
    OBVIOUS
  <2>1. q \in Paths /\ q \in out_paths
    BY DEF IInv, TypeOK, GroupIntact
  <2>2. q \in Members(q[1]) /\ q[1] \in Cmds
    BY <2>1, PathIsMember
  <2> QED
    BY <1>3, <2>2
<1>6. TypeOK'
  BY <1>0, <1>1, <1>3 DEF IInv, TypeOK
<1>7. GroupIntact'
  <2>1. \A e \in Cmds : Members(e)' \subseteq out_paths' \/ Members(e)' \cap out_paths' = {}
    BY <1>0, <1>3 DEF IInv, GroupIntact
  <2>2. \A q \in out_paths' : \E e \in Cmds : q \in Members(e)'
    BY <1>0, <1>3 DEF IInv, GroupIntact
  <2>3. has_final' \subseteq out_paths'
    BY <1>0 DEF IInv, GroupIntact
  <2> QED
    BY <2>1, <2>2, <2>3 DEF GroupIntact
<1>8. CachedWhenFinal' /\ AnsweredWhenFinal'
  <2>1. \A q \in has_final : /\ sent'[q[1]] = sent[q[1]]
                             /\ LastInGroup(q)' <=> LastInGroup(q)
    BY <1>2, <1>5 DEF LastInGroup, IsGroup
  <2> QED
    BY <1>0, <2>1 DEF IInv, CachedWhenFinal, AnsweredWhenFinal
<1>9. SomeNotFinal'
  BY <1>0, <1>2, <1>3, <1>4 DEF IInv, SomeNotFinal
<1>10. NothingBeforeSend' /\ CompletedWhenGone'
  BY <1>0, <1>1, <1>2, <1>3 DEF IInv, NothingBeforeSend, CompletedWhenGone
<1>11. delivered[c] = << >> /\ delivered'[c] = << >>
  BY <1>0 DEF IInv, NothingBeforeSend
<1>12. CompletedOnce'
  <2> SUFFICES ASSUME NEW e \in Cmds, NEW k \in 1 .. Len(delivered[e]),
                      delivered[e][k].completed
               PROVE  k = Len(delivered[e]) /\ Members(e)' \cap out_paths' = {}
    BY <1>0 DEF CompletedOnce
  <2>1. e # c
    BY <1>11
  <2> QED
    BY <1>0, <1>3, <2>1 DEF IInv, CompletedOnce
<1>13. GroupResult'
  <2>1. Len(delivered[c]) = 0
    BY <1>11
  <2> SUFFICES ASSUME NEW e \in Cmds, IsGroup(e)', sent'[e].policy = FirstErrorOrLastOk, e # c
               PROVE  /\ Len(delivered[e]) <= 1
                      /\ \A k \in 1 .. Len(delivered[e]) :
                           /\ delivered[e][k].completed
                           /\ delivered[e][k].status = "OK" =>
                                /\ delivered[e][k].from = sent[e].dests
                                /\ delivered[e][k].final
                                /\ Members(e) \subseteq answered
    BY <1>0, <1>2, <1>3, <2>1 DEF GroupResult
  <2> QED
    BY <1>2, <1>3 DEF IInv, GroupResult
<1>14. FlushCovers' /\ ReturnedWasReceived' /\ UpstreamFinalOnce'
  BY <1>0 DEF IInv, FlushCovers, ReturnedWasReceived, UpstreamFinalOnce
<1> QED
  BY <1>6, <1>7, <1>8, <1>9, <1>10, <1>12, <1>13, <1>14 DEF IInv

\* The conjuncts about OUT paths and handlers hold on when nothing they
\* speak of changes.
LEMMA TableUnchanged ==
  ASSUME IInv, UNCHANGED <<sent, out_paths, has_final, cached, answered, delivered>>
  PROVE  /\ GroupIntact' /\ CachedWhenFinal' /\ AnsweredWhenFinal' /\ SomeNotFinal'
         /\ NothingBeforeSend' /\ CompletedOnce' /\ CompletedWhenGone' /\ GroupResult'
<1>1. /\ \A c \in Cmds : Members(c)' = Members(c) /\ (IsGroup(c)' <=> IsGroup(c))
      /\ \A p : LastInGroup(p)' <=> LastInGroup(p)
  BY DEF Members, IsGroup, LastInGroup
<1>2. GroupIntact' /\ SomeNotFinal'
  BY <1>1 DEF IInv, GroupIntact, SomeNotFinal
<1>3. CachedWhenFinal' /\ AnsweredWhenFinal'
  BY <1>1 DEF IInv, CachedWhenFinal, AnsweredWhenFinal
<1>4. NothingBeforeSend' /\ CompletedOnce' /\ CompletedWhenGone'
  BY <1>1 DEF IInv, NothingBeforeSend, CompletedOnce, CompletedWhenGone
<1>5. GroupResult'
  BY <1>1 DEF IInv, GroupResult
<1> QED
  BY <1>2, <1>3, <1>4, <1>5

\* A result the extension returns itself keeps the invariant.
LEMMA ReturnResultIInv ==
  ASSUME IInv, NEW c \in InCmds, NEW r \in Results, ReturnResult(c, r)
  PROVE  IInv'
<1>0. /\ c \in Cmds
      /\ UNCHANGED <<state, sent, out_paths, has_final, cached, expired, received, overdue,
                     partials, answered, batch, delivered>>
      /\ ten_env_return_result(c, r)
  BY DEF ReturnResult, Cmds, tableVars, envVars
<1>1. /\ returned \in [InCmds -> Seq(Results)] /\ in_paths \subseteq InCmds
  BY DEF IInv, TypeOK
<1>2. /\ returned' \in [InCmds -> Seq(Results)] /\ in_paths' \subseteq InCmds
      /\ ReturnedWasReceived' /\ UpstreamFinalOnce'
  <2>1. CASE UNCHANGED <<returned, in_paths>>
    BY <1>0, <1>1, <2>1 DEF IInv, ReturnedWasReceived, UpstreamFinalOnce
  <2>2. CASE ~UNCHANGED <<returned, in_paths>>
    <3>1. PICK conv \in Results :
            /\ c \in in_paths
            /\ conv.final = r.final
            /\ returned' = [returned EXCEPT ![c] = Append(@, conv)]
            /\ in_paths' = IF r.final THEN in_paths \ {c} ELSE in_paths
      BY <1>0, <2>2, ReturnEffect DEF IInv
    <3> QED
      BY <1>0, <1>1, <3>1 DEF IInv, UpstreamFinalOnce, ReturnedWasReceived
  <2> QED
    BY <2>1, <2>2
<1>3. TypeOK'
  BY <1>0, <1>2 DEF IInv, TypeOK
<1>4. FlushCovers'
  BY <1>0 DEF IInv, FlushCovers
<1> QED
  BY <1>0, <1>2, <1>3, <1>4, TableUnchanged DEF IInv

\* Every step of the extension, of its timers and of its peers keeps the
\* invariant.
LEMMA NextIInv == IInv /\ [Next]_vars => IInv'
<1> SUFFICES ASSUME IInv, [Next]_vars PROVE IInv'
  OBVIOUS
<1>1. ASSUME NEW c \in Cmds, NEW n \in 1 .. MaxDests, NEW h \in BOOLEAN, NEW m \in BOOLEAN,
             SendCmd(c, n, h, m)
      PROVE  IInv'
  BY <1>1, SendCmdIInv
<1>2. ASSUME NEW c \in InCmds, RecvCmd(c) PROVE IInv'
  <2>1. /\ received' = received \cup {c} /\ in_paths' = in_paths \cup {c} /\ c \notin received
        /\ UNCHANGED <<state, sent, out_paths, has_final, cached, expired, overdue,
                       partials, answered, batch, delivered, returned>>
    BY <1>2 DEF RecvCmd, tableVars, envVars
  <2>2. TypeOK' /\ FlushCovers'
    BY <2>1 DEF IInv, TypeOK, FlushCovers
  <2>3. returned[c] = << >>
    BY <2>1 DEF IInv, ReturnedWasReceived
  <2>4. ReturnedWasReceived' /\ UpstreamFinalOnce'
    BY <2>1, <2>3 DEF IInv, ReturnedWasReceived, UpstreamFinalOnce
  <2> QED
    BY <2>1, <2>2, <2>4, TableUnchanged DEF IInv
<1>3. ASSUME NEW c \in InCmds, NEW r \in Results, ReturnResult(c, r) PROVE IInv'
  BY <1>3, ReturnResultIInv
<1>4. ASSUME NEW p \in Paths, NEW r \in Results, RecvResult(p, r) PROVE IInv'
  <2>1. /\ partials' = [partials EXCEPT ![p[1]] = IF r.final THEN @ ELSE @ + 1]
        /\ ~r.final => partials[p[1]] < MaxPartial
        /\ partials \in [Cmds -> 0 .. MaxPartial]
        /\ r.final \in BOOLEAN
    BY <1>4 DEF RecvResult, IInv, TypeOK, Results
  <2>2. partials' \in [Cmds -> 0 .. MaxPartial]
    <3>1. p[1] \in Cmds
      BY DEF Paths
    <3> QED
      BY <2>1, <3>1, ConstantsAssumption
  <2>3. Processing(p, r)
    BY <1>4, <2>2 DEF RecvResult, Processing
  <2> QED
    BY <2>3, ProcessingIInv
<1>5. CASE OutPathTimer
  <2>1. /\ state = "running" /\ batch' = expired \cap out_paths
        /\ overdue' = overdue \cup {p[1] : p \in batch'}
        /\ UNCHANGED <<state, sent, out_paths, has_final, cached, expired, received,
                       delivered, returned, in_paths, partials, answered>>
    BY <1>5 DEF OutPathTimer, tableVars, outVars
  <2>2. TypeOK'
    BY <2>1, PathParts DEF IInv, TypeOK
  <2>3. FlushCovers' /\ ReturnedWasReceived' /\ UpstreamFinalOnce'
    BY <2>1 DEF IInv, FlushCovers, ReturnedWasReceived, UpstreamFinalOnce
  <2> QED
    BY <2>1, <2>2, <2>3, TableUnchanged DEF IInv
<1>6. ASSUME NEW S \in SUBSET in_paths, InPathTimer(S) PROVE IInv'
  <2>1. /\ in_paths' = in_paths \ S
        /\ UNCHANGED <<state, sent, out_paths, has_final, cached, expired, received, overdue,
                       partials, answered, batch, delivered, returned>>
    BY <1>6 DEF InPathTimer, tableVars, envVars
  <2>2. TypeOK' /\ FlushCovers'
    BY <2>1 DEF IInv, TypeOK, FlushCovers
  <2>3. ReturnedWasReceived' /\ UpstreamFinalOnce'
    BY <2>1 DEF IInv, ReturnedWasReceived, UpstreamFinalOnce
  <2> QED
    BY <2>1, <2>2, <2>3, TableUnchanged DEF IInv
<1>7. ASSUME NEW p \in Paths, FeedBatch(p) PROVE IInv'
  <2>1. ErrorResult \in Results /\ ErrorResult.final /\ ErrorResult.status # "OK"
    BY DEF ErrorResult, Results, Status
  <2>2. Processing(p, ErrorResult)
    BY <1>7, <2>1 DEF FeedBatch, Processing, envVars, IInv, TypeOK
  <2> QED
    BY <2>1, <2>2, ProcessingIInv
<1>8. CASE OnDeinit
  <2>1. /\ state' = "deinit" /\ batch = {}
        /\ UNCHANGED <<sent, out_paths, has_final, cached, expired, received, overdue,
                       partials, answered, batch, delivered, returned, in_paths>>
    BY <1>8 DEF OnDeinit, tableVars, envVars, outVars
  <2>2. TypeOK' /\ FlushCovers'
    BY <2>1 DEF IInv, TypeOK, FlushCovers
  <2>3. ReturnedWasReceived' /\ UpstreamFinalOnce'
    BY <2>1 DEF IInv, ReturnedWasReceived, UpstreamFinalOnce
  <2> QED
    BY <2>1, <2>2, <2>3, TableUnchanged DEF IInv
<1>9. CASE OnDeinitDone
  <2>1. /\ state' = "deinit_done" /\ in_paths' = {} /\ batch' = out_paths
        /\ UNCHANGED <<sent, out_paths, has_final, cached, expired, received, overdue,
                       partials, answered, delivered, returned>>
    BY <1>9 DEF OnDeinitDone, tableVars, envVars
  <2>2. TypeOK' /\ FlushCovers'
    BY <2>1 DEF IInv, TypeOK, FlushCovers
  <2>3. ReturnedWasReceived' /\ UpstreamFinalOnce'
    BY <2>1 DEF IInv, ReturnedWasReceived, UpstreamFinalOnce
  <2> QED
    BY <2>1, <2>2, <2>3, TableUnchanged DEF IInv
<1>10. ASSUME NEW p \in Paths, Expire(p) PROVE IInv'
  <2>1. /\ expired' = expired \cup {p}
        /\ UNCHANGED <<state, sent, out_paths, has_final, cached, received, overdue,
                       partials, answered, batch, delivered, returned, in_paths>>
    BY <1>10 DEF Expire, envVars, outVars
  <2>2. TypeOK' /\ FlushCovers'
    BY <2>1 DEF IInv, TypeOK, FlushCovers
  <2>3. ReturnedWasReceived' /\ UpstreamFinalOnce'
    BY <2>1 DEF IInv, ReturnedWasReceived, UpstreamFinalOnce
  <2> QED
    BY <2>1, <2>2, <2>3, TableUnchanged DEF IInv
<1>11. CASE UNCHANGED vars
  <2>1. UNCHANGED <<state, sent, out_paths, has_final, cached, expired, received, overdue,
                    partials, answered, batch, delivered, returned, in_paths>>
    BY <1>11 DEF vars
  <2>2. TypeOK' /\ FlushCovers' /\ ReturnedWasReceived' /\ UpstreamFinalOnce'
    BY <2>1 DEF IInv, TypeOK, FlushCovers, ReturnedWasReceived, UpstreamFinalOnce
  <2> QED
    BY <2>1, <2>2, TableUnchanged DEF IInv
<1> QED
  BY <1>1, <1>2, <1>3, <1>4, <1>5, <1>6, <1>7, <1>8, <1>9, <1>10, <1>11 DEF Next

\* The inductive invariant holds in every reachable state.
THEOREM Invariance == Spec => []IInv
  BY InitIInv, NextIInv, PTL DEF Spec

-----------------------------------------------------------------------------
(* The safety properties the runs check, for all values of the constants.  *)

\* Type correctness: in particular, what process_cmd_result hands back is a
\* proper result, never a missing cached one.
THEOREM TypeCorrect == Spec => []TypeOK
<1>1. IInv => TypeOK
  BY DEF IInv
<1> QED
  BY <1>1, Invariance, PTL

\* The asserts of remove_group_and_all_its_paths and of process_cmd_result
\* never fail: groups are whole, and a group whose last member is final has
\* its result cached.
THEOREM GroupsWhole == Spec => [](GroupIntact /\ CachedWhenFinal)
<1>1. IInv => GroupIntact /\ CachedWhenFinal
  BY DEF IInv
<1> QED
  BY <1>1, Invariance, PTL

\* A result handler is called at most once with a completed result, and never
\* afterwards: the bindings free the handler at that call.
THEOREM HandlerCompletedOnce == Spec => []CompletedOnce
<1>1. IInv => CompletedOnce
  BY DEF IInv
<1> QED
  BY <1>1, Invariance, PTL

\* The result return policy FIRST_ERROR_OR_LAST_OK does what its name says
\* for any number of destinations.
THEOREM FirstErrorOrLastOkResult == Spec => []GroupResult
<1>1. IInv => GroupResult
  BY DEF IInv
<1> QED
  BY <1>1, Invariance, PTL

\* Upstream never sees two final results of one command.
THEOREM UpstreamFinal == Spec => []UpstreamFinalOnce
<1>1. IInv => UpstreamFinalOnce
  BY DEF IInv
<1> QED
  BY <1>1, Invariance, PTL

\* When the flush of on_deinit_done has run, no OUT path is left and every
\* registered handler has been called with a completed result.
THEOREM FlushCallsHandlers == Spec => []HandlersCalled
<1>1. IInv => HandlersCalled
  <2> SUFFICES ASSUME IInv, state = "deinit_done", batch = {}
               PROVE  /\ out_paths = {}
                      /\ \A c \in Cmds :
                           sent[c].handler =>
                             /\ delivered[c] # << >>
                             /\ delivered[c][Len(delivered[c])].completed
    BY DEF HandlersCalled
  <2>1. out_paths = {}
    <3> SUFFICES ASSUME NEW p \in out_paths PROVE FALSE
      OBVIOUS
    <3>1. p[1] \in Cmds /\ sent[p[1]].dests > 0 /\ Members(p[1]) \subseteq out_paths
      BY PathIsMember DEF IInv, TypeOK
    <3>2. Members(p[1]) \subseteq has_final
      BY <3>1 DEF IInv, FlushCovers
    <3> QED
      BY <3>1, <3>2 DEF IInv, SomeNotFinal
  <2> QED
    BY <2>1 DEF IInv, CompletedWhenGone
<1> QED
  BY <1>1, Invariance, PTL

-----------------------------------------------------------------------------
(* The path table implements ResultPromise.  (Its liveness is left to TLC.) *)

\* A step that calls a handler calls it with one result, of a command that
\* still has its paths.
LEMMA ProcessingCallsOnce ==
  ASSUME IInv, NEW p \in Paths, NEW r \in Results, Processing(p, r), ~UNCHANGED delivered
  PROVE  /\ p[1] \in Cmds /\ sent[p[1]].handler /\ UNCHANGED sent
         /\ Members(p[1]) \cap out_paths # {}
         /\ \E d \in Deliveries : delivered' = [delivered EXCEPT ![p[1]] = Append(@, d)]
<1> DEFINE c == p[1]
<1>0. c \in Cmds /\ p[2] \in 1 .. MaxDests /\ UNCHANGED sent
  BY PathParts DEF Processing
<1>1. p \in out_paths /\ (Keeps(p, r) \/ Completes(p, r))
  BY ProcessEffect DEF Processing, outVars
<1>2. Members(c) \cap out_paths # {}
  BY <1>1, PathIsMember
<1>3. CASE Keeps(p, r)
  <2>1. Deliver(c, r, FALSE, p[2])
    BY <1>3 DEF Keeps, outVars
  <2> QED
    BY <1>0, <1>2, <2>1, DeliverEffect DEF IInv
<1>4. CASE Completes(p, r)
  <2>1. PICK k \in Results, i \in 1 .. MaxDests : Deliver(c, k, TRUE, i)
    BY <1>4 DEF Completes
  <2> QED
    BY <1>0, <1>2, <2>1, DeliverEffect DEF IInv
<1> QED
  BY <1>1, <1>3, <1>4

\* Nothing the mapping reads has changed.
LEMMA MappingUnchanged ==
  ASSUME UNCHANGED <<sent, delivered>>
  PROVE  UNCHANGED <<phaseBar, resultsBar>>
  BY DEF phaseBar, resultsBar, IsCompleted

\* Processing a result is a step of the promise, or is invisible to it.
LEMMA ProcessingImplements ==
  ASSUME IInv, NEW p \in Paths, NEW r \in Results, Processing(p, r)
  PROVE  [Promise!Next]_(Promise!vars)
<1> DEFINE c == p[1]
<1>1. CASE UNCHANGED delivered
  BY <1>1, MappingUnchanged DEF Processing, Promise!vars
<1>2. CASE ~UNCHANGED delivered
  <2>0. /\ c \in Cmds /\ sent[c].handler /\ UNCHANGED sent
        /\ Members(c) \cap out_paths # {}
    BY <1>2, ProcessingCallsOnce
  <2>1. PICK d \in Deliveries : delivered' = [delivered EXCEPT ![c] = Append(@, d)]
    BY <1>2, ProcessingCallsOnce
  <2>2. delivered \in [Cmds -> Seq(Deliveries)] /\ d.completed \in BOOLEAN
    BY DEF IInv, TypeOK, Deliveries
  <2>3. /\ delivered'[c] = Append(delivered[c], d)
        /\ \A e \in Cmds \ {c} : delivered'[e] = delivered[e]
    BY <2>0, <2>1, <2>2
  <2>4. ~IsCompleted(c)
    BY <2>0 DEF IInv, CompletedOnce, IsCompleted
  <2>5. /\ IsCompleted(c)' <=> d.completed
        /\ \A e \in Cmds \ {c} : IsCompleted(e)' <=> IsCompleted(e)
    <3>1. /\ Len(delivered'[c]) = Len(delivered[c]) + 1
          /\ delivered'[c][Len(delivered'[c])] = d
          /\ \A k \in 1 .. Len(delivered[c]) : delivered'[c][k] = delivered[c][k]
          /\ Len(delivered[c]) \in Nat
      BY <2>0, <2>2, <2>3
    <3> QED
      BY <2>3, <2>4, <3>1 DEF IsCompleted
  <2>7. resultsBar' = [resultsBar EXCEPT ![c] = @ + 1]
    BY <2>0, <2>2, <2>3, SMTT(30) DEF resultsBar
  <2>8. phaseBar[c] = "waiting"
    BY <2>0, <2>4 DEF phaseBar
  <2>9. CASE d.completed
    <3>1. phaseBar' = [phaseBar EXCEPT ![c] = "completed"]
      BY <2>0, <2>5, <2>9 DEF phaseBar
    <3>2. Promise!Complete(c)
      BY <2>7, <2>8, <3>1 DEF Promise!Complete
    <3> QED
      BY <2>0, <3>2 DEF Promise!Next
  <2>10. CASE ~d.completed
    <3>1. phaseBar' = phaseBar
      BY <2>0, <2>4, <2>5, <2>10 DEF phaseBar
    <3>2. Promise!Partial(c)
      BY <2>7, <2>8, <3>1 DEF Promise!Partial
    <3> QED
      BY <2>0, <3>2 DEF Promise!Next
  <2> QED
    BY <2>2, <2>9, <2>10
<1> QED
  BY <1>1, <1>2

\* ten_env_send_cmd begins a promise when it registers a handler.
LEMMA SendCmdImplements ==
  ASSUME IInv, NEW c \in Cmds, NEW n \in 1 .. MaxDests, NEW handler \in BOOLEAN,
         NEW multiple \in BOOLEAN, SendCmd(c, n, handler, multiple)
  PROVE  [Promise!Next]_(Promise!vars)
<1>0. /\ sent[c].dests = 0 /\ delivered[c] = << >> /\ ~sent[c].handler
      /\ UNCHANGED delivered
  BY DEF SendCmd, ReturnPolicy, outVars, IInv, NothingBeforeSend
<1>1. /\ sent'[c].handler = handler
      /\ \A e \in Cmds \ {c} : sent'[e] = sent[e]
  BY DEF SendCmd, ReturnPolicy, IInv, TypeOK
<1>2. /\ \A e \in Cmds : IsCompleted(e)' <=> IsCompleted(e)
      /\ ~IsCompleted(c)
  BY <1>0 DEF IsCompleted
<1>3. resultsBar' = resultsBar
  BY <1>0 DEF resultsBar
<1>4. phaseBar[c] = "idle"
  BY <1>0 DEF phaseBar
<1>5. CASE handler
  <2>1. phaseBar' = [phaseBar EXCEPT ![c] = "waiting"]
    BY <1>1, <1>2, <1>5 DEF phaseBar
  <2>2. Promise!Send(c)
    BY <1>3, <1>4, <2>1 DEF Promise!Send
  <2> QED
    BY <2>2 DEF Promise!Next
<1>6. CASE ~handler
  <2>1. phaseBar' = phaseBar
    BY <1>0, <1>1, <1>2, <1>6 DEF phaseBar
  <2> QED
    BY <1>3, <2>1 DEF Promise!vars
<1> QED
  BY <1>5, <1>6

\* The handler of ten_env_send_cmd is called as ResultPromise says: never
\* before the send and never after a completed result.
THEOREM ImplementsPromise == Spec => Promise!Spec
<1>1. Init => Promise!Init
  <2> SUFFICES ASSUME Init PROVE Promise!Init
    OBVIOUS
  <2>1. \A c \in Cmds : ~sent[c].handler /\ Len(delivered[c]) = 0
    BY DEF Init, NotSent
  <2> QED
    BY <2>1 DEF Promise!Init, phaseBar, resultsBar
<1>2. IInv /\ [Next]_vars => [Promise!Next]_(Promise!vars)
  <2> SUFFICES ASSUME IInv, [Next]_vars PROVE [Promise!Next]_(Promise!vars)
    OBVIOUS
  <2>1. ASSUME NEW c \in Cmds, NEW n \in 1 .. MaxDests, NEW h \in BOOLEAN, NEW m \in BOOLEAN,
               SendCmd(c, n, h, m)
        PROVE  [Promise!Next]_(Promise!vars)
    BY <2>1, SendCmdImplements
  <2>2. ASSUME NEW p \in Paths, NEW r \in Results, RecvResult(p, r)
        PROVE  [Promise!Next]_(Promise!vars)
    <3>1. partials' \in [Cmds -> 0 .. MaxPartial]
      <4>1. p[1] \in Cmds
        BY DEF Paths
      <4> QED
        BY <2>2, <4>1, ConstantsAssumption DEF RecvResult, IInv, TypeOK, Results
    <3>2. Processing(p, r)
      BY <2>2, <3>1 DEF RecvResult, Processing
    <3> QED
      BY <3>2, ProcessingImplements
  <2>3. ASSUME NEW p \in Paths, FeedBatch(p) PROVE [Promise!Next]_(Promise!vars)
    <3>1. ErrorResult \in Results /\ ErrorResult.final /\ ErrorResult.status # "OK"
      BY DEF ErrorResult, Results, Status
    <3>2. Processing(p, ErrorResult)
      BY <2>3, <3>1 DEF FeedBatch, Processing, envVars, IInv, TypeOK
    <3> QED
      BY <3>1, <3>2, ProcessingImplements
  <2>4. CASE UNCHANGED <<sent, delivered>>
    BY <2>4, MappingUnchanged DEF Promise!vars
  <2> QED
    BY <2>1, <2>2, <2>3, <2>4
    DEF Next, vars, RecvCmd, ReturnResult, OutPathTimer, InPathTimer, OnDeinit, OnDeinitDone,
        Expire, outVars
<1> QED
  BY <1>1, <1>2, Invariance, PTL DEF Spec, Promise!Spec
==============================================================================
