----------------------- MODULE ExecutionApproval_proofs -----------------------
(***************************************************************************)
(* What holds of ExecutionApproval for every tree of tasks, every number of *)
(* calls and grants, and every budget: types, one resolution per approval, *)
(* one use per approval, the cascade of a revocation, and the budget that  *)
(* concurrent reads and the reservations of a grant's children share.      *)
(***************************************************************************)
EXTENDS ExecutionApproval, FiniteSetTheorems, TLAPS

----------------------------------------------------------------------------
\* The approvals

\* What any step may do to an approval: create it, or resolve it once.
ApprovalStep(i) ==
    /\ approval[i] \in Decided => approval'[i] = approval[i]
    /\ approval[i] # None => approval'[i] # None

\* Cancelling resolves what is pending and keeps everything else.
LEMMA CancelledKeeps ==
    ASSUME TypeOK, NEW T, approval' = Cancelled(T)
    PROVE  /\ approval' \in [Ids -> Decided \cup {None, "pending"}]
           /\ \A i \in Ids : ApprovalStep(i)
BY DEF TypeOK, Cancelled, ApprovalStep, Decided, None

\* Every step of the system treats approvals that way.
LEMMA ApprovalsResolvedOnce ==
    ASSUME TypeOK, [Next]_vars
    PROVE  /\ approval' \in [Ids -> Decided \cup {None, "pending"}]
           /\ \A i \in Ids : ApprovalStep(i)
<1> DEFINE Goal == /\ approval' \in [Ids -> Decided \cup {None, "pending"}]
                   /\ \A i \in Ids : ApprovalStep(i)
<1>same. ASSUME UNCHANGED approval PROVE Goal
  BY <1>same DEF TypeOK, ApprovalStep
<1>cancel. ASSUME NEW T, approval' = Cancelled(T) PROVE Goal
  BY <1>cancel, CancelledKeeps
<1>1. ASSUME NEW c \in Calls, Execute(c) PROVE Goal
  <2>id. IdOf[c] \in Ids
    BY ApprovalAssumption
  <2>1. CASE Ask(c)
    BY <2>id, <2>1 DEF Ask, TypeOK, ApprovalStep, Decided, None
  <2>2. CASE GiveUp(c)
    <3>1. PICK end \in {"expired", "cancelled"} :
             approval' = [approval EXCEPT ![IdOf[c]] = IF @ = "pending" THEN end ELSE @]
      BY <2>2 DEF GiveUp
    <3>2. QED
      BY <2>id, <3>1 DEF TypeOK, ApprovalStep, Decided, None
  <2>3. CASE UNCHANGED approval
    BY <2>3, <1>same
  <2>4. QED
    BY <1>1, <2>1, <2>2, <2>3
       DEF Execute, ReadMode, ExpireGrants, SelectGrants, NoGrantLeft, Poll, Recheck, Dispatch, Consume,
           SkipGrant
<1>2. CASE User
  <2>1. ASSUME NEW c \in Calls, Decide(c) PROVE Goal
    <3>1. IdOf[c] \in Ids /\ approval[IdOf[c]] = "pending"
      BY <2>1, ApprovalAssumption DEF Decide
    <3>2. PICK d \in {"approved", "rejected"} :
             approval' = [approval EXCEPT ![IdOf[c]] = d]
      BY <2>1 DEF Decide
    <3>3. QED
      BY <3>1, <3>2 DEF TypeOK, ApprovalStep, Decided, None
  <2>2. ASSUME NEW t \in Tasks, NEW m \in Modes, SetMode(t, m) PROVE Goal
    BY <2>2, <1>cancel DEF SetMode
  <2>3. CASE UNCHANGED approval
    BY <2>3, <1>same
  <2>4. QED
    BY <1>2, <2>1, <2>2, <2>3, ApprovalAssumption DEF User, RevokeGrant, SetSetting, RevokeAgent
<1>3. ASSUME NEW r \in Children, Child(r) PROVE Goal
  <2>1. CASE CancelApprovals(r)
    BY <2>1, <1>cancel DEF CancelApprovals
  <2>2. CASE UNCHANGED approval
    BY <2>2, <1>same
  <2>3. QED
    BY <1>3, <2>1, <2>2
       DEF Child, Register, Claim, Finish, TimeOut, Recover, RevokeOfChild, Heartbeat
<1>4. CASE Stop
  <2>1. CASE StopApprovals
    BY <2>1, <1>cancel DEF StopApprovals
  <2>2. CASE UNCHANGED approval
    BY <2>2, <1>same
  <2>3. QED
    BY <1>4, <2>1, <2>2
       DEF Stop, StopTask, SelectChildren, Interrupt, MarkStopped, StopGrants, StopMode
<1>5. QED
  BY <1>same, <1>1, <1>2, <1>3, <1>4 DEF Next, Lapse, Restart, vars

----------------------------------------------------------------------------
\* The grants

\* The budget of a grant bounds what was taken from it.
Within == \A g \in Grants : grant[g].used <= grant[g].max

\* A parent whose budget a new grant was taken from.
Reserved(g) == grant'[g].from = None \/ grant'[grant'[g].from].state \in {"active", "exhausted"}

\* What any step may do to a grant: a row that exists keeps its task and its parent,
\* only a new row becomes active, and its parent is not revoked then.
GrantStep(g) ==
    /\ grant[g].state # "free" =>
          /\ grant'[g].state # "free"
          /\ grant'[g].task = grant[g].task /\ grant'[g].from = grant[g].from
    /\ IsActive(g)' => IsActive(g) \/ (grant[g].state = "free" /\ Reserved(g))

\* The types and budgets of all grants after a step.
GrantsFit == /\ grant' \in [Grants -> GrantRow]
             /\ \A g \in Grants : grant'[g].used <= grant'[g].max

\* Revoking keeps the row and changes the state of an active grant only.
LEMMA RevokedKeeps ==
    ASSUME TypeOK, Within, NEW G, grant' = Revoked(G)
    PROVE  /\ GrantsFit
           /\ \A g \in Grants :
                 /\ GrantStep(g)
                 /\ grant'[g].task = grant[g].task /\ grant'[g].from = grant[g].from
                 /\ grant'[g].state = IF g \in G /\ IsActive(g) THEN "revoked"
                                      ELSE grant[g].state
<1>1. ASSUME NEW g \in Grants
      PROVE  /\ grant'[g] \in GrantRow
             /\ grant'[g].used = grant[g].used /\ grant'[g].max = grant[g].max
             /\ grant'[g].task = grant[g].task /\ grant'[g].from = grant[g].from
             /\ grant'[g].state = IF g \in G /\ IsActive(g) THEN "revoked"
                                  ELSE grant[g].state
  <2>1. grant[g] \in GrantRow
    BY DEF TypeOK
  <2>2. grant'[g] = IF g \in G /\ IsActive(g) THEN [grant[g] EXCEPT !.state = "revoked"]
                    ELSE grant[g]
    BY DEF Revoked
  <2>3. QED
    BY <2>1, <2>2 DEF GrantRow
<1>2. GrantsFit
  <2>1. grant' = [g \in Grants |-> grant'[g]]
    BY DEF Revoked
  <2>2. QED
    BY <1>1, <2>1 DEF Within, GrantsFit
<1>3. ASSUME NEW g \in Grants PROVE GrantStep(g)
  BY <1>1 DEF GrantStep, Reserved, IsActive
<1>4. QED
  BY <1>1, <1>2, <1>3

\* The guarded update stays in the budget and keeps the rest of the row.
LEMMA ChargedFits ==
    ASSUME TypeOK, NEW g \in Grants, NEW n \in Nat, Fits(g, n)
    PROVE  /\ Charged(g, n) \in GrantRow
           /\ Charged(g, n).used <= Charged(g, n).max
           /\ Charged(g, n).task = grant[g].task /\ Charged(g, n).from = grant[g].from
           /\ Charged(g, n).state \in {"active", "exhausted"}
<1> DEFINE used == grant[g].used + n
<1>1. /\ grant[g] \in GrantRow /\ grant[g].state = "active"
      /\ used \in 0..(Budget + Share) /\ used <= grant[g].max
  BY ApprovalAssumption DEF TypeOK, GrantRow, Fits, IsActive
<1>2. Charged(g, n) = [grant[g] EXCEPT !.used = used,
                         !.state = IF used >= grant[g].max THEN "exhausted" ELSE "active"]
  BY <1>1 DEF Charged, GrantRow
<1> HIDE DEF used
<1>3. QED
  BY <1>1, <1>2 DEF GrantRow

LEMMA NewGrantFits ==
    ASSUME NEW t \in Tasks, NEW p \in Grants \cup {None}, NEW n \in {Budget} \cup 1..Share
    PROVE  /\ NewGrant(t, p, n) \in GrantRow
           /\ NewGrant(t, p, n).used <= NewGrant(t, p, n).max
           /\ NewGrant(t, p, n).from = p /\ NewGrant(t, p, n).task = t
           /\ NewGrant(t, p, n).state = "active"
<1>1. n \in 0..(Budget + Share) /\ 0 \in 0..(Budget + Share)
  BY ApprovalAssumption
<1>2. QED
  BY <1>1 DEF GrantRow, NewGrant

\* A change of the deadlines only, or of them and the expired ones.
Aged ==
    /\ grant' = [g \in Grants |-> grant'[g]]
    /\ \A g \in Grants :
          /\ grant'[g] \in GrantRow
          /\ grant'[g].used = grant[g].used /\ grant'[g].max = grant[g].max
          /\ grant'[g].task = grant[g].task /\ grant'[g].from = grant[g].from
          /\ grant'[g].state \in {grant[g].state, "expired"}

LEMMA AgedFits ==
    ASSUME TypeOK, Within, Aged
    PROVE  /\ GrantsFit
           /\ \A g \in Grants : GrantStep(g) /\ grant'[g].state \in {grant[g].state, "expired"}
<1>1. GrantsFit
  <2>1. grant' = [g \in Grants |-> grant'[g]] /\ \A g \in Grants : grant'[g] \in GrantRow
    BY DEF Aged
  <2>2. grant' \in [Grants -> GrantRow]
    BY <2>1
  <2>3. QED
    BY <2>2 DEF Aged, Within, GrantsFit
<1>2. ASSUME NEW g \in Grants
      PROVE  GrantStep(g) /\ grant'[g].state \in {grant[g].state, "expired"}
  BY DEF Aged, GrantStep, Reserved, IsActive
<1>3. QED
  BY <1>1, <1>2

\* A new grant in a free row, and what was reserved for it from its parent, if any.
Added(g, t, p, n) ==
    /\ grant[g].state = "free" /\ t \in Tasks /\ n \in {Budget} \cup 1..Share
    /\ p \in Grants \cup {None} /\ (p # None => Fits(p, n))
    /\ grant' = [h \in Grants |-> grant'[h]]
    /\ grant'[g] = NewGrant(t, p, n)
    /\ p # None => grant'[p] = Charged(p, n)
    /\ \A h \in Grants : h # g /\ h # p => grant'[h] = grant[h]

LEMMA AddedFits ==
    ASSUME TypeOK, Within, NEW g \in Grants, NEW t, NEW p, NEW n, Added(g, t, p, n)
    PROVE  /\ GrantsFit
           /\ \A h \in Grants : /\ GrantStep(h)
                               /\ (grant'[h].state # "revoked" \/ grant'[h] = grant[h])
<1> USE DEF Added
<1>n. n \in Nat
  BY ApprovalAssumption
<1>p. p # g
  BY ApprovalAssumption DEF Fits, IsActive
<1>1. /\ grant'[g] = NewGrant(t, p, n) /\ grant'[g] \in GrantRow
      /\ grant'[g].used <= grant'[g].max /\ grant'[g].from = p /\ grant'[g].state = "active"
  BY NewGrantFits
<1>2. ASSUME p # None
      PROVE  /\ p \in Grants /\ grant'[p] \in GrantRow /\ grant'[p].used <= grant'[p].max
             /\ grant'[p].task = grant[p].task /\ grant'[p].from = grant[p].from
             /\ grant'[p].state \in {"active", "exhausted"} /\ grant[p].state = "active"
  <2>1. p \in Grants /\ grant'[p] = Charged(p, n) /\ Fits(p, n)
    BY <1>2, <1>p
  <2>2. QED
    BY <2>1, <1>n, ChargedFits DEF Fits, IsActive
<1>3. ASSUME NEW h \in Grants, h # g, h # p
      PROVE  grant'[h] = grant[h]
  BY <1>3
<1>4. GrantsFit
  <2>1. ASSUME NEW h \in Grants
        PROVE  grant'[h] \in GrantRow /\ grant'[h].used <= grant'[h].max
    <3>1. CASE h = g \/ h = p
      BY <3>1, <1>1, <1>2, ApprovalAssumption
    <3>2. CASE h # g /\ h # p
      BY <3>2, <1>3 DEF TypeOK, Within
    <3>3. QED
      BY <3>1, <3>2
  <2>2. grant' = [h \in Grants |-> grant'[h]]
    OBVIOUS
  <2>3. QED
    BY <2>1, <2>2 DEF GrantsFit
<1>5. ASSUME NEW h \in Grants
      PROVE  GrantStep(h) /\ (grant'[h].state # "revoked" \/ grant'[h] = grant[h])
  <2>1. CASE h = g
    BY <2>1, <1>1, <1>2 DEF GrantStep, Reserved
  <2>2. CASE h = p
    BY <2>2, <1>2, ApprovalAssumption DEF GrantStep, Reserved, IsActive
  <2>3. CASE h # g /\ h # p
    BY <2>3, <1>3 DEF GrantStep, Reserved, IsActive
  <2>4. QED
    BY <2>1, <2>2, <2>3
<1>6. QED
  BY <1>4, <1>5

----------------------------------------------------------------------------
\* Ends

\* Only the handler of an ended child or of a stopped task revokes without a cascade.
DueEnded == \A d \in due : Ended(d[1])
StopEnded ==
    /\ stop.stage # "idle" => stop.task \in Tasks
    /\ stop.stage \in {"approvals", "grants", "mode"} => Ended(stop.task)

\* An ended run stays ended: nothing claims it again.
LEMMA RunsStep ==
    ASSUME TypeOK, DueEnded, StopEnded, [Next]_vars
    PROVE  /\ run' \in [Tasks -> {None, "pending", "running", "over", "stopped"}]
           /\ due' \subseteq Children \X Pieces
           /\ stop' \in [task : Tasks \cup {None}, stage : StopStages, rows : SUBSET Children]
           /\ \A t \in Tasks : Ended(t) => Ended(t)'
           /\ DueEnded' /\ StopEnded'
<1> DEFINE Goal == /\ run' \in [Tasks -> {None, "pending", "running", "over", "stopped"}]
                   /\ due' \subseteq Children \X Pieces
                   /\ stop' \in [task : Tasks \cup {None}, stage : StopStages,
                                  rows : SUBSET Children]
                   /\ \A t \in Tasks : Ended(t) => Ended(t)'
                   /\ DueEnded' /\ StopEnded'
<1>t. Children \subseteq Tasks /\ Root \in Tasks
  BY DEF Tasks
<1>same. ASSUME UNCHANGED <<run, due, stop>> PROVE Goal
  BY <1>same DEF TypeOK, DueEnded, StopEnded, Ended
<1>end. ASSUME NEW r \in Children, run' = [run EXCEPT ![r] = "over"],
               due' \subseteq due \cup {<<r, "approvals">>, <<r, "grants">>},
               UNCHANGED stop, Ongoing(r)
        PROVE  Goal
  <2>1. \A t \in Tasks : Ended(t) => Ended(t)'
    BY <1>end, <1>t DEF TypeOK, Ended
  <2>2. Ended(r)'
    BY <1>end, <1>t DEF TypeOK, Ended
  <2>3. DueEnded'
    <3>1. ASSUME NEW d \in due' PROVE Ended(d[1])'
      <4>1. CASE d \in due
        BY <4>1, <2>1, <1>t DEF DueEnded, TypeOK
      <4>2. CASE d \notin due
        BY <4>2, <3>1, <1>end, <2>2
      <4>3. QED
        BY <4>1, <4>2
    <3>2. QED
      BY <3>1 DEF DueEnded
  <2>4. StopEnded'
    BY <1>end, <2>1 DEF StopEnded
  <2>5. due' \subseteq Children \X Pieces
    BY <1>end DEF TypeOK, Pieces
  <2>6. QED
    BY <1>end, <1>t, <2>1, <2>3, <2>4, <2>5 DEF TypeOK
<1>1. ASSUME NEW r \in Children, Child(r) PROVE Goal
  <2>1. CASE Register(r)
    BY <2>1, <1>t DEF Register, TypeOK, DueEnded, StopEnded, Ended, None
  <2>2. CASE Claim(r)
    BY <2>2, <1>t DEF Claim, TypeOK, DueEnded, StopEnded, Ended, None
  <2>3. CASE Finish(r) \/ TimeOut(r) \/ Recover(r)
    BY <2>3, <1>end DEF Finish, TimeOut, Recover, End, Ongoing
  <2>4. CASE CancelApprovals(r) \/ RevokeOfChild(r)
    BY <2>4 DEF CancelApprovals, RevokeOfChild, TypeOK, DueEnded, StopEnded, Ended
  <2>5. CASE Heartbeat(r)
    BY <2>5, <1>same DEF Heartbeat
  <2>6. QED
    BY <1>1, <2>1, <2>2, <2>3, <2>4, <2>5 DEF Child
<1>2. CASE Stop
  <2>1. ASSUME NEW t \in Tasks, StopTask(t) PROVE Goal
    BY <2>1, <1>t DEF StopTask, TypeOK, DueEnded, StopEnded, Ended, StopStages, Ongoing
  <2>2. CASE SelectChildren
    <3>1. {r \in Descendants(stop.task) : Ongoing(r)} \in SUBSET Children
      BY DEF Descendants
    <3>2. QED
      BY <2>2, <3>1 DEF SelectChildren, TypeOK, DueEnded, StopEnded, Ended, StopStages
  <2>3. ASSUME NEW r \in Children, Interrupt(r) PROVE Goal
    <3>1. stop' \in [task : Tasks \cup {None}, stage : StopStages, rows : SUBSET Children]
      BY <2>3 DEF Interrupt, TypeOK
    <3>2. /\ stop'.task = stop.task /\ stop'.stage = "interrupt" /\ stop.stage = "interrupt"
      BY <2>3 DEF Interrupt, TypeOK
    <3>3. CASE Ongoing(r)
      <4>1. run' = [run EXCEPT ![r] = "over"] /\ due' = due \cup {<<r, "approvals">>}
        BY <2>3, <3>3 DEF Interrupt, End
      <4>2. \A t \in Tasks : Ended(t) => Ended(t)'
        BY <4>1, <1>t DEF TypeOK, Ended
      <4>3. Ended(r)'
        BY <4>1, <1>t DEF TypeOK, Ended
      <4>4. DueEnded'
        BY <4>1, <4>2, <4>3, <1>t DEF DueEnded, TypeOK
      <4>5. QED
        BY <3>1, <3>2, <4>1, <4>2, <4>4, <1>t DEF TypeOK, StopEnded, Pieces
    <3>4. CASE ~Ongoing(r)
      <4>1. UNCHANGED <<run, due>>
        BY <2>3, <3>4 DEF Interrupt
      <4>2. QED
        BY <3>1, <3>2, <4>1 DEF TypeOK, StopEnded, DueEnded, Ended
    <3>5. QED
      BY <3>3, <3>4
  <2>4. CASE MarkStopped
    <3>1. stop.task \in Tasks
      BY <2>4 DEF MarkStopped, StopEnded
    <3>2. QED
      BY <2>4, <3>1, <1>t DEF MarkStopped, TypeOK, DueEnded, StopEnded, Ended, StopStages
  <2>5. CASE StopApprovals
    BY <2>5 DEF StopApprovals, TypeOK, DueEnded, StopEnded, Ended, StopStages
  <2>6. CASE StopGrants
    BY <2>6 DEF StopGrants, TypeOK, DueEnded, StopEnded, Ended, StopStages
  <2>7. CASE StopMode
    BY <2>7 DEF StopMode, TypeOK, DueEnded, StopEnded, Ended, StopStages, NoStop
  <2>8. QED
    BY <1>2, <2>1, <2>2, <2>3, <2>4, <2>5, <2>6, <2>7, ApprovalAssumption DEF Stop
<1>3. CASE Restart
  BY <1>3 DEF Restart, TypeOK, DueEnded, StopEnded, Ended, StopStages, NoStop
<1>4. CASE UNCHANGED <<run, due, stop>>
  BY <1>4, <1>same
<1>5. ASSUME NEW c \in Calls, Execute(c) PROVE UNCHANGED <<run, due, stop>>
  BY <1>5 DEF Execute, ReadMode, ExpireGrants, SelectGrants, NoGrantLeft, Ask, Poll, GiveUp, Recheck,
              Dispatch, Consume, SkipGrant
<1>6. CASE User
  BY <1>6, <1>same DEF User, Decide, RevokeGrant, SetMode, SetSetting, RevokeAgent
<1>7. QED
  BY <1>1, <1>2, <1>3, <1>4, <1>5, <1>6, <1>same DEF Next, Lapse, vars

----------------------------------------------------------------------------
\* Every step on the grants

\* A grant is revoked together with what was inherited from it, or because the task
\* that holds it has ended.
RevokedFor(g) ==
    grant'[g].state = "revoked" /\ grant[g].state # "revoked" =>
        \/ Ended(grant[g].task)'
        \/ \A k \in Grants : grant[k].from = g => ~IsActive(k)'

\* The inherited grants are in the set the cascade visits.
LEMMA UnderClosed ==
    ASSUME NEW G \in SUBSET Grants, NEW k \in Grants, grant[k].from \in Under(G)
    PROVE  k \in Under(G)
BY DEF Under

LEMMA CascadeKeeps ==
    ASSUME TypeOK, Within, NEW G \in SUBSET Grants, grant' = Revoked(Under(G))
    PROVE  GrantsFit /\ \A g \in Grants : GrantStep(g) /\ RevokedFor(g)
<1>1. /\ GrantsFit
      /\ \A g \in Grants : /\ GrantStep(g)
                          /\ grant'[g].state = IF g \in Under(G) /\ IsActive(g)
                                               THEN "revoked" ELSE grant[g].state
  BY RevokedKeeps
<1>2. ASSUME NEW g \in Grants PROVE RevokedFor(g)
  <2>1. CASE g \in Under(G)
    <3>1. ASSUME NEW k \in Grants, grant[k].from = g PROVE ~IsActive(k)'
      <4>1. k \in Under(G)
        BY <2>1, <3>1, UnderClosed
      <4>2. QED
        BY <1>1, <4>1 DEF IsActive
    <3>2. QED
      BY <3>1 DEF RevokedFor
  <2>2. CASE g \notin Under(G)
    BY <2>2, <1>1 DEF RevokedFor
  <2>3. QED
    BY <2>1, <2>2
<1>3. QED
  BY <1>1, <1>2

\* The grants of a task whose end is recorded.
LEMMA EndKeeps ==
    ASSUME TypeOK, Within, NEW t, run'[t] \in {"over", "stopped"},
           grant' = Revoked(GrantsOf(t))
    PROVE  GrantsFit /\ \A g \in Grants : GrantStep(g) /\ RevokedFor(g)
<1>1. /\ GrantsFit
      /\ \A g \in Grants : /\ GrantStep(g) /\ grant'[g].task = grant[g].task
                          /\ grant'[g].state = IF g \in GrantsOf(t) /\ IsActive(g)
                                               THEN "revoked" ELSE grant[g].state
  BY RevokedKeeps
<1>2. ASSUME NEW g \in Grants PROVE RevokedFor(g)
  <2>1. CASE g \in GrantsOf(t)
    <3>1. grant[g].task = t
      BY <2>1 DEF GrantsOf
    <3>2. QED
      BY <1>1, <3>1 DEF RevokedFor, Ended
  <2>2. CASE g \notin GrantsOf(t)
    BY <2>2, <1>1 DEF RevokedFor
  <2>3. QED
    BY <2>1, <2>2
<1>3. QED
  BY <1>1, <1>2

\* Every step of the system keeps the types and budgets of the grants, their parents,
\* and revokes in one of the two ways.
LEMMA GrantsStep ==
    ASSUME TypeOK, Within, DueEnded, StopEnded, [Next]_vars
    PROVE  GrantsFit /\ \A g \in Grants : GrantStep(g) /\ RevokedFor(g)
<1> DEFINE Goal == GrantsFit /\ \A g \in Grants : GrantStep(g) /\ RevokedFor(g)
<1>run. \A t \in Tasks : Ended(t) => Ended(t)'
  BY RunsStep
<1>same. ASSUME UNCHANGED grant PROVE Goal
  BY <1>same DEF TypeOK, Within, GrantsFit, GrantStep, Reserved, RevokedFor, IsActive
<1>add. ASSUME NEW g \in Grants, NEW t, NEW p, NEW n, Added(g, t, p, n) PROVE Goal
  <2>1. /\ GrantsFit
        /\ \A h \in Grants : /\ GrantStep(h)
                            /\ (grant'[h].state # "revoked" \/ grant'[h] = grant[h])
    BY <1>add, AddedFits
  <2>2. QED
    BY <2>1 DEF RevokedFor
<1>aged. ASSUME Aged PROVE Goal
  <2>1. GrantsFit
    BY <1>aged, AgedFits
  <2>2. \A g \in Grants : GrantStep(g) /\ grant'[g].state \in {grant[g].state, "expired"}
    BY <1>aged, AgedFits
  <2>3. QED
    BY <2>1, <2>2 DEF RevokedFor
<1>1. ASSUME NEW c \in Calls, Execute(c) PROVE Goal
  <2>1. CASE ExpireGrants(c)
    <3> DEFINE X == {g \in GrantsOf(TaskOf[c]) : IsActive(g) /\ grant[g].lapsed}
    <3>1. grant' = [g \in Grants |-> IF g \in X THEN [grant[g] EXCEPT !.state = "expired"]
                                     ELSE grant[g]]
      BY <2>1 DEF ExpireGrants
    <3> HIDE DEF X
    <3>2. grant \in [Grants -> GrantRow]
      BY DEF TypeOK
    <3>3. Aged
      BY <3>1, <3>2 DEF Aged, GrantRow
    <3>4. QED
      BY <3>3, <1>aged
  <2>2. ASSUME NEW g \in Grants, Consume(c, g) PROVE Goal
    <3>1. Fits(g, 1) /\ grant' = [grant EXCEPT ![g] = Charged(g, 1)] /\ 1 \in Nat
      BY <2>2 DEF Consume
    <3>2. /\ Charged(g, 1) \in GrantRow /\ Charged(g, 1).used <= Charged(g, 1).max
          /\ Charged(g, 1).task = grant[g].task /\ Charged(g, 1).from = grant[g].from
          /\ Charged(g, 1).state \in {"active", "exhausted"} /\ grant[g].state = "active"
      BY <3>1, ChargedFits DEF Fits, IsActive
    <3>3. grant \in [Grants -> GrantRow]
      BY DEF TypeOK
    <3>4. GrantsFit
      BY <3>1, <3>2, <3>3 DEF GrantsFit, Within
    <3>5. ASSUME NEW h \in Grants PROVE GrantStep(h) /\ RevokedFor(h)
      <4>1. CASE h = g
        BY <4>1, <3>1, <3>2, <3>3 DEF GrantStep, RevokedFor, IsActive
      <4>2. CASE h # g
        BY <4>2, <3>1, <3>3 DEF GrantStep, RevokedFor, IsActive
      <4>3. QED
        BY <4>1, <4>2
    <3>6. QED
      BY <3>4, <3>5
  <2>3. CASE UNCHANGED grant
    BY <2>3, <1>same
  <2>4. QED
    BY <1>1, <2>1, <2>2, <2>3
       DEF Execute, ReadMode, SelectGrants, NoGrantLeft, Ask, Poll, GiveUp, Recheck, Dispatch, SkipGrant
<1>2. CASE User
  <2>1. ASSUME NEW c \in Calls, Decide(c) PROVE Goal
    <3>1. CASE UNCHANGED grant
      BY <3>1, <1>same
    <3>2. CASE \E g \in Grants : grant[g].state = "free"
                  /\ grant' = [grant EXCEPT ![g] = NewGrant(TaskOf[c], None, Budget)]
      <4>1. PICK g \in Grants : grant[g].state = "free"
                  /\ grant' = [grant EXCEPT ![g] = NewGrant(TaskOf[c], None, Budget)]
        BY <3>2
      <4>2. Added(g, TaskOf[c], None, Budget)
        BY <4>1, ApprovalAssumption DEF TypeOK, Added
      <4>3. QED
        BY <4>2, <1>add
    <3>3. QED
      BY <2>1, <3>1, <3>2 DEF Decide
  <2>2. ASSUME NEW g \in Grants, RevokeGrant(g) PROVE Goal
    <3>1. {g} \in SUBSET Grants
      OBVIOUS
    <3>2. QED
      BY <2>2, <3>1, CascadeKeeps DEF RevokeGrant
  <2>3. ASSUME NEW t \in Tasks, NEW m \in Modes, SetMode(t, m) PROVE Goal
    <3>1. GrantsOf(t) \in SUBSET Grants
      BY DEF GrantsOf
    <3>2. QED
      BY <2>3, <3>1, CascadeKeeps DEF SetMode
  <2>4. CASE RevokeAgent
    <3>1. Grants \in SUBSET Grants /\ Under(Grants) = Grants
      BY DEF Under
    <3>2. QED
      BY <2>4, <3>1, CascadeKeeps DEF RevokeAgent
  <2>5. CASE UNCHANGED grant
    BY <2>5, <1>same
  <2>6. QED
    BY <1>2, <2>1, <2>2, <2>3, <2>4, <2>5, ApprovalAssumption DEF User, SetSetting
<1>3. ASSUME NEW r \in Children, Child(r) PROVE Goal
  <2>r. r \in Tasks /\ ParentOf[r] \in Tasks
    BY ApprovalAssumption DEF Tasks
  <2>1. CASE Claim(r)
    <3>1. CASE UNCHANGED grant
      BY <3>1, <1>same
    <3>2. CASE \E p \in GrantsOf(ParentOf[r]), g \in Grants, n \in 1..Share :
                  /\ ~grant[p].lapsed /\ Fits(p, n) /\ grant[g].state = "free"
                  /\ grant' = [grant EXCEPT ![p] = Charged(p, n), ![g] = NewGrant(r, p, n)]
      <4>1. PICK p \in GrantsOf(ParentOf[r]), g \in Grants, n \in 1..Share :
                  /\ ~grant[p].lapsed /\ Fits(p, n) /\ grant[g].state = "free"
                  /\ grant' = [grant EXCEPT ![p] = Charged(p, n), ![g] = NewGrant(r, p, n)]
        BY <3>2
      <4>2. p \in Grants
        BY DEF GrantsOf
      <4>3. p # g
        BY <4>1 DEF Fits, IsActive
      <4>4. Added(g, r, p, n)
        BY <4>1, <4>2, <4>3, <2>r DEF TypeOK, Added
      <4>5. QED
        BY <4>4, <1>add
    <3>3. QED
      BY <2>1, <3>1, <3>2 DEF Claim
  <2>2. CASE Recover(r)
    <3>1. Ended(r)'
      BY <2>2, <2>r DEF Recover, End, Ended, TypeOK
    <3>2. QED
      BY <2>2, <3>1, EndKeeps DEF Recover, Ended
  <2>3. CASE RevokeOfChild(r)
    <3>1. Ended(r)'
      BY <2>3, <2>r, <1>run DEF RevokeOfChild, DueEnded
    <3>2. QED
      BY <2>3, <3>1, EndKeeps DEF RevokeOfChild, Ended
  <2>4. CASE Heartbeat(r)
    <3> DEFINE X == {g \in GrantsOf(r) : IsActive(g) /\ grant[g].from # None}
               L == [g \in Grants |-> grant[grant[g].from].lapsed]
    <3>1. grant \in [Grants -> GrantRow]
      BY DEF TypeOK
    <3>2. \A g \in X : L[g] \in BOOLEAN
      BY <3>1 DEF GrantRow, GrantsOf
    <3>3. grant' = [g \in Grants |-> IF g \in X THEN [grant[g] EXCEPT !.lapsed = L[g]]
                                     ELSE grant[g]]
      BY <2>4 DEF Heartbeat
    <3> HIDE DEF X, L
    <3>4. Aged
      BY <3>1, <3>2, <3>3 DEF Aged, GrantRow
    <3>5. QED
      BY <3>4, <1>aged
  <2>5. CASE UNCHANGED grant
    BY <2>5, <1>same
  <2>6. QED
    BY <1>3, <2>1, <2>2, <2>3, <2>4, <2>5
       DEF Child, Register, Finish, TimeOut, CancelApprovals
<1>4. ASSUME NEW g \in Grants, Lapse(g) PROVE Goal
  <2>1. grant \in [Grants -> GrantRow]
    BY DEF TypeOK
  <2>2. grant' = [h \in Grants |-> IF h \in Under({g}) THEN [grant[h] EXCEPT !.lapsed = TRUE]
                                   ELSE grant[h]]
    BY <1>4 DEF Lapse
  <2>3. Aged
    BY <2>1, <2>2 DEF Aged, GrantRow
  <2>4. QED
    BY <2>3, <1>aged
<1>5. CASE Stop
  <2>1. CASE StopGrants
    <3>1. stop.task \in Tasks /\ Ended(stop.task)
      BY <2>1 DEF StopGrants, StopEnded
    <3>2. PICK t \in Tasks : t = stop.task
      BY <3>1
    <3>3. Ended(t)' /\ grant' = Revoked(GrantsOf(t))
      BY <2>1, <3>1, <3>2, <1>run DEF StopGrants
    <3>4. QED
      BY <3>3, EndKeeps DEF Ended
  <2>2. CASE UNCHANGED grant
    BY <2>2, <1>same
  <2>3. QED
    BY <1>5, <2>1, <2>2
       DEF Stop, StopTask, SelectChildren, Interrupt, MarkStopped, StopApprovals, StopMode
<1>6. QED
  BY <1>same, <1>1, <1>2, <1>3, <1>4, <1>5 DEF Next, Restart, vars

----------------------------------------------------------------------------
\* The mode and the calls

\* A call that waits for an approval or was cleared by it holds the approval.
Holder(c) == call[c].stage \in {"waiting", "recheck"} \/ call[c].by = "user"
\* It has read that the user approved it.
Approved(c) == call[c].stage = "recheck" \/ call[c].by = "user"

\* What any step may do to a call: it starts to hold an approval it creates, alone,
\* and it reads an approval that is there.
CallStep(c) ==
    /\ Holder(c)' => \/ Holder(c)
                     \/ /\ approval[IdOf[c]] = None /\ approval'[IdOf[c]] # None
                        /\ \A d \in Calls : d # c => call'[d] = call[d]
    /\ Approved(c)' => Approved(c) \/ approval[IdOf[c]] = "approved"

CallsFit == call' \in [Calls -> CallState] /\ \A c \in Calls : CallStep(c)

\* A step of one call.
LEMMA CallRowFits ==
    ASSUME TypeOK, NEW c \in Calls, NEW row \in CallState, call' = [call EXCEPT ![c] = row],
           \/ row.stage \notin {"waiting", "recheck"} /\ row.by \in {call[c].by, None, "mode", "grant"}
           \/ approval[IdOf[c]] = "approved" /\ Holder(c)
           \/ /\ row.stage = "waiting" /\ row.by = call[c].by
              /\ approval[IdOf[c]] = None /\ approval'[IdOf[c]] # None
    PROVE  CallsFit
<1>1. call' \in [Calls -> CallState] /\ call'[c] = row
  BY DEF TypeOK
<1>2. ASSUME NEW d \in Calls PROVE CallStep(d)
  <2>1. CASE d = c
    <3>1. \A e \in Calls : e # c => call'[e] = call[e]
      BY DEF TypeOK
    <3>2. QED
      BY <1>1, <2>1, <3>1 DEF CallStep, Holder, Approved, None
  <2>2. CASE d # c
    <3>1. call'[d] = call[d]
      BY <2>2 DEF TypeOK
    <3>2. QED
      BY <3>1 DEF CallStep, Holder, Approved
  <2>3. QED
    BY <2>1, <2>2
<1>3. QED
  BY <1>1, <1>2 DEF CallsFit

\* Every step of the system changes calls that way.
LEMMA CallsStep ==
    ASSUME TypeOK, [Next]_vars
    PROVE  CallsFit
<1>same. ASSUME UNCHANGED call PROVE CallsFit
  BY <1>same DEF TypeOK, CallsFit, CallStep, Holder, Approved
<1>1. ASSUME NEW c \in Calls, Execute(c) PROVE CallsFit
  <2>t. call[c] \in CallState /\ IdOf[c] \in Ids /\ call \in [Calls -> CallState]
    BY ApprovalAssumption DEF TypeOK
  <2> DEFINE Goes(x) == [call[c] EXCEPT !.stage = x]
             Clears(b) == [call[c] EXCEPT !.stage = "cleared", !.by = b]
  <2>go. ASSUME NEW x \in Stages
         PROVE  /\ Goes(x) \in CallState /\ Goes(x).stage = x /\ Goes(x).by = call[c].by
                /\ Go(c, x) => call' = [call EXCEPT ![c] = Goes(x)]
    BY <2>t DEF CallState, Go
  <2>clear. ASSUME NEW b \in {"mode", "user"}
            PROVE  /\ Clears(b) \in CallState /\ Clears(b).stage = "cleared"
                   /\ Clears(b).by = b
                   /\ Clear(c, b) => call' = [call EXCEPT ![c] = Clears(b)]
    BY <2>t DEF CallState, Clear, Stages
  <2> HIDE DEF Goes, Clears
  <2>plain. ASSUME NEW x \in Stages, x \notin {"waiting", "recheck"}, Go(c, x)
            PROVE  CallsFit
    BY <2>plain, <2>go, CallRowFits
  <2>1. CASE ReadMode(c)
    BY <2>1, <2>plain, <2>clear, CallRowFits DEF ReadMode, Stages
  <2>2. CASE SelectGrants(c)
    <3>1. PICK P \in SUBSET Grants : call' = [call EXCEPT ![c].stage = "consume",
                                                          ![c].picks = P]
      BY <2>2 DEF SelectGrants, GrantsOf
    <3>2. [call[c] EXCEPT !.stage = "consume", !.picks = P] \in CallState
      BY <2>t DEF CallState, Stages
    <3>3. call' = [call EXCEPT ![c] = [call[c] EXCEPT !.stage = "consume", !.picks = P]]
      BY <3>1, <2>t DEF CallState
    <3>4. /\ [call[c] EXCEPT !.stage = "consume", !.picks = P].stage = "consume"
          /\ [call[c] EXCEPT !.stage = "consume", !.picks = P].by = call[c].by
      BY <2>t DEF CallState
    <3>5. QED
      BY <3>2, <3>3, <3>4, CallRowFits
  <2>3. ASSUME NEW g \in Grants, Consume(c, g) PROVE CallsFit
    <3> DEFINE row == [stage |-> "cleared", picks |-> {}, by |-> "grant", grant |-> g]
    <3>1. row \in CallState /\ row.stage = "cleared" /\ row.by = "grant"
      BY DEF CallState, Stages
    <3>2. call' = [call EXCEPT ![c] = row]
      BY <2>3 DEF Consume
    <3> HIDE DEF row
    <3>3. QED
      BY <3>1, <3>2, CallRowFits
  <2>4. ASSUME NEW g \in Grants, SkipGrant(c, g) PROVE CallsFit
    <3> DEFINE row == [call[c] EXCEPT !.picks = @ \ {g}]
    <3>1. row \in CallState /\ row.stage = "consume" /\ row.by = call[c].by
      BY <2>t, <2>4 DEF CallState, SkipGrant
    <3>2. call' = [call EXCEPT ![c] = row]
      BY <2>4, <2>t DEF SkipGrant, CallState
    <3> HIDE DEF row
    <3>3. QED
      BY <3>1, <3>2, CallRowFits
  <2>5. CASE ExpireGrants(c) \/ NoGrantLeft(c) \/ GiveUp(c) \/ Dispatch(c)
    BY <2>5, <2>plain DEF ExpireGrants, NoGrantLeft, GiveUp, Dispatch, Stages
  <2>6. CASE Ask(c)
    <3>1. CASE approval[IdOf[c]] = None
      <4>1. approval'[IdOf[c]] # None /\ Go(c, "waiting")
        BY <2>6, <3>1, <2>t DEF Ask, TypeOK, None
      <4>2. "waiting" \in Stages
        BY DEF Stages
      <4>3. QED
        BY <3>1, <4>1, <4>2, <2>go, CallRowFits
    <3>2. CASE approval[IdOf[c]] # None
      BY <2>6, <3>2, <2>plain DEF Ask, Stages
    <3>3. QED
      BY <3>1, <3>2
  <2>7. CASE Poll(c)
    <3>1. CASE approval[IdOf[c]] = "approved"
      <4>1. Go(c, "recheck") /\ "recheck" \in Stages /\ Holder(c)
        BY <2>7, <3>1 DEF Poll, Stages, Holder
      <4>2. QED
        BY <3>1, <4>1, <2>go, CallRowFits
    <3>2. CASE approval[IdOf[c]] # "approved"
      BY <2>7, <3>2, <2>plain DEF Poll, Stages
    <3>3. QED
      BY <3>1, <3>2
  <2>8. CASE Recheck(c)
    <3>1. CASE EffectiveMode = "allow" \/ approval[IdOf[c]] = "approved"
      <4>1. Clear(c, "user") /\ call[c].stage = "recheck"
        BY <2>8, <3>1 DEF Recheck
      <4>2. call' = [call EXCEPT ![c] = Clears("user")] /\ Clears("user") \in CallState
            /\ Clears("user").by = "user" /\ Clears("user").stage = "cleared"
        BY <4>1, <2>clear
      <4>3. call' \in [Calls -> CallState]
        BY <2>t, <4>2
      <4>4. ASSUME NEW d \in Calls PROVE CallStep(d)
        BY <4>1, <4>2, <2>t DEF CallStep, Holder, Approved
      <4>5. QED
        BY <4>3, <4>4 DEF CallsFit
    <3>2. CASE ~(EffectiveMode = "allow" \/ approval[IdOf[c]] = "approved")
      BY <2>8, <3>2, <2>plain DEF Recheck, Stages
    <3>3. QED
      BY <3>1, <3>2
  <2>9. QED
    BY <1>1, <2>1, <2>2, <2>3, <2>4, <2>5, <2>6, <2>7, <2>8 DEF Execute
<1>2. CASE Restart
  <2>1. ASSUME NEW c \in Calls
        PROVE  /\ call'[c] \in CallState /\ call'[c].by = call[c].by
               /\ call'[c].stage \in {call[c].stage, "lost"}
    <3>1. call[c] \in CallState /\ "lost" \in Stages
      BY DEF TypeOK, Stages
    <3>2. call'[c] = call[c] \/ call'[c] = [call[c] EXCEPT !.stage = "lost"]
      BY <1>2 DEF Restart
    <3>3. QED
      BY <3>1, <3>2 DEF CallState
  <2>2. call' = [c \in Calls |-> call'[c]]
    BY <1>2 DEF Restart
  <2>3. call' \in [Calls -> CallState]
    BY <2>1, <2>2
  <2>4. ASSUME NEW c \in Calls PROVE CallStep(c)
    BY <2>1 DEF CallStep, Holder, Approved
  <2>5. QED
    BY <2>3, <2>4 DEF CallsFit
<1>3. CASE User \/ Stop \/ UNCHANGED vars \/ (\E g \in Grants : Lapse(g))
  BY <1>3, <1>same
     DEF User, Decide, RevokeGrant, SetMode, SetSetting, RevokeAgent, Stop, StopTask,
         SelectChildren, Interrupt, MarkStopped, StopApprovals, StopGrants, StopMode,
         Lapse, vars
<1>4. ASSUME NEW r \in Children, Child(r) PROVE CallsFit
  BY <1>4, <1>same
     DEF Child, Register, Claim, Finish, TimeOut, Recover, CancelApprovals, RevokeOfChild,
         Heartbeat
<1>5. QED
  BY <1>1, <1>2, <1>3, <1>4 DEF Next

\* The modes stay modes.
LEMMA ModesFit ==
    ASSUME TypeOK, StopEnded, [Next]_vars
    PROVE  setting' \in Modes /\ mode' \in [Tasks -> Modes \cup {None}]
<1> DEFINE Goal == setting' \in Modes /\ mode' \in [Tasks -> Modes \cup {None}]
<1>same. ASSUME UNCHANGED <<setting, mode>> PROVE Goal
  BY <1>same DEF TypeOK
<1>1. CASE User
  <2>1. ASSUME NEW t \in Tasks, NEW m \in Modes, SetMode(t, m) PROVE Goal
    BY <2>1 DEF SetMode, TypeOK
  <2>2. ASSUME NEW m \in Modes, SetSetting(m) PROVE Goal
    BY <2>2 DEF SetSetting, TypeOK
  <2>3. CASE UNCHANGED <<setting, mode>>
    BY <2>3, <1>same
  <2>4. QED
    BY <1>1, <2>1, <2>2, <2>3, ApprovalAssumption DEF User, Decide, RevokeGrant, RevokeAgent
<1>2. CASE Stop
  <2>1. CASE StopMode
    BY <2>1 DEF StopMode, TypeOK
  <2>2. CASE UNCHANGED <<setting, mode>>
    BY <2>2, <1>same
  <2>3. QED
    BY <1>2, <2>1, <2>2
       DEF Stop, StopTask, SelectChildren, Interrupt, MarkStopped, StopApprovals, StopGrants
<1>3. ASSUME NEW c \in Calls, Execute(c) PROVE Goal
  BY <1>3, <1>same DEF Execute, ReadMode, ExpireGrants, SelectGrants, NoGrantLeft, Ask, Poll, GiveUp,
         Recheck, Dispatch, Consume, SkipGrant
<1>4. ASSUME NEW r \in Children, Child(r) PROVE Goal
  BY <1>4, <1>same
     DEF Child, Register, Claim, Finish, TimeOut, Recover, CancelApprovals, RevokeOfChild,
         Heartbeat
<1>5. QED
  BY <1>same, <1>1, <1>2, <1>3, <1>4 DEF Next, Lapse, Restart, vars

----------------------------------------------------------------------------
\* The invariant

\* Two calls never hold one approval, and who read an approval reads it again.
UseInv ==
    \A c \in Calls :
        /\ Holder(c) => approval[IdOf[c]] # None
        /\ Approved(c) => approval[IdOf[c]] = "approved"
        /\ \A d \in Calls : Holder(c) /\ Holder(d) /\ IdOf[c] = IdOf[d] => c = d

Inv == TypeOK /\ Within /\ DueEnded /\ StopEnded /\ RevocationCascades /\ UseInv

LEMMA InitInv == Init => Inv
<1> SUFFICES ASSUME Init PROVE Inv
  OBVIOUS
<1>1. FreeGrant \in GrantRow /\ NewCall \in CallState /\ 0 \in 0..(Budget + Share)
  BY ApprovalAssumption
     DEF FreeGrant, GrantRow, NewCall, CallState, Stages, Tasks
<1>2. TypeOK
  BY <1>1 DEF Init, TypeOK, Tasks, NoStop, StopStages
<1>3. Within /\ RevocationCascades
  BY DEF Init, Within, RevocationCascades, FreeGrant, IsActive
<1>4. DueEnded /\ StopEnded
  BY DEF Init, DueEnded, StopEnded, NoStop
<1>5. UseInv
  BY DEF Init, UseInv, Holder, Approved, NewCall, None
<1>6. QED
  BY <1>2, <1>3, <1>4, <1>5 DEF Inv

LEMMA StepInv == Inv /\ [Next]_vars => Inv'
<1> SUFFICES ASSUME Inv, [Next]_vars PROVE Inv'
  OBVIOUS
<1>i. TypeOK /\ Within /\ DueEnded /\ StopEnded /\ RevocationCascades /\ UseInv
  BY DEF Inv
<1>grants. GrantsFit /\ \A g \in Grants : GrantStep(g) /\ RevokedFor(g)
  BY <1>i, GrantsStep
<1>runs. /\ run' \in [Tasks -> {None, "pending", "running", "over", "stopped"}]
         /\ due' \subseteq Children \X Pieces
         /\ stop' \in [task : Tasks \cup {None}, stage : StopStages, rows : SUBSET Children]
         /\ \A t \in Tasks : Ended(t) => Ended(t)'
         /\ DueEnded' /\ StopEnded'
  BY <1>i, RunsStep
<1>approvals. /\ approval' \in [Ids -> Decided \cup {None, "pending"}]
              /\ \A i \in Ids : ApprovalStep(i)
  BY <1>i, ApprovalsResolvedOnce
<1>calls. call' \in [Calls -> CallState] /\ \A c \in Calls : CallStep(c)
  BY <1>i, CallsStep DEF CallsFit
<1>1. TypeOK'
  BY <1>i, <1>grants, <1>runs, <1>approvals, <1>calls, ModesFit DEF TypeOK, GrantsFit
<1>2. Within'
  BY <1>grants DEF Within, GrantsFit
<1>3. RevocationCascades'
  <2> SUFFICES ASSUME NEW g \in Grants, NEW p, p = grant'[g].from, IsActive(g)', p # None,
                      grant'[p].state = "revoked"
               PROVE  run'[grant'[p].task] \in {"over", "stopped"}
    BY DEF RevocationCascades, Ended
  <2>1. p \in Grants
    BY <1>1 DEF TypeOK, GrantRow
  <2>2. IsActive(g) /\ grant[g].from = p
    BY <1>grants DEF GrantStep, Reserved, IsActive
  <2>3. CASE grant[p].state = "revoked"
    <3>1. Ended(grant[p].task)
      BY <1>i, <2>2, <2>3 DEF RevocationCascades
    <3>2. grant'[p].task = grant[p].task /\ grant[p].task \in Tasks
      BY <1>i, <1>grants, <2>1, <2>3 DEF GrantStep, TypeOK, GrantRow
    <3>3. \A t \in Tasks : run[t] \in {"over", "stopped"} => run'[t] \in {"over", "stopped"}
      BY <1>runs DEF Ended
    <3>4. QED
      BY <3>1, <3>2, <3>3 DEF Ended
  <2>4. CASE grant[p].state # "revoked"
    BY <1>grants, <2>1, <2>2, <2>4 DEF RevokedFor, Ended
  <2>5. QED
    BY <2>3, <2>4
<1>4. UseInv'
  <2>ids. \A c \in Calls : IdOf[c] \in Ids
    BY ApprovalAssumption
  <2>1. ASSUME NEW c \in Calls, Holder(c)' PROVE approval'[IdOf[c]] # None
    BY <2>1, <2>ids, <1>i, <1>calls, <1>approvals DEF CallStep, UseInv, ApprovalStep
  <2>2. ASSUME NEW c \in Calls, Approved(c)' PROVE approval'[IdOf[c]] = "approved"
    BY <2>2, <2>ids, <1>i, <1>calls, <1>approvals DEF CallStep, UseInv, ApprovalStep, Decided
  <2>3. ASSUME NEW c \in Calls, NEW d \in Calls, Holder(c)', Holder(d)', IdOf[c] = IdOf[d]
        PROVE  c = d
    <3>1. Holder(c) /\ Holder(d) => c = d
      BY <2>3, <1>i DEF UseInv
    <3>2. ASSUME ~Holder(c), c # d PROVE FALSE
      <4>1. approval[IdOf[c]] = None /\ call'[d] = call[d]
        BY <2>3, <3>2, <1>calls DEF CallStep
      <4>2. Holder(d)
        BY <2>3, <4>1 DEF Holder
      <4>3. QED
        BY <2>3, <4>1, <4>2, <1>i DEF UseInv
    <3>3. ASSUME ~Holder(d), c # d PROVE FALSE
      <4>1. approval[IdOf[d]] = None /\ call'[c] = call[c]
        BY <2>3, <3>3, <1>calls DEF CallStep
      <4>2. Holder(c)
        BY <2>3, <4>1 DEF Holder
      <4>3. QED
        BY <2>3, <4>1, <4>2, <1>i DEF UseInv
    <3>4. QED
      BY <3>1, <3>2, <3>3
  <2>4. QED
    BY <2>1, <2>2, <2>3 DEF UseInv
<1>5. QED
  BY <1>1, <1>2, <1>3, <1>4, <1>runs DEF Inv

LEMMA Invariance == Spec => []Inv
BY InitInv, StepInv, PTL DEF Spec

----------------------------------------------------------------------------
\* The budgets

\* A call is charged once: until it tries its candidates no grant has paid for it.
Uncharged == \A c \in Calls : call[c].stage \in {"idle", "select", "list", "consume"} => call[c].grant = None
SameCharges == \A c \in Calls : call'[c].grant = call[c].grant

\* A step of one call that leaves who paid for it alone.
LEMMA ChargeKept ==
    ASSUME TypeOK, Uncharged, NEW c \in Calls, NEW row \in CallState, call' = [call EXCEPT ![c] = row],
           row.grant = call[c].grant,
           row.stage \in {"idle", "select", "list", "consume"} => call[c].stage \in {"idle", "select", "list", "consume"}
    PROVE  Uncharged' /\ SameCharges
<1>1. call'[c] = row /\ \A d \in Calls : d # c => call'[d] = call[d]
  BY DEF TypeOK
<1>2. QED
  BY <1>1 DEF Uncharged, SameCharges

LEMMA ChargesStep ==
    ASSUME TypeOK, Uncharged, [Next]_vars
    PROVE  Uncharged' /\ (SameCharges \/ \E c \in Calls, g \in Grants : Consume(c, g))
<1> DEFINE Goal == Uncharged' /\ (SameCharges \/ \E c \in Calls, g \in Grants : Consume(c, g))
<1>same. ASSUME UNCHANGED call PROVE Goal
  BY <1>same DEF Uncharged, SameCharges
<1>1. ASSUME NEW c \in Calls, Execute(c) PROVE Goal
  <2>t. call[c] \in CallState /\ call \in [Calls -> CallState]
    BY DEF TypeOK
  <2>go. ASSUME NEW x \in Stages, Go(c, x), x # "idle",
                x \in {"select", "list"} => call[c].stage \in {"idle", "select"}, x # "consume"
         PROVE  Goal
    <3> DEFINE row == [call[c] EXCEPT !.stage = x]
    <3>1. row \in CallState /\ row.stage = x /\ row.grant = call[c].grant
      BY <2>t DEF CallState
    <3>2. call' = [call EXCEPT ![c] = row]
      BY <2>go, <2>t DEF Go, CallState
    <3> HIDE DEF row
    <3>3. QED
      BY <3>1, <3>2, <2>go, ChargeKept
  <2>clear. ASSUME NEW b \in {"mode", "user"}, Clear(c, b) PROVE Goal
    <3> DEFINE row == [call[c] EXCEPT !.stage = "cleared", !.by = b]
    <3>1. row \in CallState /\ row.stage = "cleared" /\ row.grant = call[c].grant
      BY <2>t DEF CallState, Stages
    <3>2. call' = [call EXCEPT ![c] = row]
      BY <2>clear, <2>t DEF Clear, CallState
    <3> HIDE DEF row
    <3>3. QED
      BY <3>1, <3>2, ChargeKept
  <2>1. CASE ReadMode(c)
    BY <2>1, <2>go, <2>clear DEF ReadMode, Stages
  <2>2. CASE SelectGrants(c)
    <3>1. PICK P \in SUBSET Grants : call' = [call EXCEPT ![c].stage = "consume",
                                                          ![c].picks = P]
      BY <2>2 DEF SelectGrants, GrantsOf
    <3> DEFINE row == [call[c] EXCEPT !.stage = "consume", !.picks = P]
    <3>2. row \in CallState /\ row.stage = "consume" /\ row.grant = call[c].grant
      BY <2>t DEF CallState, Stages
    <3>3. call' = [call EXCEPT ![c] = row]
      BY <3>1, <2>t DEF CallState
    <3> HIDE DEF row
    <3>4. QED
      BY <2>2, <3>2, <3>3, ChargeKept DEF SelectGrants
  <2>3. ASSUME NEW g \in Grants, Consume(c, g) PROVE Goal
    BY <2>3, <2>t DEF Consume, Uncharged
  <2>4. ASSUME NEW g \in Grants, SkipGrant(c, g) PROVE Goal
    <3> DEFINE row == [call[c] EXCEPT !.picks = @ \ {g}]
    <3>1. row \in CallState /\ row.stage = "consume" /\ row.grant = call[c].grant
      BY <2>t, <2>4 DEF CallState, SkipGrant
    <3>2. call' = [call EXCEPT ![c] = row]
      BY <2>4, <2>t DEF SkipGrant, CallState
    <3> HIDE DEF row
    <3>3. QED
      BY <2>4, <3>1, <3>2, ChargeKept DEF SkipGrant
  <2>5. CASE ExpireGrants(c) \/ NoGrantLeft(c) \/ GiveUp(c) \/ Dispatch(c) \/ Ask(c) \/ Poll(c)
    BY <2>5, <2>go DEF ExpireGrants, NoGrantLeft, GiveUp, Dispatch, Ask, Poll, Stages
  <2>6. CASE Recheck(c)
    BY <2>6, <2>go, <2>clear DEF Recheck, Stages
  <2>7. QED
    BY <1>1, <2>1, <2>2, <2>3, <2>4, <2>5, <2>6 DEF Execute
<1>2. CASE Restart
  <2>1. ASSUME NEW c \in Calls
        PROVE  /\ call'[c].grant = call[c].grant
               /\ call'[c].stage \in {call[c].stage, "lost"}
    <3>1. call[c] \in CallState
      BY DEF TypeOK
    <3>2. call'[c] = call[c] \/ call'[c] = [call[c] EXCEPT !.stage = "lost"]
      BY <1>2 DEF Restart
    <3>3. QED
      BY <3>1, <3>2 DEF CallState
  <2>2. QED
    BY <2>1 DEF Uncharged, SameCharges
<1>3. CASE User \/ Stop \/ UNCHANGED vars \/ (\E g \in Grants : Lapse(g))
  BY <1>3, <1>same
     DEF User, Decide, RevokeGrant, SetMode, SetSetting, RevokeAgent, Stop, StopTask,
         SelectChildren, Interrupt, MarkStopped, StopApprovals, StopGrants, StopMode,
         Lapse, vars
<1>4. ASSUME NEW r \in Children, Child(r) PROVE Goal
  BY <1>4, <1>same
     DEF Child, Register, Claim, Finish, TimeOut, Recover, CancelApprovals, RevokeOfChild,
         Heartbeat
<1>5. QED
  BY <1>1, <1>2, <1>3, <1>4 DEF Next

\* A row in use, and what a step that is neither a charge nor a new grant keeps of it.
Live(g) == grant[g].state # "free"
Kept(g) ==
    /\ grant'[g].used = grant[g].used /\ grant'[g].max = grant[g].max
    /\ grant'[g].from = grant[g].from
    /\ Live(g)' = Live(g)

LEMMA RevokedSame ==
    ASSUME TypeOK, NEW G, grant' = Revoked(G)
    PROVE  \A g \in Grants : Kept(g)
<1> TAKE g \in Grants
<1>1. grant[g] \in GrantRow
  BY DEF TypeOK
<1>2. grant'[g] = IF g \in G /\ IsActive(g) THEN [grant[g] EXCEPT !.state = "revoked"]
                  ELSE grant[g]
  BY DEF Revoked
<1>3. QED
  BY <1>1, <1>2 DEF GrantRow, Kept, Live, IsActive

\* Every step of the system charges one call, adds one grant, or keeps the budgets.
LEMMA BudgetsStep ==
    ASSUME TypeOK, [Next]_vars
    PROVE  \/ \A g \in Grants : Kept(g)
           \/ \E c \in Calls, g \in Grants : Consume(c, g)
           \/ UNCHANGED call /\ \E g \in Grants, t \in Tasks, p \in Grants \cup {None},
                                   n \in {Budget} \cup 1..Share : Added(g, t, p, n)
<1> DEFINE Quiet == \A g \in Grants : Kept(g)
           Adds == UNCHANGED call /\ \E g \in Grants, t \in Tasks, p \in Grants \cup {None},
                                   n \in {Budget} \cup 1..Share : Added(g, t, p, n)
           Goal == Quiet \/ (\E c \in Calls, g \in Grants : Consume(c, g)) \/ Adds
<1>t. grant \in [Grants -> GrantRow]
  BY DEF TypeOK
<1>same. ASSUME UNCHANGED grant PROVE Goal
  BY <1>same DEF Kept, Live
<1>revoked. ASSUME NEW G, grant' = Revoked(G) PROVE Goal
  BY <1>revoked, RevokedSame
<1>1. ASSUME NEW c \in Calls, Execute(c) PROVE Goal
  <2>1. CASE ExpireGrants(c)
    <3>1. ASSUME NEW g \in Grants PROVE Kept(g)
      <4>1. grant[g] \in GrantRow
        BY <1>t
      <4>2. \/ grant'[g] = grant[g]
            \/ IsActive(g) /\ grant'[g] = [grant[g] EXCEPT !.state = "expired"]
        BY <2>1 DEF ExpireGrants
      <4>3. QED
        BY <4>1, <4>2 DEF Kept, Live, GrantRow, IsActive
    <3>2. QED
      BY <3>1
  <2>2. CASE UNCHANGED grant
    BY <2>2, <1>same
  <2>3. QED
    BY <1>1, <2>1, <2>2
       DEF Execute, ReadMode, SelectGrants, NoGrantLeft, Ask, Poll, GiveUp, Recheck, Dispatch, SkipGrant
<1>2. CASE User
  <2>1. ASSUME NEW c \in Calls, Decide(c) PROVE Goal
    <3>1. CASE UNCHANGED grant
      BY <3>1, <1>same
    <3>2. CASE \E g \in Grants : grant[g].state = "free"
                  /\ grant' = [grant EXCEPT ![g] = NewGrant(TaskOf[c], None, Budget)]
      <4>1. PICK g \in Grants : grant[g].state = "free"
                  /\ grant' = [grant EXCEPT ![g] = NewGrant(TaskOf[c], None, Budget)]
        BY <3>2
      <4>2. TaskOf[c] \in Tasks /\ None \in Grants \cup {None} /\ Budget \in {Budget} \cup 1..Share
        BY ApprovalAssumption
      <4>3. Added(g, TaskOf[c], None, Budget)
        BY <4>1, <4>2, <1>t DEF Added
      <4>4. UNCHANGED call
        BY <2>1 DEF Decide
      <4>5. QED
        BY <4>2, <4>3, <4>4
    <3>3. QED
      BY <2>1, <3>1, <3>2 DEF Decide
  <2>2. CASE UNCHANGED grant
    BY <2>2, <1>same
  <2>3. QED
    BY <1>2, <2>1, <2>2, <1>revoked, ApprovalAssumption
       DEF User, RevokeGrant, SetMode, SetSetting, RevokeAgent
<1>3. ASSUME NEW r \in Children, Child(r) PROVE Goal
  <2>1. CASE Claim(r)
    <3>1. CASE UNCHANGED grant
      BY <3>1, <1>same
    <3>2. CASE \E p \in GrantsOf(ParentOf[r]), g \in Grants, n \in 1..Share :
                  /\ ~grant[p].lapsed /\ Fits(p, n) /\ grant[g].state = "free"
                  /\ grant' = [grant EXCEPT ![p] = Charged(p, n), ![g] = NewGrant(r, p, n)]
      <4>1. PICK p \in GrantsOf(ParentOf[r]), g \in Grants, n \in 1..Share :
                  /\ ~grant[p].lapsed /\ Fits(p, n) /\ grant[g].state = "free"
                  /\ grant' = [grant EXCEPT ![p] = Charged(p, n), ![g] = NewGrant(r, p, n)]
        BY <3>2
      <4>2. p \in Grants /\ r \in Tasks
        BY DEF GrantsOf, Tasks
      <4>3. p # g
        BY <4>1 DEF Fits, IsActive
      <4>4. Added(g, r, p, n)
        BY <4>1, <4>2, <4>3, <1>t DEF Added
      <4>5. UNCHANGED call
        BY <2>1 DEF Claim
      <4>6. QED
        BY <4>2, <4>4, <4>5
    <3>3. QED
      BY <2>1, <3>1, <3>2 DEF Claim
  <2>2. CASE Heartbeat(r)
    <3>1. ASSUME NEW g \in Grants PROVE Kept(g)
      <4>1. grant[g] \in GrantRow
        BY <1>t
      <4>2. \/ grant'[g] = grant[g]
            \/ grant'[g] = [grant[g] EXCEPT !.lapsed = grant[grant[g].from].lapsed]
        BY <2>2 DEF Heartbeat
      <4>3. QED
        BY <4>1, <4>2 DEF Kept, Live, GrantRow
    <3>2. QED
      BY <3>1
  <2>3. CASE UNCHANGED grant
    BY <2>3, <1>same
  <2>4. QED
    BY <1>3, <2>1, <2>2, <2>3, <1>revoked
       DEF Child, Register, Finish, TimeOut, Recover, CancelApprovals, RevokeOfChild
<1>4. ASSUME NEW l \in Grants, Lapse(l) PROVE Goal
  <2>1. ASSUME NEW g \in Grants PROVE Kept(g)
    <3>1. grant[g] \in GrantRow
      BY <1>t
    <3>2. grant'[g] = grant[g] \/ grant'[g] = [grant[g] EXCEPT !.lapsed = TRUE]
      BY <1>4 DEF Lapse
    <3>3. QED
      BY <3>1, <3>2 DEF Kept, Live, GrantRow
  <2>2. QED
    BY <2>1
<1>5. CASE Stop
  BY <1>5, <1>same, <1>revoked
     DEF Stop, StopTask, SelectChildren, Interrupt, MarkStopped, StopApprovals, StopGrants, StopMode
<1>6. QED
  BY <1>same, <1>1, <1>2, <1>3, <1>4, <1>5 DEF Next, Restart, vars

\* Every budget is a range of numbers: the part a grant has given away or spent is its
\* beginning, what it reserved for an inherited grant is that one's whole range, and a
\* charged call holds one number.  top: the grant a tree began with.
In(g, n, base) == base[g] <= n /\ n < base[g] + grant[g].max
Unspent(g, n, base) == base[g] + grant[g].used <= n /\ n < base[g] + grant[g].max
Apart(g, h, base) ==
    \/ grant[g].used = grant[g].max \/ grant[h].used = grant[h].max
    \/ base[g] + grant[g].max <= base[h] + grant[h].used
    \/ base[h] + grant[h].max <= base[g] + grant[g].used

ChargesPlaced(top, base, pos) ==
    /\ \A c \in Calls : call[c].grant # None =>
          Live(call[c].grant) /\ In(call[c].grant, pos[c], base)
    /\ \A c, d \in Calls :
          /\ call[c].grant # None /\ call[d].grant # None /\ c # d
          /\ top[call[c].grant] = top[call[d].grant]
          => pos[c] # pos[d]
    /\ \A c \in Calls, g \in Grants :
          call[c].grant # None /\ Live(g) /\ top[g] = top[call[c].grant] => ~Unspent(g, pos[c], base)

GrantsPlaced(top, base) ==
    /\ \A g \in Grants : Live(g) => Live(top[g])
    /\ \A g \in Grants : Live(g) /\ grant[g].from # None =>
          LET p == grant[g].from IN
          /\ Live(p) /\ top[g] = top[p]
          /\ base[p] <= base[g] /\ base[g] + grant[g].max <= base[p] + grant[p].max
    /\ \A g, h \in Grants : Live(g) /\ Live(h) /\ g # h /\ top[g] = top[h] => Apart(g, h, base)

Placed == \E top \in [Grants -> Grants], base \in [Grants -> Nat], pos \in [Calls -> Nat] :
              GrantsPlaced(top, base) /\ ChargesPlaced(top, base, pos)

BudgetInv == Uncharged /\ Placed

LEMMA InitBudget == Init => BudgetInv
<1> SUFFICES ASSUME Init PROVE BudgetInv
  OBVIOUS
<1>1. \A g \in Grants : ~Live(g)
  BY DEF Init, Live, FreeGrant
<1>2. \A c \in Calls : call[c].grant = None
  BY DEF Init, NewCall
<1> DEFINE top == [g \in Grants |-> g]
           base == [g \in Grants |-> 0]
           pos == [c \in Calls |-> 0]
<1>3. top \in [Grants -> Grants] /\ base \in [Grants -> Nat] /\ pos \in [Calls -> Nat]
  OBVIOUS
<1>4. GrantsPlaced(top, base) /\ ChargesPlaced(top, base, pos)
  BY <1>1, <1>2 DEF GrantsPlaced, ChargesPlaced
<1>5. QED
  BY <1>2, <1>3, <1>4 DEF BudgetInv, Uncharged, Placed

\* Nothing moves while no budget is used.
LEMMA QuietPlaced ==
    ASSUME TypeOK, Placed, \A g \in Grants : Kept(g), SameCharges
    PROVE  Placed'
<1>1. PICK top \in [Grants -> Grants], base \in [Grants -> Nat], pos \in [Calls -> Nat] :
         GrantsPlaced(top, base) /\ ChargesPlaced(top, base, pos)
  BY DEF Placed
<1>2. \A c \in Calls : call[c].grant \in Grants \cup {None}
  BY DEF TypeOK, CallState
<1>3. \A g \in Grants : grant[g].from \in Grants \cup {None}
  BY DEF TypeOK, GrantRow
<1>4. GrantsPlaced(top, base)'
  BY <1>1, <1>3 DEF GrantsPlaced, Kept, Apart
<1>5. ChargesPlaced(top, base, pos)'
  BY <1>1, <1>2 DEF ChargesPlaced, Kept, In, Unspent, SameCharges
<1>6. QED
  BY <1>4, <1>5 DEF Placed

\* A charge takes the first unspent number of its grant.
LEMMA ConsumePlaced ==
    ASSUME TypeOK, Within, Uncharged, Placed, NEW c \in Calls, NEW g \in Grants, Consume(c, g)
    PROVE  Placed'
<1>1. PICK top \in [Grants -> Grants], base \in [Grants -> Nat], pos \in [Calls -> Nat] :
         GrantsPlaced(top, base) /\ ChargesPlaced(top, base, pos)
  BY DEF Placed
<1>types. /\ \A d \in Calls : call[d].grant \in Grants \cup {None}
          /\ \A h \in Grants : /\ grant[h].from \in Grants \cup {None}
                               /\ grant[h].used \in Nat /\ grant[h].max \in Nat
                               /\ grant[h].used <= grant[h].max
          /\ None \notin Grants
  BY ApprovalAssumption DEF TypeOK, CallState, GrantRow, Within
<1>g. /\ grant'[g].used = grant[g].used + 1 /\ grant[g].used + 1 <= grant[g].max
      /\ grant'[g].max = grant[g].max /\ grant'[g].from = grant[g].from
      /\ Live(g) /\ Live(g)'
      /\ \A h \in Grants : h # g => grant'[h] = grant[h]
  <2>1. grant[g] \in GrantRow /\ grant \in [Grants -> GrantRow] /\ IsActive(g)
    BY DEF TypeOK, Consume, Fits
  <2>2. grant'[g] = [grant[g] EXCEPT !.used = grant[g].used + 1,
                         !.state = IF grant[g].used + 1 >= grant[g].max THEN "exhausted" ELSE @]
    BY <2>1 DEF Consume, Charged
  <2>3. QED
    BY <2>1, <2>2 DEF GrantRow, Consume, Fits, Live, IsActive
<1>c. /\ call[c].grant = None /\ call'[c].grant = g
      /\ \A d \in Calls : d # c => call'[d] = call[d]
  BY DEF Consume, Uncharged, TypeOK
<1>new. PICK pos1 \in [Calls -> Nat] : /\ pos1[c] = base[g] + grant[g].used
                                         /\ \A d \in Calls : d # c => pos1[d] = pos[d]
  <2> DEFINE new == [pos EXCEPT ![c] = base[g] + grant[g].used]
  <2>1. /\ new \in [Calls -> Nat] /\ new[c] = base[g] + grant[g].used
        /\ \A d \in Calls : d # c => new[d] = pos[d]
    BY <1>types
  <2>2. QED
    BY <2>1
<1>live. \A h \in Grants : Live(h)' = Live(h)
  BY <1>g DEF Live
<1>2. GrantsPlaced(top, base)'
  <2>1. \A h \in Grants : grant'[h].max = grant[h].max /\ grant'[h].from = grant[h].from
    BY <1>g
  <2>2. \A h, k \in Grants : Apart(h, k, base) => Apart(h, k, base)'
    <3> TAKE h, k \in Grants
    <3>1. \A j \in Grants : /\ base[j] \in Nat /\ grant[j].used \in Nat /\ grant[j].max \in Nat
                            /\ grant[j].used <= grant[j].max
                            /\ grant'[j].used \in Nat /\ grant[j].used <= grant'[j].used
                            /\ grant'[j].used <= grant[j].max
      BY <1>g, <1>types
    <3> DEFINE bh == base[h]  bk == base[k]
               uh == grant[h].used  uk == grant[k].used  mh == grant[h].max  mk == grant[k].max
               vh == grant'[h].used  vk == grant'[k].used
    <3>2. /\ bh \in Nat /\ uh \in Nat /\ mh \in Nat /\ vh \in Nat /\ uh <= vh /\ vh <= mh
          /\ bk \in Nat /\ uk \in Nat /\ mk \in Nat /\ vk \in Nat /\ uk <= vk /\ vk <= mk
      BY <3>1
    <3>3. Apart(h, k, base) <=> uh = mh \/ uk = mk \/ bh + mh <= bk + uk \/ bk + mk <= bh + uh
      BY DEF Apart
    <3>4. Apart(h, k, base)' <=> vh = mh \/ vk = mk \/ bh + mh <= bk + vk \/ bk + mk <= bh + vh
      BY <2>1 DEF Apart
    <3> HIDE DEF bh, bk, uh, uk, mh, mk, vh, vk
    <3>5. QED
      BY <3>2, <3>3, <3>4
  <2>3. QED
    BY <1>1, <1>live, <2>1, <2>2, <1>types DEF GrantsPlaced
<1>free. Unspent(g, pos1[c], base)
  BY <1>g, <1>new, <1>types DEF Unspent
<1>3. ChargesPlaced(top, base, pos1)'
  <2>1. ASSUME NEW d \in Calls, call'[d].grant # None
        PROVE  (Live(call[d].grant) /\ In(call[d].grant, pos1[d], base))'
    <3>1. CASE d = c
      BY <3>1, <1>c, <1>g, <1>new, <1>free, <1>types DEF In, Unspent
    <3>2. CASE d # c
      BY <3>2, <2>1, <1>c, <1>1, <1>g, <1>live, <1>new, <1>types DEF ChargesPlaced, In
    <3>3. QED
      BY <3>1, <3>2
  <2>2. ASSUME NEW d \in Calls, d # c, call[d].grant # None, top[call[d].grant] = top[g]
        PROVE  pos1[d] # pos1[c]
    <3>1. ~Unspent(g, pos[d], base)
      BY <2>2, <1>1, <1>g DEF ChargesPlaced
    <3>2. QED
      BY <2>2, <3>1, <1>free, <1>new
  <2>3. ASSUME NEW d \in Calls, NEW e \in Calls, d # e,
               call'[d].grant # None, call'[e].grant # None,
               top[call'[d].grant] = top[call'[e].grant]
        PROVE  pos1[d] # pos1[e]
    BY <2>2, <2>3, <1>c, <1>1, <1>new DEF ChargesPlaced
  <2>4. ASSUME NEW d \in Calls, NEW h \in Grants, call'[d].grant # None, Live(h)',
               top[h] = top[call'[d].grant]
        PROVE  ~Unspent(h, pos1[d], base)'
    <3>1. CASE d = c
      <4>1. CASE h = g
        BY <3>1, <4>1, <1>g, <1>new, <1>types DEF Unspent
      <4>2. CASE h # g
        <5>1. Apart(g, h, base)
          BY <4>2, <3>1, <2>4, <1>1, <1>g, <1>c, <1>live DEF GrantsPlaced
        <5>2. /\ base[g] \in Nat /\ base[h] \in Nat /\ grant[g].used \in Nat /\ grant[g].max \in Nat
              /\ grant[h].used \in Nat /\ grant[h].max \in Nat /\ grant[g].used + 1 <= grant[g].max
              /\ grant'[h] = grant[h]
          BY <1>types, <1>g, <4>2
        <5>3. QED
          BY <5>1, <5>2, <3>1, <1>new DEF Apart, Unspent
      <4>3. QED
        BY <4>1, <4>2
    <3>2. CASE d # c
      <4>1. ~Unspent(h, pos[d], base)
        BY <3>2, <2>4, <1>1, <1>c, <1>live DEF ChargesPlaced
      <4>2. pos1[d] = pos[d] /\ pos[d] \in Nat /\ base[h] \in Nat
            /\ grant'[h].used \in Nat /\ grant[h].used <= grant'[h].used
            /\ grant[h].used \in Nat /\ grant[h].max \in Nat /\ grant'[h].max = grant[h].max
        BY <3>2, <1>new, <1>g, <1>types
      <4>3. QED
        BY <4>1, <4>2 DEF Unspent
    <3>3. QED
      BY <3>1, <3>2
  <2>5. QED
    BY <2>1, <2>3, <2>4 DEF ChargesPlaced
<1>4. QED
  BY <1>2, <1>3, <1>new DEF Placed

\* A new grant begins a tree of its own, or takes the first unspent numbers of its parent.
LEMMA AddedPlaced ==
    ASSUME TypeOK, Within, Placed, UNCHANGED call,
           NEW g \in Grants, NEW t \in Tasks, NEW p \in Grants \cup {None},
           NEW n \in {Budget} \cup 1..Share, Added(g, t, p, n)
    PROVE  Placed'
<1>1. PICK top \in [Grants -> Grants], base \in [Grants -> Nat], pos \in [Calls -> Nat] :
         GrantsPlaced(top, base) /\ ChargesPlaced(top, base, pos)
  BY DEF Placed
<1>types. /\ \A d \in Calls : call[d].grant \in Grants \cup {None}
          /\ \A h \in Grants : /\ grant[h].from \in Grants \cup {None}
                               /\ grant[h].used \in Nat /\ grant[h].max \in Nat
                               /\ grant[h].used <= grant[h].max
          /\ None \notin Grants /\ n \in Nat
  BY ApprovalAssumption DEF TypeOK, CallState, GrantRow, Within
<1>g. /\ grant'[g].used = 0 /\ grant'[g].max = n /\ grant'[g].from = p /\ ~Live(g) /\ Live(g)'
  BY DEF Added, NewGrant, Live
<1>p. ASSUME p # None
      PROVE  /\ p \in Grants /\ p # g /\ Live(p) /\ Live(p)'
             /\ grant[p].used + n <= grant[p].max /\ grant'[p].used = grant[p].used + n
             /\ grant'[p].max = grant[p].max /\ grant'[p].from = grant[p].from
  <2>1. p \in Grants /\ grant[p] \in GrantRow /\ IsActive(p) /\ p # g
        /\ grant[p].used + n <= grant[p].max
    BY <1>p DEF TypeOK, Added, Fits, IsActive
  <2>2. grant'[p] = [grant[p] EXCEPT !.used = grant[p].used + n,
                         !.state = IF grant[p].used + n >= grant[p].max THEN "exhausted" ELSE @]
    BY <1>p, <2>1 DEF Added, Charged
  <2>3. QED
    BY <2>1, <2>2 DEF GrantRow, Live, IsActive
<1>h. ASSUME NEW h \in Grants, h # g
      PROVE  /\ Live(h)' = Live(h)
             /\ grant'[h].max = grant[h].max /\ grant'[h].from = grant[h].from
             /\ grant'[h].used = IF h = p THEN grant[h].used + n ELSE grant[h].used
  <2>1. CASE h = p
    BY <2>1, <1>h, <1>p, <1>types
  <2>2. CASE h # p
    BY <2>2, <1>h DEF Added, Live
  <2>3. QED
    BY <2>1, <2>2
<1>new. PICK top1 \in [Grants -> Grants], base1 \in [Grants -> Nat] :
           /\ p = None => top1[g] = g
           /\ p # None => top1[g] = top[p] /\ base1[g] = base[p] + grant[p].used
           /\ \A h \in Grants : h # g => top1[h] = top[h] /\ base1[h] = base[h]
  <2> DEFINE begin == IF p = None THEN 0 ELSE base[p] + grant[p].used
             first == IF p = None THEN g ELSE top[p]
             newTop == [top EXCEPT ![g] = first]
             newBase == [base EXCEPT ![g] = begin]
  <2>1. begin \in Nat /\ first \in Grants
    BY <1>types, <1>p
  <2>2. /\ newTop \in [Grants -> Grants] /\ newBase \in [Grants -> Nat]
        /\ newTop[g] = first /\ newBase[g] = begin
        /\ \A h \in Grants : h # g => newTop[h] = top[h] /\ newBase[h] = base[h]
    BY <2>1
  <2> HIDE DEF newTop, newBase
  <2>3. QED
    BY <2>2
<1>tree. ASSUME NEW h \in Grants, Live(h) PROVE h # g /\ top[h] # g
  BY <1>tree, <1>1, <1>g DEF GrantsPlaced
<1>2. GrantsPlaced(top1, base1)'
  <2>1. ASSUME NEW h \in Grants, Live(h)' PROVE Live(top1[h])'
    <3>1. CASE h # g
      <4>1. Live(h) /\ Live(top[h]) /\ top[h] # g /\ top[h] \in Grants
        BY <2>1, <3>1, <1>h, <1>tree, <1>1 DEF GrantsPlaced
      <4>2. QED
        BY <3>1, <4>1, <1>h, <1>new
    <3>2. CASE h = g /\ p = None
      BY <3>2, <1>g, <1>new
    <3>3. CASE h = g /\ p # None
      <4>1. Live(top[p]) /\ top[p] # g /\ top[p] \in Grants
        BY <3>3, <1>p, <1>tree, <1>1 DEF GrantsPlaced
      <4>2. QED
        BY <3>3, <4>1, <1>h, <1>new
    <3>4. QED
      BY <3>1, <3>2, <3>3
  <2>2. ASSUME NEW h \in Grants, Live(h)', grant'[h].from # None
        PROVE  (LET q == grant[h].from IN
                /\ Live(q) /\ top1[h] = top1[q]
                /\ base1[q] <= base1[h] /\ base1[h] + grant[h].max <= base1[q] + grant[q].max)'
    <3>1. CASE h = g
      <4>1. p # None /\ grant'[h].from = p
        BY <2>2, <3>1, <1>g
      <4>2. base[p] \in Nat /\ grant[p].used \in Nat /\ grant[p].max \in Nat /\ n \in Nat
        BY <4>1, <1>p, <1>types
      <4>3. QED
        BY <3>1, <4>1, <4>2, <1>p, <1>g, <1>new
    <3>2. CASE h # g
      <4> DEFINE q == grant[h].from
      <4>1. Live(h) /\ grant'[h].from = q /\ q # None /\ q \in Grants
        BY <2>2, <3>2, <1>h, <1>types
      <4>2. /\ Live(q) /\ top[h] = top[q]
            /\ base[q] <= base[h] /\ base[h] + grant[h].max <= base[q] + grant[q].max
        BY <4>1, <1>1 DEF GrantsPlaced
      <4>3. q # g
        BY <4>1, <4>2, <1>tree
      <4>4. /\ Live(q)' /\ grant'[q].max = grant[q].max /\ grant'[h].max = grant[h].max
            /\ top1[h] = top[h] /\ top1[q] = top[q] /\ base1[h] = base[h] /\ base1[q] = base[q]
        BY <4>1, <4>2, <4>3, <3>2, <1>h, <1>new
      <4>5. QED
        BY <4>1, <4>2, <4>4
    <3>3. QED
      BY <3>1, <3>2
  <2>3. ASSUME NEW h \in Grants, h # g, Live(h)', top1[h] = top1[g]
        PROVE  Apart(h, g, base1)' /\ Apart(g, h, base1)'
    <3>1. Live(h) /\ top1[h] = top[h] /\ top[h] # g
      BY <2>3, <1>h, <1>new, <1>tree
    <3>2. p # None /\ top[h] = top[p]
      BY <2>3, <3>1, <1>new
    <3>3. /\ base1[h] = base[h] /\ base1[g] = base[p] + grant[p].used
          /\ grant'[g].used = 0 /\ grant'[g].max = n /\ grant'[h].max = grant[h].max
      BY <3>2, <2>3, <1>h, <1>new, <1>g
    <3>4. /\ base[h] \in Nat /\ base[p] \in Nat /\ n \in Nat
          /\ grant[h].used \in Nat /\ grant[h].max \in Nat /\ grant[h].used <= grant[h].max
          /\ grant[p].used \in Nat /\ grant[p].max \in Nat /\ grant[p].used + n <= grant[p].max
      BY <3>2, <1>p, <1>types
    <3>5. CASE h = p
      BY <3>5, <3>3, <3>4, <2>3, <1>h DEF Apart
    <3>6. CASE h # p
      <4>1. Apart(h, p, base) /\ grant'[h].used = grant[h].used
        BY <3>1, <3>2, <3>6, <2>3, <1>p, <1>h, <1>1 DEF GrantsPlaced
      <4>2. QED
        BY <4>1, <3>3, <3>4 DEF Apart
    <3>7. QED
      BY <3>5, <3>6
  <2>4. ASSUME NEW h \in Grants, NEW k \in Grants, h # k, h # g, k # g, Live(h)', Live(k)',
               top1[h] = top1[k]
        PROVE  Apart(h, k, base1)'
    <3>1. Apart(h, k, base)
      BY <2>4, <1>h, <1>new, <1>1 DEF GrantsPlaced
    <3>2. \A j \in {h, k} : /\ base1[j] = base[j] /\ base[j] \in Nat /\ grant'[j].max = grant[j].max
                            /\ grant[j].used \in Nat /\ grant[j].max \in Nat
                            /\ grant'[j].used \in Nat /\ grant[j].used <= grant'[j].used
                            /\ grant'[j].used <= grant[j].max
      BY <2>4, <1>h, <1>p, <1>new, <1>types
    <3>3. QED
      BY <3>1, <3>2 DEF Apart
  <2>5. QED
    BY <2>1, <2>2, <2>3, <2>4 DEF GrantsPlaced
<1>3. ChargesPlaced(top1, base1, pos)'
  <2>1. ASSUME NEW d \in Calls, call[d].grant # None
        PROVE  /\ call[d].grant \in Grants /\ call[d].grant # g /\ Live(call[d].grant)
               /\ In(call[d].grant, pos[d], base)
               /\ top1[call[d].grant] = top[call[d].grant]
    BY <2>1, <1>1, <1>g, <1>new, <1>types DEF ChargesPlaced
  <2>2. ASSUME NEW d \in Calls, call[d].grant # None
        PROVE  Live(call[d].grant)' /\ In(call[d].grant, pos[d], base1)'
    BY <2>1, <2>2, <1>h, <1>new DEF In
  <2>3. ASSUME NEW d \in Calls, NEW h \in Grants, call[d].grant # None, Live(h)',
               top1[h] = top1[call[d].grant]
        PROVE  ~Unspent(h, pos[d], base1)'
    <3>1. CASE h = g
      <4>1. p # None /\ top[p] = top[call[d].grant]
        BY <3>1, <2>1, <2>3, <1>new, <1>tree
      <4>2. ~Unspent(p, pos[d], base)
        BY <4>1, <2>3, <1>p, <1>1 DEF ChargesPlaced
      <4>3. /\ base[p] \in Nat /\ n \in Nat /\ grant[p].used \in Nat /\ grant[p].max \in Nat
            /\ grant[p].used + n <= grant[p].max /\ pos[d] \in Nat
        BY <4>1, <1>p, <1>types
      <4>4. QED
        BY <3>1, <4>1, <4>2, <4>3, <1>g, <1>new DEF Unspent
    <3>2. CASE h # g
      <4>1. ~Unspent(h, pos[d], base)
        BY <3>2, <2>1, <2>3, <1>h, <1>new, <1>1 DEF ChargesPlaced
      <4>2. /\ base1[h] = base[h] /\ base[h] \in Nat /\ pos[d] \in Nat /\ grant'[h].max = grant[h].max
            /\ grant[h].used \in Nat /\ grant'[h].used \in Nat /\ grant[h].used <= grant'[h].used
            /\ grant[h].max \in Nat
        BY <3>2, <1>h, <1>new, <1>types
      <4>3. QED
        BY <4>1, <4>2 DEF Unspent
    <3>3. QED
      BY <3>1, <3>2
  <2>4. ASSUME NEW d \in Calls, NEW e \in Calls, d # e, call[d].grant # None, call[e].grant # None,
               top1[call[d].grant] = top1[call[e].grant]
        PROVE  pos[d] # pos[e]
    BY <2>1, <2>4, <1>1 DEF ChargesPlaced
  <2>5. QED
    BY <2>2, <2>3, <2>4 DEF ChargesPlaced
<1>4. QED
  BY <1>2, <1>3, <1>new DEF Placed

LEMMA BudgetInvariance == Spec => []BudgetInv
<1>1. Inv /\ BudgetInv /\ [Next]_vars => BudgetInv'
  <2> SUFFICES ASSUME Inv, BudgetInv, [Next]_vars PROVE BudgetInv'
    OBVIOUS
  <2>i. TypeOK /\ Within /\ Uncharged /\ Placed
    BY DEF Inv, BudgetInv
  <2>1. Uncharged' /\ (SameCharges \/ \E c \in Calls, g \in Grants : Consume(c, g))
    BY <2>i, ChargesStep
  <2>2. CASE \E c \in Calls, g \in Grants : Consume(c, g)
    BY <2>2, <2>1, <2>i, ConsumePlaced DEF BudgetInv
  <2>3. CASE SameCharges /\ \A g \in Grants : Kept(g)
    BY <2>3, <2>1, <2>i, QuietPlaced DEF BudgetInv
  <2>4. CASE UNCHANGED call /\ \E g \in Grants, t \in Tasks, p \in Grants \cup {None},
                                   n \in {Budget} \cup 1..Share : Added(g, t, p, n)
    BY <2>4, <2>1, <2>i, AddedPlaced DEF BudgetInv
  <2>5. QED
    BY <2>1, <2>2, <2>3, <2>4, <2>i, BudgetsStep
<1>2. QED
  BY <1>1, InitBudget, Invariance, PTL DEF Spec

\* What is inherited from a grant lies in its range.
LEMMA UnderInside ==
    ASSUME NEW top \in [Grants -> Grants], NEW base \in [Grants -> Nat], TypeOK,
           GrantsPlaced(top, base), NEW g \in Grants, NEW h \in Under({g}), Live(h)
    PROVE  /\ Live(g) /\ top[h] = top[g]
           /\ base[g] <= base[h] /\ base[h] + grant[h].max <= base[g] + grant[g].max
<1> DEFINE Inside(k) == /\ Live(g) /\ top[k] = top[g]
                        /\ base[g] <= base[k] /\ base[k] + grant[k].max <= base[g] + grant[g].max
           S == {k \in Grants : Live(k) => Inside(k)}
<1>types. \A k \in Grants : /\ base[k] \in Nat /\ grant[k].max \in Nat
                            /\ grant[k].from \in Grants \cup {None}
  BY DEF TypeOK, GrantRow
<1>1. {g} \subseteq S
  BY <1>types
<1>2. ASSUME NEW k \in Grants, grant[k].from \in S, Live(k) PROVE Inside(k)
  <2> DEFINE p == grant[k].from
  <2>1. /\ p \in Grants /\ p # None
    BY <1>2, ApprovalAssumption
  <2>2. /\ Live(p) /\ top[k] = top[p]
        /\ base[p] <= base[k] /\ base[k] + grant[k].max <= base[p] + grant[p].max
    BY <1>2, <2>1 DEF GrantsPlaced
  <2>3. Inside(p)
    BY <1>2, <2>2
  <2>4. QED
    BY <2>1, <2>2, <2>3, <1>types
<1>3. h \in S
  <2>1. S \in SUBSET Grants /\ \A k \in Grants : grant[k].from \in S => k \in S
    BY <1>2
  <2> HIDE DEF S
  <2>2. QED
    BY <1>1, <2>1 DEF Under
<1>4. QED
  BY <1>3

----------------------------------------------------------------------------
\* Theorems

\* Every row of the tables, every call and every handler in progress keeps its shape.
THEOREM TypeCorrect == Spec => []TypeOK
<1>1. Inv => TypeOK
  BY DEF Inv
<1>2. QED
  BY <1>1, Invariance, PTL

\* However many calls, tasks and statements of handlers meet, an approval that is
\* decided, expired or cancelled is never resolved a second time.
THEOREM ResolvedOnce == Spec => DecidedOnce
<1>1. Inv /\ [Next]_vars => [\A i \in Ids : approval[i] \in Decided => approval'[i] = approval[i]]_vars
  BY ApprovalsResolvedOnce DEF Inv, ApprovalStep
<1>2. QED
  BY <1>1, Invariance, PTL DEF Spec, DecidedOnce

\* One decision of the user clears one call, whatever replays a request.
THEOREM UsedOnce == Spec => []SingleUse
<1>1. Inv => SingleUse
  BY DEF Inv, UseInv, SingleUse, Holder, Approved
<1>2. QED
  BY <1>1, Invariance, PTL

\* In every tree of grants, an active grant's parent is revoked only once the task
\* that held it has ended.
THEOREM Cascade == Spec => []RevocationCascades
<1>1. Inv => RevocationCascades
  BY DEF Inv
<1>2. QED
  BY <1>1, Invariance, PTL

\* However often calls are charged, grants inherited, revoked, expired or lost with the
\* process, the reads that a grant and everything inherited from it paid for are at most
\* as many as the user allowed.
THEOREM BudgetKept == Spec => []TreeBudget
<1>1. Inv /\ BudgetInv => TreeBudget
  <2> SUFFICES ASSUME Inv, BudgetInv, NEW g \in Grants
               PROVE  Cardinality({c \in Calls : call[c].grant \in Under({g})}) <= grant[g].max
    BY DEF TreeBudget
  <2>1. PICK top \in [Grants -> Grants], base \in [Grants -> Nat], pos \in [Calls -> Nat] :
           GrantsPlaced(top, base) /\ ChargesPlaced(top, base, pos)
    BY DEF BudgetInv, Placed
  <2> DEFINE C == {c \in Calls : call[c].grant \in Under({g})}
             first == base[g]
             last == base[g] + grant[g].max - 1
             f == [c \in C |-> pos[c]]
  <2>types. /\ TypeOK /\ base[g] \in Nat /\ grant[g].max \in Nat /\ first \in Int /\ last \in Int
            /\ \A h \in Grants : base[h] \in Nat /\ grant[h].max \in Nat
    BY DEF Inv, TypeOK, GrantRow
  <2>2. ASSUME NEW c \in C
        PROVE  /\ call[c].grant # None /\ top[call[c].grant] = top[g]
               /\ pos[c] \in first..last
    <3>1. call[c].grant \in Grants /\ call[c].grant # None /\ call[c].grant \in Under({g})
      BY ApprovalAssumption DEF Under
    <3>2. Live(call[c].grant) /\ In(call[c].grant, pos[c], base) /\ pos[c] \in Nat
      BY <2>1, <3>1 DEF ChargesPlaced
    <3>3. /\ top[call[c].grant] = top[g]
          /\ base[g] <= base[call[c].grant]
          /\ base[call[c].grant] + grant[call[c].grant].max <= base[g] + grant[g].max
      BY <2>1, <2>types, <3>1, <3>2, UnderInside
    <3>4. QED
      BY <3>1, <3>2, <3>3, <2>types DEF In
  <2>3. f \in Injection(C, first..last)
    <3>1. f \in [C -> first..last]
      BY <2>2
    <3>2. \A c, d \in C : f[c] = f[d] => c = d
      BY <2>1, <2>2 DEF ChargesPlaced
    <3>3. QED
      BY <3>1, <3>2 DEF Injection, IsInjective
  <2>4. /\ IsFiniteSet(first..last)
        /\ Cardinality(first..last) = IF first > last THEN 0 ELSE last - first + 1
    BY <2>types, FS_Interval
  <2>5. Cardinality(C) <= Cardinality(first..last) 
    BY <2>3, <2>4, FS_Injection
  <2>6. Cardinality(first..last) <= grant[g].max
    BY <2>4, <2>types
  <2>7. Cardinality(C) \in Nat
    <3>1. IsFiniteSet(C)
      BY <2>3, <2>4, FS_Injection
    <3>2. QED
      BY <3>1, FS_CardinalityType
  <2>8. Cardinality(first..last) \in Nat
    BY <2>4, FS_CardinalityType
  <2> HIDE DEF C, first, last
  <2>9. Cardinality(C) <= grant[g].max
    BY <2>5, <2>6, <2>7, <2>8, <2>types
  <2>10. QED
    BY <2>9 DEF C
<1>2. QED
  BY <1>1, Invariance, BudgetInvariance, PTL

=============================================================================
