------------------------- MODULE MCServices_proofs -------------------------
(***************************************************************************)
(* What the run of MCServices checks, for every value of its constants: a    *)
(* behaviour is about one of the services and leaves the others as they are, *)
(* so that their invariants (Services_proofs, Stores_proofs) hold side by    *)
(* side.                                                                   *)
(***************************************************************************)
EXTENDS MCServices, Services_proofs, Stores_proofs

\* What holds of each of the services in the part that is about it.
ServicesInv ==
    /\ part = "commands" => ExecInv
    /\ part = "processes" => ProcInv
    /\ part = "shells" => ShellInv
    /\ part = "blobs" => BlobInv
    /\ part = "updates" => UpdateInv
    /\ part = "tracking" => TrackInv
MessagesInv ==
    /\ part = "prompts" => PromptInv
    /\ part = "queue" => QueueInv
    /\ part = "tabs" => TabsInv

LEMMA ServicesStart == Init => ServicesInv
<1> SUFFICES ASSUME Init PROVE ServicesInv
  OBVIOUS
<1>1. ASSUME part = "commands" PROVE ExecInv
  BY <1>1, ExecInvInit DEF Init
<1>2. ASSUME part = "processes" PROVE ProcInv
  BY <1>2, ProcInvInit DEF Init
<1>3. ASSUME part = "shells" PROVE ShellInv
  BY <1>3, ShellStart DEF Init
<1>4. ASSUME part = "blobs" PROVE BlobInv
  BY <1>4, BlobsStart DEF Init
<1>5. ASSUME part = "updates" PROVE UpdateInv
  BY <1>5, UpdateStarts DEF Init
<1>6. ASSUME part = "tracking" PROVE TrackInv
  BY <1>6, TrackStarts DEF Init
<1> QED
  BY <1>1, <1>2, <1>3, <1>4, <1>5, <1>6 DEF ServicesInv

LEMMA MessagesStart == Init => MessagesInv
<1> SUFFICES ASSUME Init PROVE MessagesInv
  OBVIOUS
<1>1. ASSUME part = "prompts" PROVE PromptInv
  BY <1>1, PromptInvInit DEF Init
<1>2. ASSUME part = "queue" PROVE QueueInv
  BY <1>2, QueueInvInit DEF Init
<1>3. ASSUME part = "tabs" PROVE TabsInv
  BY <1>3, TabsStart DEF Init
<1> QED
  BY <1>1, <1>2, <1>3 DEF MessagesInv

\* The parts whose variables a step of the run changes.
LEMMA OnePart ==
    ASSUME [Next]_vars
    PROVE  /\ part' = part /\ [ReportNext]_reportVars
           /\ part = "commands" => [ExecutionNext]_execVars
           /\ part = "processes" => [ProcessNext]_processVars
           /\ part = "shells" => [ShellNext]_shellVars
           /\ part = "blobs" => [BlobNext]_blobVars
           /\ part = "updates" => [UpdateNext]_updateVars
           /\ part = "tracking" => [TrackNext]_trackVars
           /\ part = "prompts" => [PromptNext]_promptVars
           /\ part = "queue" => [QueueNext]_queueVars
           /\ part = "tabs" => [TabsNext]_tabVars
<1>1. CASE UNCHANGED vars
  <2>1. UNCHANGED reportVars
    BY <1>1 DEF vars
  <2> QED
    BY <1>1, <2>1 DEF vars
<1>2. CASE Next
  <2>1. PICK p \in Parts : Only(p)
    BY <1>2 DEF Next, Parts
  <2>2. part' = part /\ part = p
    BY <2>1 DEF Only
  <2>3. CASE p = "commands"
    BY <1>2, <2>2, <2>3 DEF Next, Only
  <2>4. CASE p = "processes"
    BY <1>2, <2>2, <2>4 DEF Next, Only
  <2>5. CASE p = "shells"
    BY <1>2, <2>2, <2>5 DEF Next, Only
  <2>6. CASE p = "blobs"
    BY <1>2, <2>2, <2>6 DEF Next, Only
  <2>7. CASE p = "updates"
    BY <1>2, <2>2, <2>7 DEF Next, Only
  <2>8. CASE p = "tracking"
    BY <1>2, <2>2, <2>8 DEF Next, Only
  <2>9. CASE p = "prompts"
    BY <1>2, <2>2, <2>9 DEF Next, Only
  <2>10. CASE p = "queue"
    BY <1>2, <2>2, <2>10 DEF Next, Only
  <2>11. CASE p = "tabs"
    BY <1>2, <2>2, <2>11 DEF Next, Only
  <2>12. [ReportNext]_reportVars
    <3>1. CASE p = "evidence"
      BY <1>2, <2>2, <3>1 DEF Next, Only
    <3>2. CASE p # "evidence"
      BY <2>1, <3>2 DEF Only
    <3> QED
      BY <3>1, <3>2
  <2> QED
    BY <2>2, <2>3, <2>4, <2>5, <2>6, <2>7, <2>8, <2>9, <2>10, <2>11, <2>12
<1> QED
  BY <1>1, <1>2

LEMMA ServicesStep == ServicesInv /\ [Next]_vars => ServicesInv'
<1> SUFFICES ASSUME ServicesInv, [Next]_vars PROVE ServicesInv'
  OBVIOUS
<1>1. ASSUME part' = "commands" PROVE ExecInv'
  BY <1>1, OnePart, ExecutionStep DEF ServicesInv
<1>2. ASSUME part' = "processes" PROVE ProcInv'
  BY <1>2, OnePart, ProcStep DEF ServicesInv
<1>3. ASSUME part' = "shells" PROVE ShellInv'
  BY <1>3, OnePart, ShellStep DEF ServicesInv
<1>4. ASSUME part' = "blobs" PROVE BlobInv'
  BY <1>4, OnePart, BlobsStep DEF ServicesInv
<1>5. ASSUME part' = "updates" PROVE UpdateInv'
  BY <1>5, OnePart, UpdatesStep DEF ServicesInv
<1>6. ASSUME part' = "tracking" PROVE TrackInv'
  BY <1>6, OnePart, TrackStep DEF ServicesInv
<1> QED
  BY <1>1, <1>2, <1>3, <1>4, <1>5, <1>6 DEF ServicesInv

LEMMA MessagesStep == MessagesInv /\ [Next]_vars => MessagesInv'
<1> SUFFICES ASSUME MessagesInv, [Next]_vars PROVE MessagesInv'
  OBVIOUS
<1>1. ASSUME part' = "prompts" PROVE PromptInv'
  BY <1>1, OnePart, PromptInvStep DEF MessagesInv
<1>2. ASSUME part' = "queue" PROVE QueueInv'
  BY <1>2, OnePart, QueueStep DEF MessagesInv
<1>3. ASSUME part' = "tabs" PROVE TabsInv'
  BY <1>3, OnePart, TabsStep DEF MessagesInv
<1> QED
  BY <1>1, <1>2, <1>3 DEF MessagesInv

\* What the run checks of commands, processes and shells, of the store of blobs, of an update and
\* of the files a turn changed, for every value of its constants.
THEOREM ServicesAreSafe == Spec => []ServicesSafe
<1>1. Init => ServicesInv
  BY ServicesStart
<1>2. ServicesInv /\ [Next]_vars => ServicesInv'
  BY ServicesStep
<1>3. ServicesInv => ServicesSafe
  BY ExecutionHolds, ProcHolds, ShellsAreSafe, BlobsHold, UpdatesHold, TrackHolds DEF ServicesInv, ServicesSafe
<1> QED
  BY <1>1, <1>2, <1>3, PTL DEF Spec

\* What the run checks of the questions of a plan, of queued messages and of the tabs of a
\* sub-agent, for every value of its constants.
THEOREM MessagesAreSafe == Spec => []MessagesSafe
<1>1. Init => MessagesInv
  BY MessagesStart
<1>2. MessagesInv /\ [Next]_vars => MessagesInv'
  BY MessagesStep
<1>3. MessagesInv => MessagesSafe
  BY QueueHolds, TabsInvSafe DEF MessagesInv, MessagesSafe, PromptInv
<1> QED
  BY <1>1, <1>2, <1>3, PTL DEF Spec


\* What the run checks of the evidence for a turn's report, for every value of its constants: the
\* parts about other services leave the evidence as it is.
THEOREM PassedAlwaysFresh == Spec => PassedIsFresh
<1>1. Init => ReportInit
  BY DEF Init
<1>2. [Next]_vars => [ReportNext]_reportVars
  BY OnePart
<1>3. Spec => ReportSpec
  BY <1>1, <1>2, PTL DEF Spec, ReportSpec
<1> QED
  BY <1>3, PassedFresh

=============================================================================
