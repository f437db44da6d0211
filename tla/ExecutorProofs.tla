--------------------------- MODULE ExecutorProofs ---------------------------
(***************************************************************************)
(* Proofs about Executor for every set of step ids and every plan over it: *)
(* the type invariant, the promises of a wave-by-wave execution, and that  *)
(* the executor implements PlanContract.                                   *)
(***************************************************************************)
EXTENDS Executor, TLAPS

\* The plan never changes and is one validate_graph accepts.
PlanInv ==
    /\ ValidGraph(steps, deps, refs)
    /\ \A s \in Steps \ steps : deps[s] = {} /\ refs[s] = {}

\* Where execute() is says what is left, and whether it was committed.
PhaseInv ==
    /\ pc \in {"begin", "scan", "finish", "done"} => wave = NoWave
    /\ pc = "scan" => Remaining # {}
    /\ pc \in {"finish", "done"} => Remaining = {}
    /\ committed <=> pc = "done"
    /\ pc \in {"begin", "raised"} => execution = "absent"
    /\ pc \in {"scan", "gather", "finish"} => execution = "running"
    /\ pc = "done" => execution = Summary({results[s] : s \in steps})

\* Results belong to steps whose dependencies have results, and are skipped
\* exactly when one of those did not complete.
ResultInv ==
    \A s \in Steps : results[s] # "none" =>
        /\ s \in steps
        /\ deps[s] \subseteq Settled
        /\ results[s] = "skipped" <=> DependencyFailed(s)

\* So does what a wave is about to record.
WaveInv ==
    \A s \in Steps : wave[s] # "none" =>
        /\ s \in Ready
        /\ wave[s] = "skipped" <=> DependencyFailed(s)

\* The approval rows are those of the pending steps, recorded or not.
ProposalInv ==
    IF pc = "raised" THEN proposals = {}
    ELSE proposals = {s \in steps : \/ results[s] = "awaiting_approval"
                                    \/ wave[s] = "awaiting_approval"}

\* A step that runs, or ran to completion, had its inputs and was not gated.
InputInv ==
    \A s \in Steps :
        (wave[s] \in {"running", "completed"} \/ results[s] = "completed") =>
            /\ op[s] # "write"
            /\ \A d \in deps[s] : results[d] = "completed"
            /\ \A d \in refs[s] : output[d][s] # "missing"

\* A skipped step has a failed or pending step behind it.
CauseInv ==
    (\E s \in steps : results[s] = "skipped") =>
        \E s \in steps : results[s] \in {"failed", "awaiting_approval"}

\* Nothing is recorded before the first scan.
FreshInv == pc = "begin" => Settled = {}

EffectInv == \A s \in effects : op[s] # "write"

\* Only a gated step waits for approval.
OfferInv ==
    \A s \in Steps :
        wave[s] = "awaiting_approval" \/ results[s] = "awaiting_approval" =>
            op[s] = "write"

IInv ==
    /\ TypeOK /\ PlanInv /\ PhaseInv /\ ResultInv /\ WaveInv
    /\ ProposalInv /\ InputInv /\ CauseInv /\ FreshInv /\ EffectInv /\ OfferInv
-----------------------------------------------------------------------------
(***************************************************************************)
(* An acyclic plan always has a ready step while a step remains: a nonempty *)
(* set of remaining steps has a member none of whose dependencies remains. *)
(***************************************************************************)
LEMMA SomeStepIsReady ==
    ASSUME TypeOK, PlanInv, Remaining # {}
    PROVE  Ready # {}
<1>1. Remaining \in SUBSET steps
    BY DEF Remaining
<1>2. PICK s \in Remaining : deps[s] \cap Remaining = {}
    BY <1>1 DEF PlanInv, ValidGraph, Acyclic
<1>3. deps[s] \subseteq steps
    BY <1>1, <1>2 DEF PlanInv, ValidGraph
<1>4. deps[s] \subseteq Settled
    BY <1>2, <1>3 DEF Remaining
<1> QED
    BY <1>2, <1>4 DEF Ready

LEMMA InitInv == Init => IInv
<1> SUFFICES ASSUME Init PROVE IInv
    OBVIOUS
<1>1. TypeOK
    BY DEF Init, TypeOK, NoOutput, NoWave, Findings
<1>2. PlanInv
    BY DEF Init, PlanInv
<1>3. PhaseInv /\ ResultInv /\ WaveInv /\ ProposalInv /\ InputInv
    BY DEF Init, PhaseInv, ResultInv, WaveInv, ProposalInv, InputInv, NoWave
<1>4. CauseInv /\ FreshInv /\ EffectInv /\ OfferInv
    BY DEF Init, CauseInv, FreshInv, Settled, EffectInv, OfferInv, NoWave
<1> QED
    BY <1>1, <1>2, <1>3, <1>4 DEF IInv

LEMMA BeginInv == IInv /\ Begin => IInv'
<1> SUFFICES ASSUME IInv, Begin PROVE IInv'
    OBVIOUS
<1> USE DEF IInv
<1>1. TypeOK'
    BY DEF TypeOK, PhaseInv, Begin, LoopOr, plan
<1>2. PlanInv' /\ EffectInv' /\ OfferInv' /\ CauseInv' /\ FreshInv'
    BY DEF PlanInv, EffectInv, OfferInv, CauseInv, FreshInv, Begin, LoopOr, plan
<1>3. \A s \in Steps : wave[s] = "none"
    BY DEF PhaseInv, Begin, NoWave
<1>4. Settled' = Settled /\ Remaining' = Remaining /\ Ready' = Ready
    BY DEF Settled, Remaining, Ready, Begin, plan
<1>5. ResultInv' /\ WaveInv' /\ InputInv'
    BY <1>3, <1>4 DEF ResultInv, WaveInv, InputInv, Begin, DependencyFailed, plan
<1>6. ProposalInv'
    BY DEF ProposalInv, Begin, LoopOr, plan
<1>7. PhaseInv'
    <2>1. pc' = "finish" => Remaining = {}
        BY DEF Begin, LoopOr, Remaining
    <2>2. pc' = "scan" => Remaining # {}
      <3>1. Settled = {}
          BY DEF FreshInv, Begin
      <3> QED BY <3>1 DEF Begin, LoopOr, Remaining
    <2> QED BY <2>1, <2>2, <1>4 DEF PhaseInv, Begin, LoopOr, plan
<1> QED
    BY <1>1, <1>2, <1>5, <1>6, <1>7

LEMMA ScanInv == IInv /\ Scan => IInv'
<1> SUFFICES ASSUME IInv, Scan PROVE IInv'
    OBVIOUS
<1> USE DEF IInv
<1>1. \A s \in Steps : Screen(s) \in {"skipped", "failed", "awaiting_approval", "running"}
    BY DEF Screen
<1>2. TypeOK'
  <2>1. wave' \in [Steps -> StepStatus \cup {"none", "running"}]
      BY <1>1 DEF Scan, StepStatus
  <2>2. proposals' \in SUBSET Steps
      BY DEF Scan, TypeOK, Ready, Remaining
  <2> QED BY <2>1, <2>2 DEF TypeOK, Scan, plan
<1>3. PlanInv' /\ EffectInv' /\ CauseInv' /\ FreshInv'
    BY DEF PlanInv, EffectInv, CauseInv, FreshInv, Scan, plan
<1>4. Settled' = Settled /\ Remaining' = Remaining /\ Ready' = Ready
    BY DEF Settled, Remaining, Ready, Scan, plan
<1>5. \A s \in Steps : DependencyFailed(s)' = DependencyFailed(s)
    BY DEF DependencyFailed, Scan, plan
<1>6. ResultInv'
    BY <1>4, <1>5 DEF ResultInv, Scan, plan
<1>7. WaveInv'
    BY <1>4, <1>5 DEF WaveInv, Scan, Screen
<1>8. ProposalInv'
  <2>1. \A s \in Steps : wave[s] = "none"
      BY DEF PhaseInv, Scan, NoWave
  <2>2. proposals = {s \in steps : results[s] = "awaiting_approval"}
      BY <2>1 DEF ProposalInv, Scan, TypeOK
  <2>3. \A s \in steps : wave'[s] = "awaiting_approval" <=>
                            s \in Ready /\ Screen(s) = "awaiting_approval"
      BY DEF Scan, TypeOK
  <2>4. Ready \subseteq steps
      BY DEF Ready, Remaining
  <2> QED BY <2>2, <2>3, <2>4 DEF ProposalInv, Scan, plan
<1>9. InputInv'
  <2> SUFFICES ASSUME NEW s \in Steps,
                      wave'[s] \in {"running", "completed"} \/ results'[s] = "completed"
               PROVE  /\ op[s] # "write"
                      /\ \A d \in deps[s] : results[d] = "completed"
                      /\ \A d \in refs[s] : output[d][s] # "missing"
      BY DEF InputInv, Scan, plan
  <2>1. CASE results'[s] = "completed"
      BY <2>1 DEF InputInv, Scan
  <2>2. CASE wave'[s] \in {"running", "completed"}
    <3>1. s \in Ready /\ Screen(s) = "running"
        BY <2>2 DEF Scan, Screen
    <3>2. ~ DependencyFailed(s) /\ ~ Unresolved(s) /\ ~ RequiresApproval(s)
        BY <3>1 DEF Screen
    <3>3. \A d \in deps[s] : results[d] = "completed"
      <4> SUFFICES ASSUME NEW d \in deps[s] PROVE results[d] = "completed"
          OBVIOUS
      <4>1. d \in Steps /\ results[d] # "none"
          BY <3>1 DEF Ready, Settled, TypeOK
      <4>2. results[d] \in StepStatus
          BY <4>1 DEF TypeOK
      <4> QED BY <3>2, <4>2 DEF DependencyFailed, Unavailable, StepStatus
    <3> QED BY <3>2, <3>3 DEF Unresolved, RequiresApproval
  <2> QED BY <2>1, <2>2
<1>10. PhaseInv'
    BY DEF PhaseInv, Scan, plan
<1>11. OfferInv'
    BY DEF OfferInv, Scan, Screen, RequiresApproval, plan
<1> QED
    BY <1>2, <1>3, <1>6, <1>7, <1>8, <1>9, <1>10, <1>11
-----------------------------------------------------------------------------
(***************************************************************************)
(* What every action of a running agent does to the plan, the results and  *)
(* the other steps of its wave.                                            *)
(***************************************************************************)
LEMMA AgentFrame ==
    ASSUME TypeOK, NEW s \in Steps, Agent(s)
    PROVE  /\ pc = "gather" /\ wave[s] = "running"
           /\ UNCHANGED <<plan, pc, results, proposals, execution, committed>>
           /\ wave' \in [Steps -> StepStatus \cup {"none", "running"}]
           /\ wave'[s] \in {"running", "completed", "failed"}
           /\ \A t \in Steps \ {s} : wave'[t] = wave[t]
           /\ \A d \in Steps \ {s} : output'[d] = output[d]
<1>1. CASE AgentRefused(s)
    BY <1>1 DEF AgentRefused, Running, Leave, TypeOK, StepStatus
<1>2. CASE AgentDrafts(s)
    BY <1>2 DEF AgentDrafts, Running, TypeOK
<1>3. CASE AgentCompletes(s)
    BY <1>3 DEF AgentCompletes, Running, Leave, TypeOK, StepStatus
<1>4. CASE AgentFails(s)
    BY <1>4 DEF AgentFails, Running, Leave, TypeOK, StepStatus
<1>5. CASE AgentBreaksSession(s)
    BY <1>5 DEF AgentBreaksSession, Running, Leave, TypeOK, StepStatus
<1> QED
    BY <1>1, <1>2, <1>3, <1>4, <1>5 DEF Agent

LEMMA AgentType ==
    ASSUME TypeOK, NEW s \in Steps, Agent(s)
    PROVE  TypeOK'
<1>1. output' \in [Steps -> [Steps -> Findings]]
  <2>1. CASE AgentCompletes(s)
    <3>1. PICK found \in [{t \in Steps : s \in refs[t]} -> Findings] :
             output' = [output EXCEPT ![s] =
                           [t \in Steps |-> IF s \in refs[t] THEN found[t]
                                            ELSE "missing"]]
        BY <2>1 DEF AgentCompletes
    <3>2. [t \in Steps |-> IF s \in refs[t] THEN found[t] ELSE "missing"]
             \in [Steps -> Findings]
        BY DEF Findings
    <3> QED BY <3>1, <3>2 DEF TypeOK
  <2>2. CASE ~ AgentCompletes(s)
      BY <2>2 DEF Agent, AgentRefused, AgentDrafts, AgentFails,
                  AgentBreaksSession, TypeOK
  <2> QED BY <2>1, <2>2
<1>2. broken' \in BOOLEAN
    BY DEF Agent, AgentRefused, AgentDrafts, AgentCompletes, AgentFails,
           AgentBreaksSession, TypeOK
<1>3. effects' \in SUBSET Steps
    BY DEF Agent, AgentRefused, AgentDrafts, AgentCompletes, AgentFails,
           AgentBreaksSession, TypeOK
<1> QED
    BY <1>1, <1>2, <1>3, AgentFrame DEF TypeOK, plan

LEMMA AgentInv == ASSUME IInv, NEW s \in Steps, Agent(s) PROVE IInv'
<1> USE DEF IInv
<1>1. TypeOK'
    BY AgentType
<1>2. /\ pc = "gather" /\ wave[s] = "running"
      /\ UNCHANGED <<plan, pc, results, proposals, execution, committed>>
      /\ wave'[s] \in {"running", "completed", "failed"}
      /\ \A t \in Steps \ {s} : wave'[t] = wave[t]
      /\ \A d \in Steps \ {s} : output'[d] = output[d]
    BY AgentFrame
<1>3. PlanInv' /\ CauseInv' /\ FreshInv'
    BY <1>2 DEF PlanInv, CauseInv, FreshInv, Settled, plan
<1>4. /\ Settled' = Settled /\ Remaining' = Remaining /\ Ready' = Ready
      /\ \A t \in Steps : DependencyFailed(t)' = DependencyFailed(t)
    BY <1>2 DEF Settled, Remaining, Ready, DependencyFailed, plan
<1>5. PhaseInv'
    BY <1>2, <1>4 DEF PhaseInv, plan
<1>6. ResultInv'
    BY <1>2, <1>4 DEF ResultInv, plan
<1>7. WaveInv'
  <2> SUFFICES ASSUME NEW t \in Steps, wave'[t] # "none"
               PROVE  t \in Ready /\ (wave'[t] = "skipped" <=> DependencyFailed(t))
      BY <1>4 DEF WaveInv
  <2>1. CASE t = s
      BY <2>1, <1>2 DEF WaveInv
  <2>2. CASE t # s
      BY <2>2, <1>2 DEF WaveInv
  <2> QED BY <2>1, <2>2
<1>8. ProposalInv'
  <2>1. \A t \in steps : wave'[t] = "awaiting_approval" <=> wave[t] = "awaiting_approval"
      BY <1>2 DEF TypeOK
  <2> QED BY <2>1, <1>2 DEF ProposalInv, plan
<1>9. InputInv'
  <2> SUFFICES ASSUME NEW t \in Steps,
                      wave'[t] \in {"running", "completed"} \/ results[t] = "completed"
               PROVE  /\ op[t] # "write"
                      /\ \A d \in deps[t] : results[d] = "completed"
                      /\ \A d \in refs[t] : output'[d][t] # "missing"
      BY <1>2 DEF InputInv, plan
  <2>1. wave[t] \in {"running", "completed"} \/ results[t] = "completed"
      BY <1>2
  <2>2. /\ op[t] # "write"
        /\ \A d \in deps[t] : results[d] = "completed"
        /\ \A d \in refs[t] : output[d][t] # "missing"
      BY <2>1 DEF InputInv
  <2>3. refs[t] \subseteq deps[t] /\ refs[t] \subseteq Steps
      BY DEF PlanInv, ValidGraph, TypeOK
  <2>4. results[s] = "none"
      BY <1>2 DEF WaveInv, Ready, Remaining, Settled
  <2>5. s \notin refs[t]
      BY <2>2, <2>3, <2>4
  <2> QED BY <2>2, <2>3, <2>5, <1>2
<1>10. EffectInv'
  <2>1. effects' \subseteq effects \cup {s}
      BY DEF Agent, AgentRefused, AgentDrafts, AgentCompletes, AgentFails,
             AgentBreaksSession
  <2>2. op[s] # "write"
      BY <1>2 DEF InputInv
  <2> QED BY <1>2, <2>1, <2>2 DEF EffectInv, plan
<1>11. OfferInv'
    BY <1>2 DEF OfferInv, plan
<1> QED
    BY <1>1, <1>3, <1>5, <1>6, <1>7, <1>8, <1>9, <1>10, <1>11

LEMMA DraftLandsInv == ASSUME IInv, NEW s \in Steps, DraftLands(s) PROVE IInv'
<1> USE DEF IInv
<1>1. UNCHANGED <<plan, pc, results, output, wave, proposals, execution, committed, broken>>
      /\ effects' = effects \cup {s} /\ op[s] # "write"
    BY DEF DraftLands
<1>2. Settled' = Settled /\ Remaining' = Remaining /\ Ready' = Ready
      /\ \A t \in Steps : DependencyFailed(t)' = DependencyFailed(t)
    BY <1>1 DEF Settled, Remaining, Ready, DependencyFailed, plan
<1>3. TypeOK' /\ EffectInv'
    BY <1>1 DEF TypeOK, EffectInv, plan
<1>4. PlanInv' /\ PhaseInv' /\ ResultInv' /\ WaveInv'
    BY <1>1, <1>2 DEF PlanInv, PhaseInv, ResultInv, WaveInv, plan
<1>5. ProposalInv' /\ InputInv' /\ CauseInv' /\ FreshInv' /\ OfferInv'
    BY <1>1, <1>2 DEF ProposalInv, InputInv, CauseInv, FreshInv, OfferInv, plan
<1> QED BY <1>3, <1>4, <1>5

-----------------------------------------------------------------------------
LEMMA RecordInv == IInv /\ Record => IInv'
<1> SUFFICES ASSUME IInv, Record PROVE IInv'
    OBVIOUS
<1> USE DEF IInv
<1>1. \A s \in Steps : wave[s] \in StepStatus \cup {"none"}
    BY DEF Record, Gathered, TypeOK
<1>2. TypeOK'
    BY <1>1 DEF TypeOK, Record, NoWave, LoopOr, plan
<1>3. PlanInv' /\ EffectInv' /\ OfferInv'
    BY DEF PlanInv, EffectInv, OfferInv, Record, NoWave, plan
<1>4. \A s \in Steps : wave[s] # "none" =>
           s \in steps /\ results[s] = "none" /\ deps[s] \subseteq Settled
    BY DEF WaveInv, Ready, Remaining, Settled
<1>5. \A s \in Steps : results[s] # "none" => results'[s] = results[s]
    BY <1>4 DEF Record
<1>6. Settled \subseteq Settled'
    BY <1>5 DEF Settled, Record, plan, TypeOK
<1>7. \A s \in Steps : deps[s] \subseteq Settled =>
           DependencyFailed(s)' = DependencyFailed(s)
    BY <1>5 DEF DependencyFailed, Settled, Record, plan, TypeOK
<1>8. ResultInv'
  <2> SUFFICES ASSUME NEW s \in Steps, results'[s] # "none"
               PROVE  /\ s \in steps'
                      /\ deps'[s] \subseteq Settled'
                      /\ results'[s] = "skipped" <=> DependencyFailed(s)'
      BY DEF ResultInv
  <2>1. CASE wave[s] # "none"
    <3>1. results'[s] = wave[s]
        BY <2>1 DEF Record
    <3>2. wave[s] = "skipped" <=> DependencyFailed(s)
        BY <2>1 DEF WaveInv
    <3> QED BY <2>1, <3>1, <3>2, <1>4, <1>6, <1>7 DEF Record, plan
  <2>2. CASE wave[s] = "none"
    <3>1. results'[s] = results[s]
        BY <2>2 DEF Record
    <3> QED BY <3>1, <1>6, <1>7 DEF ResultInv, Record, plan
  <2> QED BY <2>1, <2>2
<1>9. WaveInv'
    BY DEF WaveInv, Record, NoWave
<1>10. ProposalInv'
  <2>1. pc # "raised" /\ pc' # "raised"
      BY DEF Record, Gathered, LoopOr
  <2>2. \A s \in Steps : wave'[s] = "none"
      BY DEF Record, NoWave
  <2>3. \A s \in steps : results'[s] = "awaiting_approval" <=>
           results[s] = "awaiting_approval" \/ wave[s] = "awaiting_approval"
      BY <1>4 DEF Record, TypeOK
  <2>4. proposals' = proposals /\ steps' = steps /\ steps \subseteq Steps
      BY DEF Record, plan, TypeOK
  <2> QED BY <2>1, <2>2, <2>3, <2>4 DEF ProposalInv
<1>11. InputInv'
  <2> SUFFICES ASSUME NEW s \in Steps, results'[s] = "completed"
               PROVE  /\ op[s] # "write"
                      /\ \A d \in deps[s] : results'[d] = "completed"
                      /\ \A d \in refs[s] : output[d][s] # "missing"
      BY DEF InputInv, Record, NoWave, plan
  <2>1. wave[s] = "completed" \/ results[s] = "completed"
      BY DEF Record
  <2>2. /\ op[s] # "write"
        /\ \A d \in deps[s] : results[d] = "completed"
        /\ \A d \in refs[s] : output[d][s] # "missing"
      BY <2>1 DEF InputInv
  <2>3. deps[s] \subseteq Steps
      BY DEF TypeOK
  <2> QED BY <2>2, <2>3, <1>5
<1>12. CauseInv'
  <2> SUFFICES ASSUME NEW s \in steps, results'[s] = "skipped"
               PROVE  \E t \in steps : results'[t] \in {"failed", "awaiting_approval"}
      BY DEF CauseInv, Record, plan
  <2>0. steps \subseteq Steps
      BY DEF TypeOK
  <2>1. CASE \E t \in steps : results[t] = "skipped"
      BY <2>0, <2>1, <1>5 DEF CauseInv
  <2>2. CASE ~ \E t \in steps : results[t] = "skipped"
    <3>1. wave[s] = "skipped"
        BY <2>0, <2>2 DEF Record
    <3>2. PICK d \in deps[s] : results[d] \in Unavailable
        BY <2>0, <3>1 DEF WaveInv, DependencyFailed
    <3>3. d \in steps
        BY DEF PlanInv, ValidGraph
    <3> QED BY <2>0, <2>2, <3>2, <3>3, <1>5 DEF Unavailable
  <2> QED BY <2>1, <2>2
<1>13. Remaining' = {s \in Remaining : wave[s] = "none"}
    BY <1>1, <1>4 DEF Remaining, Settled, Record, plan, TypeOK
<1>14. PhaseInv' /\ FreshInv'
    BY <1>13 DEF PhaseInv, FreshInv, Record, Gathered, LoopOr, NoWave, plan
<1> QED
    BY <1>2, <1>3, <1>8, <1>9, <1>10, <1>11, <1>12, <1>14

LEMMA SummaryType == \A S : Summary(S) \in ExecutionSummary
    BY DEF Summary, ExecutionSummary

LEMMA CommitInv == IInv /\ Commit => IInv'
<1> SUFFICES ASSUME IInv, Commit PROVE IInv'
    OBVIOUS
<1> USE DEF IInv
<1>1. TypeOK'
    BY SummaryType DEF TypeOK, Commit, plan
<1>2. /\ Settled' = Settled /\ Remaining' = Remaining /\ Ready' = Ready
      /\ \A t \in Steps : DependencyFailed(t)' = DependencyFailed(t)
    BY DEF Settled, Remaining, Ready, DependencyFailed, Commit, plan
<1>3. PlanInv' /\ CauseInv' /\ FreshInv' /\ EffectInv' /\ OfferInv'
      /\ InputInv' /\ ProposalInv'
    BY DEF PlanInv, CauseInv, FreshInv, EffectInv, OfferInv, InputInv, ProposalInv,
           Commit, plan
<1>4. ResultInv' /\ WaveInv'
    BY <1>2 DEF ResultInv, WaveInv, Commit, plan
<1>5. PhaseInv'
    BY <1>2 DEF PhaseInv, Commit, plan
<1> QED
    BY <1>1, <1>3, <1>4, <1>5

LEMMA RollbackInv ==
    ASSUME IInv, Rollback, pc \in {"scan", "gather", "finish"}
    PROVE  IInv'
<1> USE DEF IInv
<1>1. TypeOK'
    BY DEF TypeOK, PhaseInv, Rollback, plan
<1>2. /\ Settled' = Settled /\ Remaining' = Remaining /\ Ready' = Ready
      /\ \A t \in Steps : DependencyFailed(t)' = DependencyFailed(t)
    BY DEF Settled, Remaining, Ready, DependencyFailed, Rollback, plan
<1>3. PlanInv' /\ CauseInv' /\ FreshInv' /\ EffectInv' /\ OfferInv'
      /\ InputInv' /\ ProposalInv'
    BY DEF PlanInv, CauseInv, FreshInv, EffectInv, OfferInv, InputInv, ProposalInv,
           Rollback, plan
<1>4. ResultInv' /\ WaveInv'
    BY <1>2 DEF ResultInv, WaveInv, Rollback, plan
<1>5. PhaseInv'
    BY <1>2 DEF PhaseInv, Rollback, plan
<1> QED
    BY <1>1, <1>3, <1>4, <1>5

LEMMA StutterInv == IInv /\ UNCHANGED vars => IInv'
    BY DEF IInv, vars, TypeOK, PlanInv, PhaseInv, ResultInv, WaveInv,
           ProposalInv, InputInv, CauseInv, FreshInv, EffectInv, OfferInv, Settled,
           Remaining, Ready, DependencyFailed, Unavailable

(***************************************************************************)
(* The inductive invariant: every reachable state of every plan satisfies  *)
(* its parts.                                                              *)
(***************************************************************************)
THEOREM Invariance == Spec => []IInv
<1>1. Init => IInv
    BY InitInv
<1>2. IInv /\ [Next]_vars => IInv'
  <2> SUFFICES ASSUME IInv, [Next]_vars PROVE IInv'
      OBVIOUS
  <2>1. CASE Begin
      BY <2>1, BeginInv
  <2>2. CASE Scan
      BY <2>2, ScanInv
  <2>3. CASE Record
      BY <2>3, RecordInv
  <2>4. CASE Commit
      BY <2>4, CommitInv
  <2>5. CASE FlushFails
      BY <2>5, RollbackInv DEF FlushFails, Gathered
  <2>6. CASE Crash
      BY <2>6, RollbackInv DEF Crash
  <2>7. CASE \E s \in Steps : Agent(s)
      BY <2>7, AgentInv
  <2>8. CASE \E s \in Steps : DraftLands(s)
      BY <2>8, DraftLandsInv
  <2>9. CASE UNCHANGED vars
      BY <2>9, StutterInv
  <2> QED BY <2>1, <2>2, <2>3, <2>4, <2>5, <2>6, <2>7, <2>8, <2>9 DEF Next, Executes
<1> QED
    BY <1>1, <1>2, PTL DEF Spec
-----------------------------------------------------------------------------
(***************************************************************************)
(* Every variable keeps its type.                                          *)
(***************************************************************************)
THEOREM TypeCorrect == Spec => []TypeOK
<1>1. IInv => TypeOK
    BY DEF IInv
<1> QED
    BY <1>1, Invariance, PTL

(***************************************************************************)
(* A step is skipped exactly when a dependency did not complete (DESIGN.md *)
(* F), for plans of any size.                                              *)
(***************************************************************************)
THEOREM SkipsAreJustified == Spec => []SkippedByDependency
<1>1. IInv => SkippedByDependency
  <2> SUFFICES ASSUME IInv, NEW s \in Settled
               PROVE  results[s] = "skipped" <=>
                          \E d \in deps[s] : results[d] # "completed"
      BY DEF SkippedByDependency
  <2>1. s \in Steps /\ results[s] # "none"
      BY DEF Settled, IInv, TypeOK
  <2>2. deps[s] \subseteq Settled /\ (results[s] = "skipped" <=> DependencyFailed(s))
      BY <2>1 DEF IInv, ResultInv
  <2>3. \A d \in deps[s] : results[d] # "completed" <=> results[d] \in Unavailable
      BY <2>2 DEF Settled, IInv, TypeOK, StepStatus, Unavailable
  <2> QED BY <2>2, <2>3 DEF DependencyFailed
<1> QED
    BY <1>1, Invariance, PTL

(***************************************************************************)
(* The RuntimeError for a plan with no runnable step is dead code: the     *)
(* graph check makes sure of it.                                           *)
(***************************************************************************)
THEOREM AlwaysARunnableStep == Spec => []NeverStuck
<1>1. IInv => NeverStuck
    BY SomeStepIsReady DEF IInv, PhaseInv, NeverStuck
<1> QED
    BY <1>1, Invariance, PTL

(***************************************************************************)
(* Agents run only when all their dependencies completed and all their     *)
(* references were found.                                                  *)
(***************************************************************************)
THEOREM RunsOnExistingInputs == Spec => []InputsExist
<1>1. IInv => InputsExist
    BY DEF IInv, InputInv, InputsExist
<1> QED
    BY <1>1, Invariance, PTL

(***************************************************************************)
(* A completed execution has no failed, pending or skipped step.           *)
(***************************************************************************)
THEOREM CompletionIsTotal == Spec => []CompletedMeansAll
<1>1. IInv => CompletedMeansAll
  <2> SUFFICES ASSUME IInv, execution = "completed", NEW s \in steps
               PROVE  results[s] = "completed"
      BY DEF CompletedMeansAll
  <2>1. pc = "done"
      BY DEF IInv, TypeOK, PhaseInv
  <2>2. Summary({results[t] : t \in steps}) = "completed"
      BY <2>1 DEF IInv, PhaseInv
  <2>3. \A t \in steps : results[t] \notin {"failed", "awaiting_approval"}
      BY <2>2 DEF Summary
  <2>4. results[s] # "skipped"
      BY <2>3 DEF IInv, CauseInv
  <2>5. results[s] # "none"
      BY <2>1 DEF IInv, PhaseInv, Remaining, Settled
  <2>6. results[s] \in StepStatus \cup {"none"}
      BY DEF IInv, TypeOK
  <2> QED BY <2>3, <2>4, <2>5, <2>6 DEF StepStatus
<1> QED
    BY <1>1, Invariance, PTL

(***************************************************************************)
(* A commit is whole: every step has its row, every pending step its       *)
(* approval, and a rolled back execution leaves neither.                   *)
(***************************************************************************)
THEOREM CommitIsWhole == Spec => []CommittedWhole
<1>1. IInv => CommittedWhole
  <2> SUFFICES ASSUME IInv PROVE CommittedWhole
      OBVIOUS
  <2>1. CASE committed
    <3>1. pc = "done" /\ Remaining = {} /\ wave = NoWave
        BY <2>1 DEF IInv, PhaseInv
    <3>2. execution = Summary({results[s] : s \in steps})
        BY <3>1 DEF IInv, PhaseInv
    <3>3. proposals = {s \in steps : results[s] = "awaiting_approval"}
        BY <3>1 DEF IInv, ProposalInv, NoWave, TypeOK
    <3> QED BY <2>1, <3>1, <3>2, <3>3 DEF CommittedWhole
  <2>2. CASE ~ committed
      BY <2>2 DEF IInv, PhaseInv, ProposalInv, CommittedWhole
  <2> QED BY <2>1, <2>2 DEF IInv, TypeOK
<1> QED
    BY <1>1, Invariance, PTL

(***************************************************************************)
(* The hand-over: whatever plan was executed, the rows that execute()      *)
(* commits are those the approval endpoints of Approvals start from.       *)
(***************************************************************************)
THEOREM ApprovalsAreHandedOver ==
    Spec => [](committed /\ proposals # {} =>
                   PendingRows(proposals, [s \in proposals |-> results[s]],
                               {results[s] : s \in steps \ proposals}, execution))
<1>1. TypeOK /\ CommittedWhole =>
         (committed /\ proposals # {} =>
              PendingRows(proposals, [s \in proposals |-> results[s]],
                          {results[s] : s \in steps \ proposals}, execution))
  <2> SUFFICES ASSUME TypeOK, CommittedWhole, committed, proposals # {}
               PROVE  PendingRows(proposals, [s \in proposals |-> results[s]],
                                  {results[s] : s \in steps \ proposals}, execution)
      OBVIOUS
  <2> DEFINE others == {results[s] : s \in steps \ proposals}
  <2>1. /\ \A s \in steps : results[s] \in StepStatus
        /\ proposals = {s \in steps : results[s] = "awaiting_approval"}
        /\ execution = Summary({results[s] : s \in steps})
      BY DEF CommittedWhole, Remaining, Settled, TypeOK
  <2>2. others \in SUBSET {"completed", "failed", "skipped"}
      BY <2>1 DEF StepStatus
  <2>3. {results[s] : s \in steps} = others \cup {"awaiting_approval"}
      BY <2>1
  <2>4. [s \in proposals |-> results[s]] = [s \in proposals |-> "awaiting_approval"]
      BY <2>1
  <2> QED BY <2>1, <2>2, <2>3, <2>4 DEF PendingRows
<1> QED
    BY <1>1, TypeCorrect, CommitIsWhole, PTL

(***************************************************************************)
(* An operation behind the approval gate is never run by a query.          *)
(***************************************************************************)
THEOREM GateHolds == Spec => []GatedNeverRuns
<1>1. IInv => GatedNeverRuns
    BY DEF IInv, InputInv, EffectInv, GatedNeverRuns
<1> QED
    BY <1>1, Invariance, PTL

-----------------------------------------------------------------------------
(***************************************************************************)
(* A step of the executor is a step of the contract or leaves its outcome  *)
(* and its publication alone.                                              *)
(***************************************************************************)
LEMMA InitRefines == Init => Contract!Init
<1> SUFFICES ASSUME Init PROVE Contract!Init
    OBVIOUS
<1>1. ValidGraph(steps, deps, refs)
    BY DEF Init
<1>2. Contract!ValidGraph(steps, deps, deps)
    BY <1>1 DEF ValidGraph, Acyclic, Contract!ValidGraph, Contract!Acyclic
<1> QED
    BY <1>2 DEF Init, Contract!Init, Gated

\* Only drafts take effect, and only once their dependencies completed, late
\* ones included.
LEMMA DraftRefines ==
    ASSUME IInv, NEW s \in Steps, AgentDrafts(s) \/ DraftLands(s)
    PROVE  Contract!Apply
<1>1. /\ s \in steps /\ results[s] \in {"none", "failed"} /\ op[s] # "write"
      /\ \A d \in deps[s] : results[d] = "completed"
  <2>1. CASE AgentDrafts(s)
      BY <2>1 DEF AgentDrafts, Running, IInv, WaveInv, InputInv, Ready, Remaining, Settled
  <2>2. CASE DraftLands(s) /\ results[s] = "failed"
    <3>1. s \in steps /\ deps[s] \subseteq Settled /\ ~ DependencyFailed(s)
        BY <2>2 DEF IInv, ResultInv
    <3> QED BY <2>2, <3>1 DEF DraftLands, DependencyFailed, Settled, Unavailable, StepStatus,
                              IInv, TypeOK
  <2>3. CASE DraftLands(s) /\ results[s] # "failed"
    <3>1. wave[s] \in {"failed", "running"}
        BY <2>3 DEF DraftLands, GivenUp
    <3>2. s \in Ready /\ ~ DependencyFailed(s)
        BY <3>1 DEF IInv, WaveInv
    <3> QED BY <2>3, <3>2 DEF DraftLands, DependencyFailed, Ready, Remaining, Settled,
                              Unavailable, StepStatus, IInv, TypeOK
  <2> QED BY <2>1, <2>2, <2>3
<1>2. s \in steps \ Gated
    BY <1>1 DEF Gated, RequiresApproval
<1>3. effects' = effects \cup {s}
    BY DEF AgentDrafts, DraftLands
<1>4. \E t \in steps \ Gated :
         /\ results[t] \in {"none", "failed"}
         /\ \A d \in deps[t] : results[d] = "completed"
         /\ effects' = effects \cup {t}
    BY <1>1, <1>2, <1>3
<1> QED
    BY <1>4 DEF Contract!Apply, AgentDrafts, DraftLands, plan, Gated, RequiresApproval

LEMMA RecordRefines == IInv /\ Record => Contract!Settle
<1> SUFFICES ASSUME IInv, Record PROVE Contract!Settle
    OBVIOUS
<1> DEFINE now == {s \in Steps : wave[s] # "none"}
<1>1. now \in SUBSET (steps \ Contract!Settled)
    BY DEF IInv, WaveInv, Ready, Remaining, Settled, Contract!Settled
<1>2. \A s \in now : deps[s] \subseteq Contract!Settled
    BY DEF IInv, WaveInv, Ready, Settled, Contract!Settled
<1>3. \A s \in Steps : wave[s] \in StepStatus \cup {"none"}
    BY DEF Record, Gathered, IInv, TypeOK
<1>4. results' \in [Steps -> Contract!StepStatus \cup {"none"}]
    BY <1>3 DEF Record, IInv, TypeOK, StepStatus, Contract!StepStatus
<1>5. \A s \in Steps \ now : results'[s] = results[s]
    BY DEF Record
<1>6. \A s \in now : /\ results'[s] \in Contract!StepStatus
                     /\ results'[s] = "skipped" <=> Contract!Blocked(s)
    BY <1>3 DEF Record, IInv, WaveInv, DependencyFailed, Unavailable, StepStatus,
                Contract!StepStatus, Contract!Blocked, Contract!Unavailable
<1>7. \A s \in now : /\ s \in Gated => results'[s] # "completed"
                     /\ s \notin Gated => results'[s] # "awaiting_approval"
    BY DEF Record, IInv, InputInv, OfferInv, Gated, RequiresApproval
<1>8. pc # "done" /\ pc' # "done" /\ Gated' = Gated
    BY DEF Record, Gathered, LoopOr, Gated, RequiresApproval, plan
<1> QED
    BY <1>1, <1>2, <1>4, <1>5, <1>6, <1>7, <1>8 DEF Contract!Settle, Record, plan

LEMMA CommitRefines == IInv /\ Commit => Contract!Publish
<1> SUFFICES ASSUME IInv, Commit PROVE Contract!Publish
    OBVIOUS
<1>1. Contract!Settled = steps
    BY DEF Contract!Settled, IInv, PhaseInv, Commit, Remaining, Settled
<1>2. execution' = Contract!Summary({results[s] : s \in steps})
    BY DEF Commit, Summary, Contract!Summary
<1>3. proposals = {s \in steps : results[s] = "awaiting_approval"}
    BY DEF Commit, IInv, ProposalInv, PhaseInv, NoWave, TypeOK
<1> QED
    BY <1>1, <1>2, <1>3 DEF Contract!Publish, Commit, plan, Gated, RequiresApproval

(***************************************************************************)
(* The executor implements PlanContract: outcomes once, in dependency      *)
(* order, skips exactly where they are due, effects of ungated steps only, *)
(* and one publication that offers the pending steps for approval.         *)
(***************************************************************************)
THEOREM ExecutorImplementsContract == Spec => KeepsContract
<1>1. Init => Contract!Init
    BY InitRefines
<1>2. IInv /\ IInv' /\ [Next]_vars => [Contract!Next]_Contract!vars
  <2> SUFFICES ASSUME IInv, IInv', [Next]_vars
               PROVE  [Contract!Next]_Contract!vars
      OBVIOUS
  <2>1. CASE Record
      BY <2>1, RecordRefines DEF Contract!Next
  <2>2. CASE Commit
      BY <2>2, CommitRefines DEF Contract!Next
  <2>3. CASE \E s \in Steps : AgentDrafts(s) \/ DraftLands(s)
      BY <2>3, DraftRefines DEF Contract!Next
  <2>4. CASE \/ Begin \/ Scan \/ FlushFails \/ Crash \/ UNCHANGED vars
             \/ \E s \in Steps : \/ AgentRefused(s) \/ AgentCompletes(s)
                                 \/ AgentFails(s) \/ AgentBreaksSession(s)
    <3>1. UNCHANGED <<steps, deps, op, results, effects>>
        BY <2>4 DEF Begin, Scan, FlushFails, Crash, Rollback, AgentRefused,
                    AgentCompletes, AgentFails, AgentBreaksSession, vars, plan
    <3>2. pc = "done" /\ pc' = "done" => UNCHANGED <<execution, proposals>>
        BY <2>4 DEF Begin, Scan, FlushFails, Crash, Rollback, Gathered,
                    AgentRefused, AgentCompletes, AgentFails,
                    AgentBreaksSession, vars, plan
    <3>3. pc = "done" <=> pc' = "done"
        BY <2>4 DEF Begin, Scan, FlushFails, Crash, Rollback, Gathered, LoopOr,
                    AgentRefused, AgentCompletes, AgentFails,
                    AgentBreaksSession, vars, plan, Running
    <3>4. UNCHANGED Gated
        BY <3>1 DEF Gated, RequiresApproval
    <3> QED BY <3>1, <3>2, <3>3, <3>4 DEF Contract!vars
  <2> QED BY <2>1, <2>2, <2>3, <2>4 DEF Next, Executes, Agent
<1> QED
    BY <1>1, <1>2, Invariance, PTL DEF Spec, KeepsContract, Contract!Spec
=============================================================================
