------------------------ MODULE ProverPipelineProofs ------------------------
(***************************************************************************)
(* Machine-checked proofs about ProverPipeline, for any number of batches, *)
(* circuits, witness generators and provers.                               *)
(*                                                                         *)
(* The inductive invariant is built in layers, each proved from those      *)
(* before it:                                                              *)
(*   TypeInv    types, and what a request or a worker has in hand names a  *)
(*              row;                                                       *)
(*   JobInv     a row was taken at most once, whoever holds it took it,    *)
(*              and two workers hold different rows;                       *)
(*   ServerInv  what the gateway and the prover's tables say of a proof is *)
(*              true of the server's table and of the files.               *)
(* The refinement of ProofTask needs all three.                            *)
(***************************************************************************)
EXTENDS ProverPipeline, WellFoundedInduction, TLAPS

\* The UPDATE ... ORDER BY ... LIMIT 1 statements find a row when there is one.
LEMMA LeastExists ==
    ASSUME NEW S \in SUBSET Nat, S # {}
    PROVE  Least(S) \in S
<1>1. PICK x \in S : \A y \in S : ~ (<<y, x>> \in OpToRel(<, Nat))
  BY NatLessThanWellFounded, WFMin, Zenon
<1>2. \A y \in S : ~ (y < x)
  BY <1>1, Zenon DEF OpToRel
<1>3. \A y \in S : x <= y
  BY <1>2
<1> QED BY <1>3 DEF Least

\* The batches and rows the statements choose among are numbered.
LEMMA ChosenRows ==
    /\ ToBeProven # {} => Least(ToBeProven) \in ToBeProven
    /\ Unsent # {} => Least(Unsent) \in Unsent
    /\ QueuedInputs # {} => Least(QueuedInputs) \in QueuedInputs
    /\ BatchesWithJobs # {} =>
         /\ Least(BatchesWithJobs) \in BatchesWithJobs
         /\ Least(QueuedJobs(Least(BatchesWithJobs))) \in QueuedJobs(Least(BatchesWithJobs))
<1>1. Batches \subseteq Nat /\ Circuits \subseteq Nat
  BY PipelineAssumption DEF Batches, Circuits
<1>2. \A b : QueuedJobs(b) \subseteq Nat
  BY <1>1 DEF QueuedJobs
<1>3. BatchesWithJobs # {} => Least(BatchesWithJobs) \in BatchesWithJobs
  BY <1>1, LeastExists DEF BatchesWithJobs
<1>4. \A b \in BatchesWithJobs : Least(QueuedJobs(b)) \in QueuedJobs(b)
  BY <1>2, LeastExists DEF BatchesWithJobs
<1>5. ToBeProven # {} => Least(ToBeProven) \in ToBeProven
  BY <1>1, LeastExists DEF ToBeProven
<1>6. Unsent # {} => Least(Unsent) \in Unsent
  BY <1>1, LeastExists DEF Unsent
<1>7. QueuedInputs # {} => Least(QueuedInputs) \in QueuedInputs
  BY <1>1, LeastExists DEF QueuedInputs
<1> QED BY <1>3, <1>4, <1>5, <1>6, <1>7

Inputs == [Batches -> Row]
Jobs == [Batches -> [Circuits -> Row]]

\* The statements that change one row.
InputStatus(f, b, s) == [f EXCEPT ![b].status = s]
InputTake(f, b) == [f EXCEPT ![b] = Taken(@)]
JobStatusOf(f, b, c, s) == [f EXCEPT ![b][c].status = s]
JobTake(f, b, c) == [f EXCEPT ![b][c] = Taken(@)]

\* What taking a row does to it.
LEMMA TakenRow ==
    ASSUME NEW r \in Row
    PROVE  /\ Taken(r) \in Row
           /\ Taken(r).status = "in_progress"
           /\ Taken(r).attempts = r.attempts + 1
<1>1. r.attempts + 1 \in Nat
  BY DEF Row
<1>2. "in_progress" \in JobStatus
  BY DEF JobStatus
<1> QED BY <1>1, <1>2 DEF Row, Taken

\* What the UPDATE of one row's status does to witness_inputs_fri ...
LEMMA SetInputStatus ==
    ASSUME NEW f \in Inputs, NEW b \in Batches, NEW s \in JobStatus,
           NEW g, g = InputStatus(f, b, s)
    PROVE  /\ g \in Inputs
           /\ \A x \in Batches : /\ g[x].status = IF x = b THEN s ELSE f[x].status
                                 /\ g[x].attempts = f[x].attempts
<1>1. [f[b] EXCEPT !.status = s] \in Row
  BY DEF Row, Inputs
<1>2. g \in Inputs
  BY <1>1 DEF Inputs, InputStatus
<1>3. \A x \in Batches : /\ g[x].status = IF x = b THEN s ELSE f[x].status
                         /\ g[x].attempts = f[x].attempts
  BY DEF Row, Inputs, InputStatus
<1> QED BY <1>2, <1>3

\* ... and to prover_jobs_fri.
LEMMA SetJobStatus ==
    ASSUME NEW f \in Jobs, NEW b \in Batches, NEW c \in Circuits, NEW s \in JobStatus,
           NEW g, g = JobStatusOf(f, b, c, s)
    PROVE  /\ g \in Jobs
           /\ \A x \in Batches, y \in Circuits :
                /\ g[x][y].status = IF x = b /\ y = c THEN s ELSE f[x][y].status
                /\ g[x][y].attempts = f[x][y].attempts
<1>1. [f[b][c] EXCEPT !.status = s] \in Row
  BY DEF Row, Jobs
<1>2. [f[b] EXCEPT ![c].status = s] \in [Circuits -> Row]
  BY <1>1 DEF Jobs
<1>3. g \in Jobs
  BY <1>2 DEF Jobs, JobStatusOf
<1>4. \A x \in Batches, y \in Circuits :
         /\ g[x][y].status = IF x = b /\ y = c THEN s ELSE f[x][y].status
         /\ g[x][y].attempts = f[x][y].attempts
  BY DEF Row, Jobs, JobStatusOf
<1> QED BY <1>3, <1>4

\* Taking a row of witness_inputs_fri ...
LEMMA TakeInput ==
    ASSUME NEW f \in Inputs, NEW b \in Batches, NEW g, g = InputTake(f, b)
    PROVE  /\ g \in Inputs
           /\ \A x \in Batches :
                /\ g[x].status = IF x = b THEN "in_progress" ELSE f[x].status
                /\ g[x].attempts = IF x = b THEN f[x].attempts + 1 ELSE f[x].attempts
<1>1. /\ Taken(f[b]) \in Row
      /\ Taken(f[b]).status = "in_progress"
      /\ Taken(f[b]).attempts = f[b].attempts + 1
  BY TakenRow DEF Inputs
<1>2. g \in Inputs
  BY <1>1 DEF Inputs, InputTake
<1>3. \A x \in Batches : g[x] = IF x = b THEN Taken(f[b]) ELSE f[x]
  BY DEF Inputs, InputTake
<1> QED BY <1>1, <1>2, <1>3

\* ... and one of prover_jobs_fri.
LEMMA TakeJob ==
    ASSUME NEW f \in Jobs, NEW b \in Batches, NEW c \in Circuits,
           NEW g, g = JobTake(f, b, c)
    PROVE  /\ g \in Jobs
           /\ \A x \in Batches, y \in Circuits :
                /\ g[x][y].status = IF x = b /\ y = c THEN "in_progress" ELSE f[x][y].status
                /\ g[x][y].attempts =
                     IF x = b /\ y = c THEN f[x][y].attempts + 1 ELSE f[x][y].attempts
<1>1. /\ Taken(f[b][c]) \in Row
      /\ Taken(f[b][c]).status = "in_progress"
      /\ Taken(f[b][c]).attempts = f[b][c].attempts + 1
  BY TakenRow DEF Jobs
<1>2. [f[b] EXCEPT ![c] = Taken(@)] \in [Circuits -> Row]
  BY <1>1 DEF Jobs
<1>3. g \in Jobs
  BY <1>2 DEF Jobs, JobTake
<1>4. \A x \in Batches, y \in Circuits :
         g[x][y] = IF x = b /\ y = c THEN Taken(f[b][c]) ELSE f[x][y]
  BY DEF Jobs, JobTake
<1> QED BY <1>1, <1>3, <1>4

\* The UPDATE of every row of a batch that is there.
LEMMA SetSent ==
    ASSUME NEW b \in Batches, jobs \in Jobs, mark_proof_sent_to_server(b)
    PROVE  /\ jobs' \in Jobs
           /\ \A x \in Batches, y \in Circuits :
                /\ jobs'[x][y].status =
                     IF x = b /\ jobs[x][y].status # "none" THEN "sent_to_server"
                     ELSE jobs[x][y].status
                /\ jobs'[x][y].attempts = jobs[x][y].attempts
<1> DEFINE r(c) == IF jobs[b][c].status = "none" THEN jobs[b][c]
                   ELSE [jobs[b][c] EXCEPT !.status = "sent_to_server"]
<1>1. "sent_to_server" \in JobStatus
  BY DEF JobStatus
<1>2. \A c \in Circuits :
         /\ r(c) \in Row
         /\ r(c).status = IF jobs[b][c].status # "none" THEN "sent_to_server"
                          ELSE jobs[b][c].status
         /\ r(c).attempts = jobs[b][c].attempts
  BY <1>1 DEF Row, Jobs
<1>3. jobs' = [jobs EXCEPT ![b] = [c \in Circuits |-> r(c)]]
  BY DEF mark_proof_sent_to_server
<1> HIDE DEF r
<1>4. [c \in Circuits |-> r(c)] \in [Circuits -> Row]
  BY <1>2
<1>5. jobs' \in Jobs
  BY <1>3, <1>4 DEF Jobs
<1>6. \A x \in Batches, y \in Circuits : jobs'[x][y] = IF x = b THEN r(y) ELSE jobs[x][y]
  BY <1>3 DEF Jobs
<1> QED BY <1>2, <1>5, <1>6

\* A batch that is not to be proved after all.
LEMMA SetSkipped ==
    ASSUME NEW b \in Batches, jobs \in Jobs, SkipProverJobs(b)
    PROVE  /\ jobs' \in Jobs
           /\ \A x \in Batches, y \in Circuits :
                /\ jobs'[x][y].status = IF x = b THEN "skipped" ELSE jobs[x][y].status
                /\ jobs'[x][y].attempts = jobs[x][y].attempts
<1> DEFINE r(c) == [jobs[b][c] EXCEPT !.status = "skipped"]
<1>1. "skipped" \in JobStatus
  BY DEF JobStatus
<1>2. \A c \in Circuits : /\ r(c) \in Row
                          /\ r(c).status = "skipped"
                          /\ r(c).attempts = jobs[b][c].attempts
  BY <1>1 DEF Row, Jobs
<1>3. jobs' = [jobs EXCEPT ![b] = [c \in Circuits |-> r(c)]]
  BY DEF SkipProverJobs
<1> HIDE DEF r
<1>4. [c \in Circuits |-> r(c)] \in [Circuits -> Row]
  BY <1>2
<1>5. jobs' \in Jobs
  BY <1>3, <1>4 DEF Jobs
<1>6. \A x \in Batches, y \in Circuits : jobs'[x][y] = IF x = b THEN r(y) ELSE jobs[x][y]
  BY <1>3 DEF Jobs
<1> QED BY <1>2, <1>5, <1>6

\* What the submitter does with the row it reads: it sends a proof that exists,
\* it reports a row that is marked as skipped, or it panics.
LEMMA SubmittedRow ==
    ASSUME NextSubmitProofRequest
    PROVE  /\ \/ submit' = Idle
              \/ submit' = At("proof", Least(Unsent)) /\ Least(Unsent) \in proofs
              \/ /\ submit' = At("no_proof", Least(Unsent))
                 /\ \E c \in Circuits : jobs[Least(Unsent)][c].status = "skipped"
           /\ fetch' = fetch \/ fetch' = Idle
           /\ panicked' = panicked \/ panicked' = TRUE
           /\ UNCHANGED <<server, blobs, tables, proofs, l1Proofs, worker, faulty>>
<1> DEFINE b == Least(Unsent)
<1>1. PICK c \in {d \in Circuits : jobs[b][d].status # "none"} :
         CASE jobs[b][c].status = "successful" /\ b \in proofs ->
                submit' = At("proof", b) /\ UNCHANGED <<fetch, panicked>>
           [] jobs[b][c].status = "skipped" ->
                submit' = At("no_proof", b) /\ UNCHANGED <<fetch, panicked>>
           [] OTHER -> submit' = Idle /\ fetch' = Idle /\ panicked' = TRUE
  BY DEF NextSubmitProofRequest
<1> HIDE DEF b
<1>2. CASE jobs[b][c].status = "successful" /\ b \in proofs
  <2>1. submit' = At("proof", b) /\ UNCHANGED <<fetch, panicked>>
    BY <1>1, <1>2
  <2> QED BY <1>2, <2>1 DEF NextSubmitProofRequest, b
<1>3. CASE jobs[b][c].status = "skipped"
  <2>1. submit' = At("no_proof", b) /\ UNCHANGED <<fetch, panicked>>
    BY <1>1, <1>3
  <2> QED BY <1>3, <2>1 DEF NextSubmitProofRequest, b
<1>4. CASE ~(jobs[b][c].status = "successful" /\ b \in proofs) /\ jobs[b][c].status # "skipped"
  <2>1. submit' = Idle /\ fetch' = Idle /\ panicked' = TRUE
    BY <1>1, <1>4
  <2> QED BY <2>1 DEF NextSubmitProofRequest, b
<1> QED BY <1>2, <1>3, <1>4

-----------------------------------------------------------------------------
(***************************************************************************)
(* Types.  TypeOK alone is not inductive: that a statement hits a row, and *)
(* that a batch is not late before it was handed out, depend on what the   *)
(* requests in flight and the workers have in hand.                        *)
(***************************************************************************)
LateWasTaken == \A b \in late : details[b] # "none"

RequestsHold ==
    /\ fetch.at \in {"picked", "answered", "writing"} => fetch.batch \in Batches
    /\ submit.at # "idle" => submit.batch \in Batches

WorkersHold ==
    /\ \A w \in Workers : worker[w].at \in {"down", "idle"} <=> worker[w].batch = 0
    /\ \A g \in Generators : worker[g].circuit = 0
    /\ \A p \in Provers : worker[p].batch # 0 => worker[p].circuit \in Circuits

TypeInv == TypeOK /\ LateWasTaken /\ RequestsHold /\ WorkersHold

\* The values the handlers put into requests and workers.
LEMMA ValueTypes ==
    /\ Idle \in WorkerState /\ Idle.at = "idle" /\ Idle.batch = 0 /\ Idle.circuit = 0
    /\ Down \in WorkerState /\ Down.at = "down" /\ Down.batch = 0 /\ Down.circuit = 0
    /\ \A b \in Batches : b # 0 /\ b \in 0 .. NumBatches
    /\ \A c \in Circuits : c # 0 /\ c \in 0 .. NumCircuits
    /\ \A x \in 0 .. NumBatches : x # 0 => x \in Batches
    /\ \A P, q, b : /\ At(q, b).at = q /\ At(q, b).batch = b /\ At(q, b).circuit = 0
                    /\ q \in P /\ b \in 0 .. NumBatches => At(q, b) \in Clients(P)
    /\ \A P : "idle" \in P => Idle \in Clients(P)
BY PipelineAssumption DEF Idle, Down, At, WorkerState, Clients, Batches, Circuits

\* What a process has in hand when it works.
LEMMA HeldRow ==
    ASSUME TypeOK, WorkersHold
    PROVE  /\ \A g \in Generators : worker[g].at \in {"reading", "working"} =>
                 worker[g].batch \in Batches
           /\ \A p \in Provers : worker[p].at \in {"working", "proved"} =>
                 worker[p].batch \in Batches /\ worker[p].circuit \in Circuits
<1>1. \A w \in Workers : worker[w].batch \in 0 .. NumBatches
  BY DEF TypeOK, WorkerState
<1>2. \A w \in Workers : worker[w].at \in {"reading", "working", "proved"} =>
         worker[w].batch # 0 /\ worker[w].batch \in Batches
  BY <1>1, ValueTypes DEF WorkersHold
<1> QED BY <1>2 DEF WorkersHold, Workers

\* An update of one worker.
LEMMA SetWorker ==
    ASSUME TypeOK, WorkersHold, NEW w \in Workers, NEW v \in WorkerState,
           worker' = [worker EXCEPT ![w] = v],
           v.at \in {"down", "idle"} <=> v.batch = 0,
           w \in Generators => v.circuit = 0,
           w \in Provers => (v.batch # 0 => v.circuit \in Circuits)
    PROVE  worker' \in [Workers -> WorkerState] /\ WorkersHold'
<1>1. worker' \in [Workers -> WorkerState]
  BY DEF TypeOK
<1>2. \A x \in Workers : worker'[x] = IF x = w THEN v ELSE worker[x]
  BY DEF TypeOK
<1> QED BY <1>1, <1>2 DEF WorkersHold, Workers

(***************************************************************************)
(* What each step does to the rows of the prover's database.               *)
(***************************************************************************)
\* The INSERT ... ON CONFLICT DO NOTHING queues a batch that has no row.
LEMMA InputSaved ==
    ASSUME TypeInv, SaveProofGenData
    PROVE  /\ fetch.batch \in Batches
           /\ inputs' \in Inputs
           /\ \A x \in Batches :
                /\ inputs'[x].status =
                     IF x = fetch.batch /\ inputs[x].status = "none" THEN "queued"
                     ELSE inputs[x].status
                /\ inputs'[x].attempts = inputs[x].attempts
<1> DEFINE s == IF inputs[fetch.batch].status = "none" THEN "queued"
                ELSE inputs[fetch.batch].status
<1>1. fetch.batch \in Batches /\ inputs \in Inputs
  BY DEF SaveProofGenData, RequestsHold, TypeInv, TypeOK, Inputs
<1>2. s \in JobStatus
  BY <1>1 DEF Inputs, Row, JobStatus
<1>3. inputs' = InputStatus(inputs, fetch.batch, s)
  BY DEF SaveProofGenData, InputStatus
<1>4. /\ s = "queued" <=> inputs[fetch.batch].status \in {"none", "queued"}
      /\ s # "queued" => s = inputs[fetch.batch].status
  OBVIOUS
<1> HIDE DEF s
<1>5. /\ inputs' \in Inputs
      /\ \A x \in Batches :
           /\ inputs'[x].status = IF x = fetch.batch THEN s ELSE inputs[x].status
           /\ inputs'[x].attempts = inputs[x].attempts
  BY <1>1, <1>2, <1>3, SetInputStatus
<1> QED BY <1>1, <1>4, <1>5

\* A generator takes a row that is queued.
LEMMA InputTaken ==
    ASSUME TypeInv, NEW g \in Generators, GetNextBasicCircuitWitnessJob(g)
    PROVE  \E b \in Batches :
             /\ inputs[b].status = "queued"
             /\ inputs' \in Inputs
             /\ \A x \in Batches :
                  /\ inputs'[x].status = IF x = b THEN "in_progress" ELSE inputs[x].status
                  /\ inputs'[x].attempts =
                       IF x = b THEN inputs[x].attempts + 1 ELSE inputs[x].attempts
             /\ worker' = [worker EXCEPT ![g] = At("reading", b)]
             /\ UNCHANGED <<jobs, proofs>>
<1> DEFINE b == Least(QueuedInputs)
<1>1. /\ b \in Batches /\ inputs[b].status = "queued"
      /\ inputs' = InputTake(inputs, b)
      /\ worker' = [worker EXCEPT ![g] = At("reading", b)]
      /\ UNCHANGED <<jobs, proofs>>
  BY ChosenRows DEF GetNextBasicCircuitWitnessJob, QueuedInputs, InputTake
<1>2. inputs \in Inputs
  BY DEF TypeInv, TypeOK, Inputs
<1> HIDE DEF b
<1>3. /\ inputs' \in Inputs
      /\ \A x \in Batches :
           /\ inputs'[x].status = IF x = b THEN "in_progress" ELSE inputs[x].status
           /\ inputs'[x].attempts = IF x = b THEN inputs[x].attempts + 1 ELSE inputs[x].attempts
  BY <1>1, <1>2, TakeInput
<1> QED BY <1>1, <1>3

\* How a job of a witness generator ends.
InputOutcome == {"successful", "skipped", "failed"}

\* A generator ends its job: the row it took gets the outcome.
LEMMA InputEnded ==
    ASSUME TypeInv, NEW g \in Generators,
           UpdateDatabase(g) \/ MarkWitnessJob(g) \/ MarkWitnessJobFailed(g)
    PROVE  /\ worker[g].at = "working" /\ worker[g].batch \in Batches
           /\ inputs' \in Inputs
           /\ \E s \in InputOutcome : \A x \in Batches :
                /\ inputs'[x].status = IF x = worker[g].batch THEN s ELSE inputs[x].status
                /\ inputs'[x].attempts = inputs[x].attempts
           /\ worker' = [worker EXCEPT ![g] = Idle]
           /\ UNCHANGED <<jobs, proofs>>
<1>1. PICK s \in InputOutcome : inputs' = InputStatus(inputs, worker[g].batch, s)
  BY DEF UpdateDatabase, MarkWitnessJob, MarkWitnessJobFailed, mark_witness_job,
         mark_witness_job_as_successful, mark_witness_job_failed, InputOutcome,
         InputStatus
<1>2. /\ worker[g].at = "working"
      /\ worker' = [worker EXCEPT ![g] = Idle]
      /\ UNCHANGED <<jobs, proofs>>
  BY DEF UpdateDatabase, MarkWitnessJob, MarkWitnessJobFailed
<1>3. worker[g].batch \in Batches /\ inputs \in Inputs /\ s \in JobStatus
  BY <1>2, HeldRow DEF TypeInv, TypeOK, Inputs, JobStatus, InputOutcome
<1>4. /\ inputs' \in Inputs
      /\ \A x \in Batches :
           /\ inputs'[x].status = IF x = worker[g].batch THEN s ELSE inputs[x].status
           /\ inputs'[x].attempts = inputs[x].attempts
  BY <1>1, <1>3, SetInputStatus
<1> QED BY <1>2, <1>3, <1>4

\* A prover takes a row that is queued.
LEMMA JobTaken ==
    ASSUME TypeInv, NEW p \in Provers, GetNextJob(p)
    PROVE  \E b \in Batches, c \in Circuits :
             /\ jobs[b][c].status = "queued"
             /\ jobs' \in Jobs
             /\ \A x \in Batches, y \in Circuits :
                  /\ jobs'[x][y].status =
                       IF x = b /\ y = c THEN "in_progress" ELSE jobs[x][y].status
                  /\ jobs'[x][y].attempts =
                       IF x = b /\ y = c THEN jobs[x][y].attempts + 1 ELSE jobs[x][y].attempts
             /\ worker' = [worker EXCEPT ![p] = [at |-> "working", batch |-> b, circuit |-> c]]
             /\ UNCHANGED <<inputs, proofs>>
<1> DEFINE b == Least(BatchesWithJobs)
           c == Least(QueuedJobs(b))
<1>1. b \in BatchesWithJobs /\ c \in QueuedJobs(b)
  BY ChosenRows DEF GetNextJob
<1>2. /\ jobs' = JobTake(jobs, b, c)
      /\ worker' = [worker EXCEPT ![p] = [at |-> "working", batch |-> b, circuit |-> c]]
      /\ UNCHANGED <<inputs, proofs>>
  BY DEF GetNextJob, JobTake
<1> HIDE DEF b, c
<1>3. b \in Batches /\ c \in Circuits /\ jobs[b][c].status = "queued" /\ jobs \in Jobs
  BY <1>1 DEF BatchesWithJobs, QueuedJobs, TypeInv, TypeOK, Jobs
<1>4. /\ jobs' \in Jobs
      /\ \A x \in Batches, y \in Circuits :
           /\ jobs'[x][y].status = IF x = b /\ y = c THEN "in_progress" ELSE jobs[x][y].status
           /\ jobs'[x][y].attempts =
                IF x = b /\ y = c THEN jobs[x][y].attempts + 1 ELSE jobs[x][y].attempts
  BY <1>2, <1>3, TakeJob
<1> QED BY <1>2, <1>3, <1>4

\* A prover ends its job: the row it took gets the outcome.
LEMMA JobEnded ==
    ASSUME TypeInv, NEW p \in Provers, SaveProof(p) \/ SaveProofError(p)
    PROVE  /\ worker[p].batch \in Batches /\ worker[p].circuit \in Circuits
           /\ jobs' \in Jobs
           /\ \E s \in {"successful", "failed"} : \A x \in Batches, y \in Circuits :
                /\ jobs'[x][y].status =
                     IF x = worker[p].batch /\ y = worker[p].circuit THEN s
                     ELSE jobs[x][y].status
                /\ jobs'[x][y].attempts = jobs[x][y].attempts
           /\ worker' = [worker EXCEPT ![p] = Idle]
           /\ UNCHANGED <<inputs, proofs>>
<1>1. PICK s \in {"successful", "failed"} :
         jobs' = JobStatusOf(jobs, worker[p].batch, worker[p].circuit, s)
  BY DEF SaveProof, SaveProofError, save_proof, save_proof_error, JobStatusOf
<1>2. /\ worker[p].at \in {"working", "proved"}
      /\ worker' = [worker EXCEPT ![p] = Idle]
      /\ UNCHANGED <<inputs, proofs>>
  BY DEF SaveProof, SaveProofError
<1>3. /\ worker[p].batch \in Batches /\ worker[p].circuit \in Circuits
      /\ jobs \in Jobs /\ s \in JobStatus
  BY <1>2, HeldRow DEF TypeInv, TypeOK, Jobs, JobStatus
<1>4. /\ jobs' \in Jobs
      /\ \A x \in Batches, y \in Circuits :
           /\ jobs'[x][y].status = IF x = worker[p].batch /\ y = worker[p].circuit THEN s
                                   ELSE jobs[x][y].status
           /\ jobs'[x][y].attempts = jobs[x][y].attempts
  BY <1>1, <1>3, SetJobStatus
<1> QED BY <1>2, <1>3, <1>4

\* A job is inserted for a batch that has its witness.
LEMMA JobInserted ==
    ASSUME TypeInv, NEW b \in Batches, NEW c \in Circuits, InsertProverJob(b, c)
    PROVE  /\ inputs[b].status = "successful" /\ jobs[b][c].status = "none"
           /\ jobs' \in Jobs
           /\ \A x \in Batches, y \in Circuits :
                /\ jobs'[x][y].status = IF x = b /\ y = c THEN "queued" ELSE jobs[x][y].status
                /\ jobs'[x][y].attempts = jobs[x][y].attempts
           /\ UNCHANGED <<inputs, proofs, worker>>
<1>1. "queued" \in JobStatus /\ jobs \in Jobs
  BY DEF JobStatus, Jobs, TypeInv, TypeOK
<1>2. jobs' = JobStatusOf(jobs, b, c, "queued")
  BY DEF InsertProverJob, JobStatusOf
<1>3. /\ jobs' \in Jobs
      /\ \A x \in Batches, y \in Circuits :
           /\ jobs'[x][y].status = IF x = b /\ y = c THEN "queued" ELSE jobs[x][y].status
           /\ jobs'[x][y].attempts = jobs[x][y].attempts
  BY <1>1, <1>2, SetJobStatus
<1> QED BY <1>3 DEF InsertProverJob

\* The steps of the server keep the types.
LEMMA ServerType == TypeInv /\ Server => TypeInv'
<1> SUFFICES ASSUME TypeInv, Server PROVE TypeInv'
  OBVIOUS
<1> USE DEF TypeInv
<1>1. ASSUME NEW b \in Batches, EnterBatch(b) PROVE TypeInv'
  <2>1. details' \in [Batches -> DetailStatus] /\ blobs' \in [Batches -> {"none", "torn", "whole"}]
    BY <1>1 DEF TypeOK, EnterBatch, put_raw, DetailStatus
  <2>2. late' \subseteq {x \in Batches : details'[x] # "ready_to_be_proven"} /\ LateWasTaken'
    BY <1>1 DEF TypeOK, EnterBatch, LateWasTaken
  <2> QED BY <1>1, <2>1, <2>2 DEF TypeOK, EnterBatch, tables, flags, RequestsHold, WorkersHold
<1>2. ASSUME NEW b \in Batches, TimeOut(b) PROVE TypeInv'
  BY <1>2 DEF TypeOK, TimeOut, LateWasTaken, tables, flags, RequestsHold, WorkersHold
<1>3. CASE GetNextBlockToBeProven
  <2> DEFINE b == Least(ToBeProven)
  <2>1. /\ b \in Batches
        /\ details' = [details EXCEPT ![b] = "picked_by_prover"]
        /\ late' = late \ {b}
        /\ fetch' = At("picked", b)
    BY <1>3, ChosenRows DEF GetNextBlockToBeProven, ToBeProven
  <2> HIDE DEF b
  <2>2. details' \in [Batches -> DetailStatus]
    BY <2>1 DEF TypeOK, DetailStatus
  <2>3. late' \subseteq {x \in Batches : details'[x] # "ready_to_be_proven"} /\ LateWasTaken'
    BY <2>1 DEF TypeOK, LateWasTaken
  <2>4. fetch' \in Clients({"idle", "asked", "picked", "answered", "writing"})
    BY <2>1, ValueTypes
  <2>5. fetch'.batch \in Batches
    BY <2>1, ValueTypes
  <2> QED BY <1>3, <2>2, <2>3, <2>4, <2>5
          DEF GetNextBlockToBeProven, TypeOK, tables, flags, RequestsHold, WorkersHold
<1>4. CASE NoBlockToBeProven \/ GetProofGenerationData
  <2>1. fetch.at = "picked" => fetch.batch \in Batches
    BY DEF RequestsHold
  <2>2. \/ fetch' = Idle
        \/ fetch' = At("answered", fetch.batch) /\ fetch.batch \in Batches
    BY <1>4, <2>1 DEF NoBlockToBeProven, GetProofGenerationData
  <2>3. /\ fetch' \in Clients({"idle", "asked", "picked", "answered", "writing"})
        /\ fetch'.at = "idle" \/ fetch'.batch \in Batches
    BY <2>2, ValueTypes
  <2>4. UNCHANGED <<server, blobs, tables, proofs, l1Proofs, submit, worker, flags>>
    BY <1>4 DEF NoBlockToBeProven, GetProofGenerationData
  <2> QED BY <2>3, <2>4 DEF TypeOK, LateWasTaken, server, tables, flags, RequestsHold, WorkersHold
<1>5. CASE SubmitProof \/ SaveProofArtifactsMetadata \/ MarkProofGenerationJobAsSkipped
  <2>1. submit.batch \in Batches
    BY <1>5 DEF RequestsHold, SubmitProof, SaveProofArtifactsMetadata, MarkProofGenerationJobAsSkipped
  <2>2. \E q \in {"stored", "accepted"} : submit' = At(q, submit.batch)
    BY <1>5 DEF SubmitProof, SaveProofArtifactsMetadata, MarkProofGenerationJobAsSkipped
  <2>3. /\ submit' \in Clients({"idle", "proof", "stored", "no_proof", "accepted"})
        /\ submit'.batch \in Batches
    BY <2>1, <2>2, ValueTypes
  <2>4. /\ l1Proofs' \subseteq Batches
        /\ \/ details' = details
           \/ details' = [details EXCEPT ![submit.batch] = "generated"]
           \/ details' = [details EXCEPT ![submit.batch] = "skipped"]
        /\ UNCHANGED <<late, blobs, tables, proofs, fetch, worker, flags>>
    BY <1>5, <2>1 DEF TypeOK, server, SubmitProof, SaveProofArtifactsMetadata,
                      MarkProofGenerationJobAsSkipped
  <2>5. details' \in [Batches -> DetailStatus]
    BY <2>4 DEF TypeOK, DetailStatus, Final
  <2>6. late' \subseteq {x \in Batches : details'[x] # "ready_to_be_proven"} /\ LateWasTaken'
    BY <2>1, <2>4 DEF TypeOK, LateWasTaken
  <2> QED BY <2>3, <2>4, <2>5, <2>6 DEF TypeOK, tables, flags, RequestsHold, WorkersHold
<1> QED BY <1>1, <1>2, <1>3, <1>4, <1>5 DEF Server

\* The gateway's steps keep the types, the ones that lose a request too.
LEMMA GatewayType == TypeInv /\ Gateway => TypeInv'
<1> SUFFICES ASSUME TypeInv, Gateway PROVE TypeInv'
  OBVIOUS
<1> USE DEF TypeInv
<1>1. CASE Fetch \/ PutBlob \/ LoseFetch \/ RestartGateway
  <2>1. 0 \in 0 .. NumBatches
    BY PipelineAssumption
  <2>2. /\ \/ fetch' = Idle
           \/ fetch' = At("asked", 0)
           \/ fetch' = At("writing", fetch.batch) /\ fetch.batch \in Batches
        /\ submit' = submit \/ submit' = Idle
        /\ blobs' = blobs \/ blobs' = [blobs EXCEPT ![fetch.batch] = "torn"]
        /\ UNCHANGED <<server, tables, proofs, l1Proofs, worker, flags>>
    BY <1>1 DEF Fetch, PutBlob, LoseFetch, RestartGateway, put_raw, RequestsHold
  <2>3. /\ fetch' \in Clients({"idle", "asked", "picked", "answered", "writing"})
        /\ fetch'.at \in {"idle", "asked"} \/ fetch'.batch \in Batches
    BY <2>1, <2>2, ValueTypes
  <2>4. /\ submit' \in Clients({"idle", "proof", "stored", "no_proof", "accepted"})
        /\ submit'.at = "idle" \/ submit'.batch \in Batches
    BY <2>2, ValueTypes DEF TypeOK, RequestsHold
  <2>5. blobs' \in [Batches -> {"none", "torn", "whole"}]
    BY <2>2 DEF TypeOK
  <2> QED BY <2>2, <2>3, <2>4, <2>5
          DEF TypeOK, LateWasTaken, server, tables, flags, RequestsHold, WorkersHold
<1>2. CASE SaveProofGenData
  <2>1. inputs' \in Inputs
    BY <1>2, InputSaved
  <2>2. blobs' \in [Batches -> {"none", "torn", "whole"}]
    BY <1>2 DEF SaveProofGenData, put_raw, TypeOK
  <2>3. /\ fetch' \in Clients({"idle", "asked", "picked", "answered", "writing"})
        /\ fetch'.at = "idle"
    BY <1>2, ValueTypes DEF SaveProofGenData
  <2> QED BY <1>2, <2>1, <2>2, <2>3
          DEF SaveProofGenData, Inputs, TypeOK, LateWasTaken, server, flags, RequestsHold, WorkersHold
<1>3. CASE NextSubmitProofRequest
  <2>1. Least(Unsent) \in Batches
    BY <1>3, ChosenRows DEF NextSubmitProofRequest, Unsent
  <2>2. /\ \/ submit' = Idle
           \/ submit' = At("proof", Least(Unsent))
           \/ submit' = At("no_proof", Least(Unsent))
        /\ fetch' = fetch \/ fetch' = Idle
        /\ panicked' = panicked \/ panicked' = TRUE
        /\ UNCHANGED <<server, blobs, tables, proofs, l1Proofs, worker, faulty>>
    BY <1>3, SubmittedRow
  <2>3. /\ submit' \in Clients({"idle", "proof", "stored", "no_proof", "accepted"})
        /\ submit'.at = "idle" \/ submit'.batch \in Batches
    BY <2>1, <2>2, ValueTypes
  <2>4. /\ fetch' \in Clients({"idle", "asked", "picked", "answered", "writing"})
        /\ fetch'.at \in {"picked", "answered", "writing"} => fetch'.batch \in Batches
    BY <2>2, ValueTypes DEF TypeOK, RequestsHold
  <2> QED BY <2>2, <2>3, <2>4
          DEF TypeOK, LateWasTaken, server, tables, RequestsHold, WorkersHold
<1>4. CASE MarkProofSentToServer
  <2>1. submit.batch \in Batches
    BY <1>4 DEF MarkProofSentToServer, RequestsHold
  <2>2. jobs' \in Jobs
    BY <1>4, <2>1, SetSent DEF MarkProofSentToServer, TypeOK, Jobs
  <2>3. /\ submit' \in Clients({"idle", "proof", "stored", "no_proof", "accepted"})
        /\ submit'.at = "idle"
    BY <1>4, ValueTypes DEF MarkProofSentToServer
  <2> QED BY <1>4, <2>2, <2>3
          DEF MarkProofSentToServer, Jobs, TypeOK, LateWasTaken, server, flags, RequestsHold, WorkersHold
<1>5. CASE LoseSubmit
  <2>1. /\ submit' \in Clients({"idle", "proof", "stored", "no_proof", "accepted"})
        /\ submit'.at = "idle"
    BY <1>5, ValueTypes DEF LoseSubmit
  <2> QED BY <1>5, <2>1
          DEF LoseSubmit, TypeOK, LateWasTaken, server, tables, flags, RequestsHold, WorkersHold
<1> QED BY <1>1, <1>2, <1>3, <1>4, <1>5 DEF Gateway

\* What the steps of the workers leave alone.
LEMMA WorkFrame == Work => UNCHANGED <<server, blobs, versions, l1Proofs, fetch, submit, flags>>
BY DEF Work, StopWorker, StartGenerator, GetNextBasicCircuitWitnessJob, GetArtifacts,
       UpdateDatabase, MarkWitnessJob, MarkWitnessJobFailed, SkipProverJobs, InsertProverJob,
       StartProver, GetNextJob, PutProof, SaveProof, SaveProofError, tables

\* The workers' steps keep the types.
LEMMA WorkType == TypeInv /\ Work => TypeInv'
<1> SUFFICES ASSUME TypeInv, Work PROVE TypeInv'
  OBVIOUS
<1> DEFINE Rows == /\ inputs' \in Inputs
                   /\ jobs' \in Jobs
                   /\ proofs' \subseteq Batches
                   /\ worker' \in [Workers -> WorkerState]
                   /\ WorkersHold'
<1>1. SUFFICES Rows
  BY WorkFrame DEF TypeInv, TypeOK, Inputs, Jobs, LateWasTaken, RequestsHold, server, flags
<1>2. /\ TypeOK /\ WorkersHold /\ proofs \subseteq Batches /\ inputs \in Inputs /\ jobs \in Jobs
      /\ Generators \subseteq Workers /\ Provers \subseteq Workers
      /\ Generators \cap Provers = {}
      /\ worker \in [Workers -> WorkerState]
  BY PipelineAssumption DEF TypeInv, TypeOK, Inputs, Jobs, Workers
<1>3. ASSUME NEW w \in Workers, StopWorker(w) \/ StartGenerator(w) \/ StartProver(w)
      PROVE  Rows
  <2>1. /\ \/ worker' = [worker EXCEPT ![w] = Down]
           \/ worker' = [worker EXCEPT ![w] = Idle]
        /\ UNCHANGED <<inputs, jobs, proofs>>
    BY <1>3 DEF StopWorker, StartGenerator, StartProver, tables
  <2>2. worker' \in [Workers -> WorkerState] /\ WorkersHold'
    BY <1>2, <2>1, SetWorker, ValueTypes
  <2> QED BY <1>2, <2>1, <2>2
<1>4. ASSUME NEW g \in Generators, GetNextBasicCircuitWitnessJob(g) PROVE Rows
  <2>1. PICK b \in Batches : /\ inputs' \in Inputs
                             /\ worker' = [worker EXCEPT ![g] = At("reading", b)]
                             /\ UNCHANGED <<jobs, proofs>>
    BY <1>4, InputTaken
  <2> DEFINE v == At("reading", b)
  <2>2. v \in WorkerState /\ v.at = "reading" /\ v.batch = b /\ v.circuit = 0 /\ b # 0
    BY PipelineAssumption DEF At, WorkerState, Batches
  <2> HIDE DEF v
  <2>3. worker' \in [Workers -> WorkerState] /\ WorkersHold'
    BY <1>2, <2>1, <2>2, SetWorker DEF v
  <2> QED BY <1>2, <2>1, <2>3
<1>5. ASSUME NEW g \in Generators, GetArtifacts(g) PROVE Rows
  <2>1. worker[g].batch \in Batches
    BY <1>2, <1>5, HeldRow DEF GetArtifacts
  <2>2. /\ \/ worker' = [worker EXCEPT ![g] = At("working", worker[g].batch)]
           \/ worker' = [worker EXCEPT ![g] = Down]
        /\ UNCHANGED <<inputs, jobs, proofs>>
    BY <1>5 DEF GetArtifacts, tables
  <2>3. At("working", worker[g].batch) \in WorkerState
    BY <2>1, PipelineAssumption DEF At, WorkerState, Batches
  <2>4. worker' \in [Workers -> WorkerState] /\ WorkersHold'
    BY <1>2, <2>1, <2>2, <2>3, SetWorker, ValueTypes
  <2> QED BY <1>2, <2>2, <2>4
<1>6. ASSUME NEW g \in Generators, UpdateDatabase(g) \/ MarkWitnessJob(g) \/ MarkWitnessJobFailed(g)
      PROVE  Rows
  <2>1. /\ inputs' \in Inputs
        /\ worker' = [worker EXCEPT ![g] = Idle]
        /\ UNCHANGED <<jobs, proofs>>
    BY <1>6, InputEnded
  <2>2. worker' \in [Workers -> WorkerState] /\ WorkersHold'
    BY <1>2, <2>1, SetWorker, ValueTypes
  <2> QED BY <1>2, <2>1, <2>2
<1>7. ASSUME NEW b \in Batches, SkipProverJobs(b) PROVE Rows
  <2>1. jobs' \in Jobs
    BY <1>2, <1>7, SetSkipped
  <2> QED BY <1>2, <1>7, <2>1 DEF SkipProverJobs, WorkersHold
<1>8. ASSUME NEW b \in Batches, NEW c \in Circuits, InsertProverJob(b, c) PROVE Rows
  <2>1. jobs' \in Jobs /\ UNCHANGED <<inputs, proofs, worker>>
    BY <1>8, JobInserted
  <2> QED BY <1>2, <2>1 DEF WorkersHold
<1>9. ASSUME NEW p \in Provers, GetNextJob(p) PROVE Rows
  <2>1. PICK b \in Batches, c \in Circuits :
           /\ jobs' \in Jobs
           /\ worker' = [worker EXCEPT ![p] = [at |-> "working", batch |-> b, circuit |-> c]]
           /\ UNCHANGED <<inputs, proofs>>
    BY <1>9, JobTaken
  <2> DEFINE v == [at |-> "working", batch |-> b, circuit |-> c]
  <2>2. v \in WorkerState /\ v.at = "working" /\ v.batch = b /\ v.circuit = c /\ b # 0
    BY ValueTypes DEF WorkerState
  <2> HIDE DEF v
  <2>3. worker' \in [Workers -> WorkerState] /\ WorkersHold'
    BY <1>2, <2>1, <2>2, SetWorker DEF v
  <2> QED BY <1>2, <2>1, <2>3
<1>10. ASSUME NEW p \in Provers, PutProof(p) PROVE Rows
  <2> DEFINE v == [worker[p] EXCEPT !.at = "proved"]
  <2>1. worker[p].batch \in Batches /\ worker[p].circuit \in Circuits
    BY <1>2, <1>10, HeldRow DEF PutProof
  <2>2. /\ v \in WorkerState /\ v.at = "proved"
        /\ v.batch = worker[p].batch /\ v.circuit = worker[p].circuit
    BY <1>2 DEF WorkerState
  <2>3. /\ worker' = [worker EXCEPT ![p] = v]
        /\ proofs' = proofs \cup {worker[p].batch}
        /\ UNCHANGED <<inputs, jobs>>
    BY <1>10 DEF PutProof, tables
  <2> HIDE DEF v
  <2>4. worker' \in [Workers -> WorkerState] /\ WorkersHold'
    BY <1>2, <2>1, <2>2, <2>3, SetWorker, ValueTypes
  <2> QED BY <1>2, <2>1, <2>3, <2>4
<1>11. ASSUME NEW p \in Provers, SaveProof(p) \/ SaveProofError(p) PROVE Rows
  <2>1. /\ jobs' \in Jobs
        /\ worker' = [worker EXCEPT ![p] = Idle]
        /\ UNCHANGED <<inputs, proofs>>
    BY <1>11, JobEnded
  <2>2. worker' \in [Workers -> WorkerState] /\ WorkersHold'
    BY <1>2, <2>1, SetWorker, ValueTypes
  <2> QED BY <1>2, <2>1, <2>2
<1> HIDE DEF Rows
<1> QED BY <1>2, <1>3, <1>4, <1>5, <1>6, <1>7, <1>8, <1>9, <1>10, <1>11 DEF Work

\* The empty tables are of their types.
LEMMA InitTypeInv == Init => TypeInv
<1> SUFFICES ASSUME Init PROVE TypeInv
  OBVIOUS
<1>1. NoRow \in Row
  BY DEF NoRow, Row, JobStatus
<1>2. TypeOK
  BY <1>1, ValueTypes DEF Init, TypeOK, DetailStatus
<1>3. LateWasTaken /\ RequestsHold
  BY ValueTypes DEF Init, LateWasTaken, RequestsHold
<1>4. WorkersHold
  BY ValueTypes DEF Init, WorkersHold, Workers
<1> QED BY <1>2, <1>3, <1>4 DEF TypeInv

\* Every step keeps the types.
LEMMA TypeStep == TypeInv /\ [Next]_vars => TypeInv'
<1>1. TypeInv /\ FaultsEnd => TypeInv'
  BY DEF FaultsEnd, TypeInv, TypeOK, LateWasTaken, RequestsHold, WorkersHold, server, tables
<1>2. TypeInv /\ UNCHANGED vars => TypeInv'
  BY DEF vars, TypeInv, TypeOK, LateWasTaken, RequestsHold, WorkersHold
<1> QED BY <1>1, <1>2, ServerType, GatewayType, WorkType DEF Next

\* Whatever is lost, repeated or restarted, every row, file, request and worker
\* stays in a state the code knows.
THEOREM TypeCorrect == Spec => []TypeOK
<1>1. TypeInv => TypeOK
  BY DEF TypeInv
<1> QED BY <1>1, InitTypeInv, TypeStep, PTL DEF Spec

-----------------------------------------------------------------------------
(***************************************************************************)
(* One worker per job.  No statement puts a row back into the queue, so a  *)
(* row is taken at most once; and whoever has a row in hand has taken it.  *)
(***************************************************************************)
TakenOnce(row) ==
    /\ row.attempts \in {0, 1}
    /\ row.status \in {"none", "queued"} => row.attempts = 0

RowsTakenOnce ==
    /\ \A b \in Batches : TakenOnce(inputs[b])
    /\ \A b \in Batches, c \in Circuits : TakenOnce(jobs[b][c])

HoldersTook ==
    /\ \A g \in Generators : worker[g].batch # 0 => inputs[worker[g].batch].attempts = 1
    /\ \A p \in Provers : worker[p].batch # 0 =>
          jobs[worker[p].batch][worker[p].circuit].attempts = 1

HoldersApart ==
    \A v, w \in Workers :
      /\ worker[v].batch # 0
      /\ worker[v].batch = worker[w].batch
      /\ worker[v].circuit = worker[w].circuit
      => v = w

JobInv == RowsTakenOnce /\ HoldersTook /\ HoldersApart

\* What a worker has in hand names a row of the worker's own table.
LEMMA HolderKinds ==
    ASSUME TypeInv
    PROVE  /\ \A w \in Workers : worker[w].batch # 0 => worker[w].batch \in Batches
           /\ \A w \in Workers : worker[w].batch # 0 =>
                (w \in Generators <=> worker[w].circuit = 0)
           /\ \A p \in Provers : worker[p].batch # 0 => worker[p].circuit \in Circuits
           /\ \A w \in Workers : w \in Generators \/ w \in Provers
           /\ \A w \in Workers : ~(w \in Generators /\ w \in Provers)
<1>1. \A w \in Workers : worker[w].batch \in 0 .. NumBatches
  BY DEF TypeInv, TypeOK, WorkerState
<1>2. \A w \in Workers : worker[w].batch # 0 => worker[w].batch \in Batches
  BY <1>1, ValueTypes
<1>3. \A w \in Workers : worker[w].batch # 0 =>
                (w \in Generators <=> worker[w].circuit = 0)
  BY ValueTypes, PipelineAssumption DEF TypeInv, WorkersHold, Workers
<1> QED BY <1>2, <1>3, PipelineAssumption DEF TypeInv, WorkersHold, Workers

\* A worker that starts, stops, fails or ends its job has nothing in hand; one
\* that goes on keeps what it has.
LEMMA KeepsOrDrops ==
    ASSUME TypeInv, JobInv, NEW w \in Workers,
           \A x \in Batches : inputs'[x].attempts = inputs[x].attempts,
           \A x \in Batches, y \in Circuits : jobs'[x][y].attempts = jobs[x][y].attempts,
           NEW v, worker' = [worker EXCEPT ![w] = v],
           v.batch = 0 \/ (v.batch = worker[w].batch /\ v.circuit = worker[w].circuit)
    PROVE  HoldersTook' /\ HoldersApart'
<1>1. \A x \in Workers : worker'[x] = IF x = w THEN v ELSE worker[x]
  BY DEF TypeInv, TypeOK
<1>2. \A x \in Workers : worker'[x].batch # 0 =>
         worker'[x].batch = worker[x].batch /\ worker'[x].circuit = worker[x].circuit
  BY <1>1
<1>3. HoldersTook'
  BY <1>2, HolderKinds DEF JobInv, HoldersTook, Workers
<1>4. HoldersApart'
  BY <1>2 DEF JobInv, HoldersApart
<1> QED BY <1>3, <1>4

\* Every step keeps one worker per job.
LEMMA JobStep == TypeInv /\ JobInv /\ [Next]_vars => JobInv'
<1> SUFFICES ASSUME TypeInv, JobInv, [Next]_vars PROVE JobInv'
  OBVIOUS
<1>1. CASE UNCHANGED <<inputs, jobs, worker>>
  BY <1>1 DEF JobInv, RowsTakenOnce, HoldersTook, HoldersApart
<1>2. CASE SaveProofGenData
  <2>1. RowsTakenOnce'
    BY <1>2, InputSaved DEF JobInv, RowsTakenOnce, TakenOnce, SaveProofGenData
  <2>2. HoldersTook'
    BY <1>2, InputSaved, HolderKinds DEF JobInv, HoldersTook, SaveProofGenData, Workers
  <2>3. HoldersApart'
    BY <1>2 DEF JobInv, HoldersApart, SaveProofGenData
  <2> QED BY <2>1, <2>2, <2>3 DEF JobInv
<1>3. CASE MarkProofSentToServer
  <2>1. \A x \in Batches, y \in Circuits :
           /\ jobs'[x][y].status =
                IF x = submit.batch /\ jobs[x][y].status # "none" THEN "sent_to_server"
                ELSE jobs[x][y].status
           /\ jobs'[x][y].attempts = jobs[x][y].attempts
    BY <1>3, SetSent DEF MarkProofSentToServer, TypeInv, TypeOK, RequestsHold, Jobs
  <2>2. RowsTakenOnce'
    BY <1>3, <2>1 DEF JobInv, RowsTakenOnce, TakenOnce, MarkProofSentToServer
  <2>3. HoldersTook'
    BY <1>3, <2>1, HolderKinds DEF JobInv, HoldersTook, MarkProofSentToServer, Workers
  <2>4. HoldersApart'
    BY <1>3 DEF JobInv, HoldersApart, MarkProofSentToServer
  <2> QED BY <2>2, <2>3, <2>4 DEF JobInv
<1>4. ASSUME NEW w \in Workers, StopWorker(w) \/ StartGenerator(w) \/ StartProver(w)
      PROVE  JobInv'
  <2>1. \/ worker' = [worker EXCEPT ![w] = Down]
        \/ worker' = [worker EXCEPT ![w] = Idle]
    BY <1>4 DEF StopWorker, StartGenerator, StartProver
  <2>2. UNCHANGED <<inputs, jobs>>
    BY <1>4 DEF StopWorker, StartGenerator, StartProver, tables
  <2>3. HoldersTook' /\ HoldersApart'
    BY <2>1, <2>2, KeepsOrDrops, ValueTypes
  <2> QED BY <2>2, <2>3 DEF JobInv, RowsTakenOnce
<1>5. ASSUME NEW g \in Generators, GetNextBasicCircuitWitnessJob(g) PROVE JobInv'
  <2>1. PICK b \in Batches :
           /\ inputs[b].status = "queued"
           /\ \A x \in Batches :
                /\ inputs'[x].status = IF x = b THEN "in_progress" ELSE inputs[x].status
                /\ inputs'[x].attempts =
                     IF x = b THEN inputs[x].attempts + 1 ELSE inputs[x].attempts
           /\ worker' = [worker EXCEPT ![g] = At("reading", b)]
           /\ UNCHANGED <<jobs, proofs>>
    BY <1>5, InputTaken
  <2>2. inputs[b].attempts = 0 /\ inputs'[b].attempts = 1
    BY <2>1 DEF JobInv, RowsTakenOnce, TakenOnce
  <2>3. \A x \in Workers : worker'[x] = IF x = g THEN At("reading", b) ELSE worker[x]
    BY <2>1 DEF TypeInv, TypeOK
  <2>4. /\ worker'[g].batch = b /\ worker'[g].circuit = 0
        /\ \A x \in Workers : x # g => worker'[x] = worker[x]
    BY <2>3, ValueTypes DEF Workers
  <2>5. \A x \in Workers : worker[x].batch = b => worker[x].circuit # 0
    BY <2>2, HolderKinds, ValueTypes DEF JobInv, HoldersTook
  <2>6. RowsTakenOnce'
    BY <2>1, <2>2 DEF JobInv, RowsTakenOnce, TakenOnce
  <2>7. HoldersTook'
    BY <2>1, <2>2, <2>4, HolderKinds DEF JobInv, HoldersTook, Workers
  <2>8. HoldersApart'
    BY <2>4, <2>5 DEF JobInv, HoldersApart
  <2> QED BY <2>6, <2>7, <2>8 DEF JobInv
<1>6. ASSUME NEW g \in Generators, GetArtifacts(g) PROVE JobInv'
  <2>1. \/ worker' = [worker EXCEPT ![g] = At("working", worker[g].batch)]
        \/ worker' = [worker EXCEPT ![g] = Down]
    BY <1>6 DEF GetArtifacts
  <2>2. UNCHANGED <<inputs, jobs>>
    BY <1>6 DEF GetArtifacts, tables
  <2>3. worker[g].circuit = 0 /\ g \in Workers
    BY DEF TypeInv, WorkersHold, Workers
  <2>4. HoldersTook' /\ HoldersApart'
    BY <2>1, <2>2, <2>3, KeepsOrDrops, ValueTypes
  <2> QED BY <2>2, <2>4 DEF JobInv, RowsTakenOnce
<1>7. ASSUME NEW g \in Generators, UpdateDatabase(g) \/ MarkWitnessJob(g) \/ MarkWitnessJobFailed(g)
      PROVE  JobInv'
  <2>1. PICK s \in InputOutcome : \A x \in Batches :
           /\ inputs'[x].status = IF x = worker[g].batch THEN s ELSE inputs[x].status
           /\ inputs'[x].attempts = inputs[x].attempts
    BY <1>7, InputEnded
  <2>2. worker' = [worker EXCEPT ![g] = Idle] /\ UNCHANGED jobs
    BY <1>7, InputEnded
  <2>3. RowsTakenOnce'
    BY <2>1, <2>2 DEF JobInv, RowsTakenOnce, TakenOnce, InputOutcome
  <2>4. HoldersTook' /\ HoldersApart'
    BY <2>1, <2>2, KeepsOrDrops, ValueTypes DEF Workers
  <2> QED BY <2>3, <2>4 DEF JobInv
<1>8. ASSUME NEW b \in Batches, SkipProverJobs(b) PROVE JobInv'
  <2>1. /\ \A x \in Batches, y \in Circuits :
             /\ jobs'[x][y].status = IF x = b THEN "skipped" ELSE jobs[x][y].status
             /\ jobs'[x][y].attempts = jobs[x][y].attempts
        /\ UNCHANGED <<inputs, worker>>
    BY <1>8, SetSkipped DEF SkipProverJobs, TypeInv, TypeOK, Jobs
  <2>2. RowsTakenOnce'
    BY <2>1 DEF JobInv, RowsTakenOnce, TakenOnce
  <2>3. HoldersTook' /\ HoldersApart'
    BY <2>1, HolderKinds DEF JobInv, HoldersTook, HoldersApart, Workers
  <2> QED BY <2>2, <2>3 DEF JobInv
<1>9. ASSUME NEW b \in Batches, NEW c \in Circuits, InsertProverJob(b, c) PROVE JobInv'
  <2>1. /\ jobs[b][c].status = "none"
        /\ \A x \in Batches, y \in Circuits :
             /\ jobs'[x][y].status = IF x = b /\ y = c THEN "queued" ELSE jobs[x][y].status
             /\ jobs'[x][y].attempts = jobs[x][y].attempts
        /\ UNCHANGED <<inputs, worker>>
    BY <1>9, JobInserted
  <2>2. RowsTakenOnce'
    BY <2>1 DEF JobInv, RowsTakenOnce, TakenOnce
  <2>3. HoldersTook' /\ HoldersApart'
    BY <2>1, HolderKinds DEF JobInv, HoldersTook, HoldersApart, Workers
  <2> QED BY <2>2, <2>3 DEF JobInv
<1>10. ASSUME NEW p \in Provers, GetNextJob(p) PROVE JobInv'
  <2>1. PICK b \in Batches, c \in Circuits :
           /\ jobs[b][c].status = "queued"
           /\ \A x \in Batches, y \in Circuits :
                /\ jobs'[x][y].status =
                     IF x = b /\ y = c THEN "in_progress" ELSE jobs[x][y].status
                /\ jobs'[x][y].attempts =
                     IF x = b /\ y = c THEN jobs[x][y].attempts + 1 ELSE jobs[x][y].attempts
           /\ worker' = [worker EXCEPT ![p] = [at |-> "working", batch |-> b, circuit |-> c]]
           /\ UNCHANGED <<inputs, proofs>>
    BY <1>10, JobTaken
  <2>2. jobs[b][c].attempts = 0 /\ jobs'[b][c].attempts = 1
    BY <2>1 DEF JobInv, RowsTakenOnce, TakenOnce
  <2>3. \A x \in Workers :
           worker'[x] = IF x = p THEN [at |-> "working", batch |-> b, circuit |-> c] ELSE worker[x]
    BY <2>1 DEF TypeInv, TypeOK
  <2>4. /\ worker'[p].batch = b /\ worker'[p].circuit = c
        /\ \A x \in Workers : x # p => worker'[x] = worker[x]
    BY <2>3 DEF Workers
  <2>5. \A x \in Workers : worker[x].batch = b => worker[x].circuit # c
    BY <2>2, HolderKinds, ValueTypes DEF JobInv, HoldersTook
  <2>6. RowsTakenOnce'
    BY <2>1, <2>2 DEF JobInv, RowsTakenOnce, TakenOnce
  <2>7. HoldersTook'
    BY <2>1, <2>2, <2>4, HolderKinds DEF JobInv, HoldersTook, Workers
  <2>8. HoldersApart'
    BY <2>4, <2>5 DEF JobInv, HoldersApart
  <2> QED BY <2>6, <2>7, <2>8 DEF JobInv
<1>11. ASSUME NEW p \in Provers, PutProof(p) PROVE JobInv'
  <2> DEFINE v == [worker[p] EXCEPT !.at = "proved"]
  <2>1. worker' = [worker EXCEPT ![p] = v] /\ UNCHANGED <<inputs, jobs>>
    BY <1>11 DEF PutProof, tables
  <2>2. p \in Workers /\ v.batch = worker[p].batch /\ v.circuit = worker[p].circuit
    BY DEF TypeInv, TypeOK, WorkerState, Workers
  <2> HIDE DEF v
  <2>3. HoldersTook' /\ HoldersApart'
    BY <2>1, <2>2, KeepsOrDrops
  <2> QED BY <2>1, <2>3 DEF JobInv, RowsTakenOnce
<1>12. ASSUME NEW p \in Provers, SaveProof(p) \/ SaveProofError(p) PROVE JobInv'
  <2>1. PICK s \in {"successful", "failed"} : \A x \in Batches, y \in Circuits :
           /\ jobs'[x][y].status = IF x = worker[p].batch /\ y = worker[p].circuit THEN s
                                   ELSE jobs[x][y].status
           /\ jobs'[x][y].attempts = jobs[x][y].attempts
    BY <1>12, JobEnded
  <2>2. worker' = [worker EXCEPT ![p] = Idle] /\ UNCHANGED inputs
    BY <1>12, JobEnded
  <2>3. RowsTakenOnce'
    BY <2>1, <2>2 DEF JobInv, RowsTakenOnce, TakenOnce
  <2>4. HoldersTook' /\ HoldersApart'
    BY <2>1, <2>2, KeepsOrDrops, ValueTypes DEF Workers
  <2> QED BY <2>3, <2>4 DEF JobInv
<1>13. CASE Server
  <2>1. UNCHANGED <<inputs, jobs, worker>>
    BY <1>13 DEF Server, EnterBatch, TimeOut, GetNextBlockToBeProven, NoBlockToBeProven,
         GetProofGenerationData, SubmitProof, SaveProofArtifactsMetadata,
         MarkProofGenerationJobAsSkipped, tables
  <2> QED BY <1>1, <2>1
<1>14. CASE Gateway
  <2>1. CASE \/ Fetch \/ PutBlob \/ NextSubmitProofRequest \/ LoseFetch \/ LoseSubmit
             \/ RestartGateway
    <3>1. UNCHANGED <<inputs, jobs, worker>>
      BY <2>1 DEF Fetch, PutBlob, NextSubmitProofRequest, LoseFetch, LoseSubmit, RestartGateway,
                  tables
    <3> QED BY <1>1, <3>1
  <2> QED BY <1>2, <1>3, <1>14, <2>1 DEF Gateway
<1>15. CASE Work
  BY <1>4, <1>5, <1>6, <1>7, <1>8, <1>9, <1>10, <1>11, <1>12, <1>15 DEF Work, Workers
<1>16. CASE FaultsEnd \/ UNCHANGED vars
  BY <1>1, <1>16 DEF FaultsEnd, vars, tables
<1> QED BY <1>13, <1>14, <1>15, <1>16 DEF Next

\* Nobody has anything in hand before the first job is queued.
LEMMA InitJobInv == Init => JobInv
<1> SUFFICES ASSUME Init PROVE JobInv
  OBVIOUS
<1>1. RowsTakenOnce
  BY DEF Init, RowsTakenOnce, TakenOnce, NoRow
<1>2. HoldersTook /\ HoldersApart
  BY ValueTypes DEF Init, HoldersTook, HoldersApart, Workers
<1> QED BY <1>1, <1>2 DEF JobInv

\* However often the server hands a batch out and whichever processes are killed
\* and started again, no job is worked on twice or by two processes.
THEOREM OneWorkerPerJobHolds == Spec => []OneWorkerPerJob
<1>1. JobInv => OneWorkerPerJob
  BY DEF JobInv, RowsTakenOnce, TakenOnce, HoldersApart, OneWorkerPerJob
<1> QED BY <1>1, InitTypeInv, TypeStep, InitJobInv, JobStep, PTL DEF Spec

-----------------------------------------------------------------------------
(***************************************************************************)
(* What the server may conclude.  A batch has rows at the prover only when *)
(* the server entered it; a batch that is skipped was never worked on; a   *)
(* proof exists only where a row was taken; and what a submission claims   *)
(* stays true while it is repeated, lost or half done.                     *)
(***************************************************************************)
RowsWereEntered ==
    /\ fetch.at \in {"picked", "answered", "writing"} => details[fetch.batch] # "none"
    /\ \A b \in Batches : inputs[b].status # "none" => details[b] # "none"
    /\ \A b \in Batches, c \in Circuits : jobs[b][c].status # "none" => details[b] # "none"

Untouched(b) ==
    \A c \in Circuits : jobs[b][c].status \in {"skipped", "sent_to_server"} /\ jobs[b][c].attempts = 0

SkippedWasUntouched ==
    \A b \in Batches :
      \/ \E c \in Circuits : jobs[b][c].status = "skipped"
      \/ details[b] = "skipped"
      \/ submit.at = "no_proof" /\ submit.batch = b
      => Untouched(b)

ProvedWasTaken == \A b \in proofs : \E c \in Circuits : jobs[b][c].attempts = 1

SubmittedIsTrue ==
    /\ submit.at \in {"proof", "stored"} => submit.batch \in proofs
    /\ submit.at = "stored" => submit.batch \in l1Proofs
    /\ submit.at = "accepted" => details[submit.batch] \in Final
    /\ \A b \in Batches : details[b] = "generated" => b \in proofs /\ b \in l1Proofs
    /\ \A b \in Batches, c \in Circuits :
          jobs[b][c].status = "sent_to_server" => details[b] \in Final

ServerInv == RowsWereEntered /\ SkippedWasUntouched /\ ProvedWasTaken /\ SubmittedIsTrue

\* Consequences: proved and skipped exclude each other, and a batch with a
\* proof or with rows is one the server knows.
LEMMA ProvedNotSkipped ==
    ASSUME TypeInv, JobInv, ServerInv
    PROVE  /\ \A b \in Batches : b \in proofs => ~Untouched(b) /\ details[b] \notin {"none", "skipped"}
           /\ \A b \in Batches : Untouched(b) => details[b] # "none" /\ details[b] # "generated"
<1>1. Circuits # {}
  BY PipelineAssumption DEF Circuits
<1>2. \A b \in Batches : b \in proofs => ~Untouched(b)
  BY DEF ServerInv, ProvedWasTaken, Untouched
<1>3. \A b \in Batches : b \in proofs => details[b] # "none"
  BY DEF ServerInv, ProvedWasTaken, RowsWereEntered, JobInv, RowsTakenOnce, TakenOnce
<1>4. \A b \in Batches : b \in proofs => details[b] # "skipped"
  BY <1>2 DEF ServerInv, SkippedWasUntouched
<1>5. \A b \in Batches : Untouched(b) => details[b] # "none"
  BY <1>1 DEF ServerInv, RowsWereEntered, Untouched
<1>6. \A b \in Batches : Untouched(b) => details[b] # "generated"
  BY <1>2 DEF ServerInv, SubmittedIsTrue
<1> QED BY <1>2, <1>3, <1>4, <1>5, <1>6

\* The prover's rows and proofs are not the server's to change.
LEMMA ServerFrame == Server => UNCHANGED <<tables, proofs, worker, flags>>
BY DEF Server, EnterBatch, TimeOut, GetNextBlockToBeProven, NoBlockToBeProven,
       GetProofGenerationData, SubmitProof, SaveProofArtifactsMetadata,
       MarkProofGenerationJobAsSkipped, server

\* The server's steps.
LEMMA ServerKeeps == TypeInv /\ JobInv /\ ServerInv /\ Server => ServerInv'
<1> SUFFICES ASSUME TypeInv, JobInv, ServerInv, Server PROVE ServerInv'
  OBVIOUS
<1>1. UNCHANGED <<inputs, jobs, proofs>> /\ ProvedWasTaken'
  BY ServerFrame DEF tables, ServerInv, ProvedWasTaken
<1>2. \A b : Untouched(b)' <=> Untouched(b)
  BY <1>1 DEF Untouched
<1>3. details \in [Batches -> DetailStatus]
  BY DEF TypeInv, TypeOK
<1>4. ASSUME NEW b \in Batches, EnterBatch(b) PROVE ServerInv'
  <2>1. /\ details[b] = "none" /\ UNCHANGED <<l1Proofs, fetch, submit>>
        /\ \A x \in Batches : details'[x] = IF x = b THEN "ready_to_be_proven" ELSE details[x]
    BY <1>3, <1>4 DEF EnterBatch
  <2>2. RowsWereEntered'
    BY <1>1, <2>1 DEF ServerInv, RowsWereEntered, TypeInv, RequestsHold
  <2>3. SkippedWasUntouched'
    BY <1>1, <1>2, <2>1 DEF ServerInv, SkippedWasUntouched
  <2>4. SubmittedIsTrue'
    BY <1>1, <2>1 DEF ServerInv, SubmittedIsTrue, TypeInv, RequestsHold, Final
  <2> QED BY <1>1, <2>2, <2>3, <2>4 DEF ServerInv
<1>5. CASE \/ \E b \in Batches : TimeOut(b)
           \/ NoBlockToBeProven \/ GetProofGenerationData
  <2>1. UNCHANGED <<details, l1Proofs, submit>>
    BY <1>5 DEF TimeOut, NoBlockToBeProven, GetProofGenerationData, server
  <2>2. \/ fetch' = fetch \/ fetch' = Idle
        \/ fetch.at = "picked" /\ fetch' = At("answered", fetch.batch)
    BY <1>5 DEF TimeOut, NoBlockToBeProven, GetProofGenerationData
  <2>3. RowsWereEntered'
    BY <1>1, <2>1, <2>2, ValueTypes DEF ServerInv, RowsWereEntered
  <2>4. SkippedWasUntouched'
    BY <1>1, <1>2, <2>1 DEF ServerInv, SkippedWasUntouched
  <2>5. SubmittedIsTrue'
    BY <1>1, <2>1 DEF ServerInv, SubmittedIsTrue
  <2> QED BY <1>1, <2>3, <2>4, <2>5 DEF ServerInv
<1>6. CASE GetNextBlockToBeProven
  <2> DEFINE b == Least(ToBeProven)
  <2>1. /\ b \in Batches /\ details[b] \in {"ready_to_be_proven", "picked_by_prover"}
        /\ details' = [details EXCEPT ![b] = "picked_by_prover"]
        /\ fetch' = At("picked", b) /\ UNCHANGED <<l1Proofs, submit>>
    BY <1>6, ChosenRows DEF GetNextBlockToBeProven, ToBeProven
  <2> HIDE DEF b
  <2>2. \A x \in Batches : details'[x] = IF x = b THEN "picked_by_prover" ELSE details[x]
    BY <1>3, <2>1
  <2>3. fetch'.batch = b
    BY <2>1, ValueTypes
  <2>4. RowsWereEntered'
    BY <1>1, <2>1, <2>2, <2>3 DEF ServerInv, RowsWereEntered
  <2>5. SkippedWasUntouched'
    BY <1>1, <1>2, <2>1, <2>2 DEF ServerInv, SkippedWasUntouched
  <2>6. SubmittedIsTrue'
    BY <1>1, <2>1, <2>2 DEF ServerInv, SubmittedIsTrue, TypeInv, RequestsHold, Final
  <2> QED BY <1>1, <2>4, <2>5, <2>6 DEF ServerInv
<1>7. CASE SubmitProof
  <2>1. /\ submit.at = "proof" /\ submit' = At("stored", submit.batch)
        /\ l1Proofs' = l1Proofs \cup {submit.batch}
        /\ UNCHANGED <<details, fetch>>
    BY <1>7 DEF SubmitProof, server
  <2>2. submit'.at = "stored" /\ submit'.batch = submit.batch
    BY <2>1, ValueTypes
  <2>3. RowsWereEntered'
    BY <1>1, <2>1 DEF ServerInv, RowsWereEntered
  <2>4. SkippedWasUntouched'
    BY <1>1, <1>2, <2>1, <2>2 DEF ServerInv, SkippedWasUntouched
  <2>5. SubmittedIsTrue'
    BY <1>1, <2>1, <2>2 DEF ServerInv, SubmittedIsTrue
  <2> QED BY <1>1, <2>3, <2>4, <2>5 DEF ServerInv
<1>8. CASE SaveProofArtifactsMetadata \/ MarkProofGenerationJobAsSkipped
  <2> DEFINE b == submit.batch
  <2>1. PICK f \in Final :
           /\ details' = [details EXCEPT ![b] = f]
           /\ \/ f = "generated" /\ submit.at = "stored"
              \/ f = "skipped" /\ submit.at = "no_proof"
           /\ submit' = At("accepted", b)
           /\ UNCHANGED <<l1Proofs, fetch>>
    BY <1>8 DEF SaveProofArtifactsMetadata, MarkProofGenerationJobAsSkipped, Final
  <2>2. b \in Batches /\ submit'.at = "accepted" /\ submit'.batch = b
    BY <2>1, ValueTypes DEF TypeInv, RequestsHold
  <2>3. \A x \in Batches : details'[x] = IF x = b THEN f ELSE details[x]
    BY <1>3, <2>1
  <2>4. RowsWereEntered'
    BY <1>1, <2>1, <2>3 DEF ServerInv, RowsWereEntered, Final, TypeInv, RequestsHold
  <2>5. SkippedWasUntouched'
    BY <1>1, <1>2, <2>1, <2>2, <2>3 DEF ServerInv, SkippedWasUntouched
  <2>6. SubmittedIsTrue'
    BY <1>1, <2>1, <2>2, <2>3 DEF ServerInv, SubmittedIsTrue, Final
  <2> QED BY <1>1, <2>4, <2>5, <2>6 DEF ServerInv
<1> QED BY <1>4, <1>5, <1>6, <1>7, <1>8 DEF Server

\* The gateway's steps.
LEMMA GatewayKeeps == TypeInv /\ JobInv /\ ServerInv /\ Gateway => ServerInv'
<1> SUFFICES ASSUME TypeInv, JobInv, ServerInv, Gateway PROVE ServerInv'
  OBVIOUS
<1>1. UNCHANGED <<details, proofs, l1Proofs>>
  BY DEF Gateway, Fetch, PutBlob, SaveProofGenData, NextSubmitProofRequest, MarkProofSentToServer,
         LoseFetch, LoseSubmit, RestartGateway, server
<1>2. CASE Fetch \/ PutBlob \/ LoseFetch \/ LoseSubmit \/ RestartGateway
  <2>1. /\ \/ fetch' = Idle \/ fetch' = fetch \/ fetch' = At("asked", 0)
           \/ fetch.at = "answered" /\ fetch' = At("writing", fetch.batch)
        /\ submit' = submit \/ submit' = Idle
        /\ UNCHANGED <<inputs, jobs>>
    BY <1>2 DEF Fetch, PutBlob, LoseFetch, LoseSubmit, RestartGateway, tables
  <2>2. RowsWereEntered'
    BY <1>1, <2>1, ValueTypes DEF ServerInv, RowsWereEntered
  <2>3. SkippedWasUntouched'
    BY <1>1, <2>1, ValueTypes DEF ServerInv, SkippedWasUntouched, Untouched
  <2>4. SubmittedIsTrue'
    BY <1>1, <2>1, ValueTypes DEF ServerInv, SubmittedIsTrue
  <2> QED BY <1>1, <2>1, <2>2, <2>3, <2>4 DEF ServerInv, ProvedWasTaken
<1>3. CASE SaveProofGenData
  <2>1. /\ fetch.batch \in Batches /\ fetch.at = "writing" /\ fetch' = Idle
        /\ UNCHANGED <<jobs, submit>>
        /\ \A x \in Batches : inputs'[x].status # "none" =>
              x = fetch.batch \/ inputs[x].status # "none"
    BY <1>3, InputSaved DEF SaveProofGenData
  <2>2. RowsWereEntered'
    BY <1>1, <2>1, ValueTypes DEF ServerInv, RowsWereEntered
  <2>3. SkippedWasUntouched' /\ SubmittedIsTrue' /\ ProvedWasTaken'
    BY <1>1, <2>1 DEF ServerInv, SkippedWasUntouched, Untouched, SubmittedIsTrue, ProvedWasTaken
  <2> QED BY <2>2, <2>3 DEF ServerInv
<1>4. CASE NextSubmitProofRequest
  <2> DEFINE b == Least(Unsent)
  <2>1. /\ \/ submit' = Idle
           \/ submit' = At("proof", b) /\ b \in proofs
           \/ submit' = At("no_proof", b) /\ \E c \in Circuits : jobs[b][c].status = "skipped"
        /\ fetch' = fetch \/ fetch' = Idle
        /\ UNCHANGED <<inputs, jobs>>
    BY <1>4, SubmittedRow DEF tables
  <2> HIDE DEF b
  <2>2. RowsWereEntered'
    BY <1>1, <2>1, ValueTypes DEF ServerInv, RowsWereEntered
  <2>3. SkippedWasUntouched'
    BY <1>1, <2>1, ValueTypes DEF ServerInv, SkippedWasUntouched, Untouched
  <2>4. SubmittedIsTrue'
    BY <1>1, <2>1, ValueTypes DEF ServerInv, SubmittedIsTrue
  <2> QED BY <1>1, <2>1, <2>2, <2>3, <2>4 DEF ServerInv, ProvedWasTaken
<1>5. CASE MarkProofSentToServer
  <2>1. /\ submit.at = "accepted" /\ submit' = Idle /\ submit.batch \in Batches
        /\ UNCHANGED <<inputs, fetch>>
    BY <1>5 DEF MarkProofSentToServer, TypeInv, RequestsHold
  <2>2. \A x \in Batches, y \in Circuits :
           /\ jobs'[x][y].status =
                IF x = submit.batch /\ jobs[x][y].status # "none" THEN "sent_to_server"
                ELSE jobs[x][y].status
           /\ jobs'[x][y].attempts = jobs[x][y].attempts
    BY <1>5, <2>1, SetSent DEF MarkProofSentToServer, TypeInv, TypeOK, Jobs
  <2>3. RowsWereEntered'
    BY <1>1, <2>1, <2>2 DEF ServerInv, RowsWereEntered
  <2>4. \A x \in Batches : Untouched(x) => Untouched(x)'
    BY <2>2 DEF Untouched
  <2>5. SkippedWasUntouched'
    BY <1>1, <2>1, <2>2, <2>4, ValueTypes DEF ServerInv, SkippedWasUntouched
  <2>6. SubmittedIsTrue'
    BY <1>1, <2>1, <2>2, ValueTypes DEF ServerInv, SubmittedIsTrue
  <2>7. ProvedWasTaken'
    <3>1. proofs' = proofs /\ proofs \subseteq Batches
      BY <1>1 DEF TypeInv, TypeOK
    <3>2. \A b \in proofs : \E c \in Circuits : jobs[b][c].attempts = 1
      BY DEF ServerInv, ProvedWasTaken
    <3>3. \A b \in proofs : \E c \in Circuits : jobs'[b][c].attempts = 1
      BY <2>2, <3>1, <3>2
    <3> QED BY <3>1, <3>3 DEF ProvedWasTaken
  <2> QED BY <2>3, <2>5, <2>6, <2>7 DEF ServerInv
<1> QED BY <1>2, <1>3, <1>4, <1>5 DEF Gateway

\* A proof stays a proof of a row that was taken.
LEMMA StillTaken ==
    ASSUME TypeInv, ServerInv, UNCHANGED proofs,
           \A x \in Batches, y \in Circuits :
              jobs[x][y].attempts = 1 => jobs'[x][y].attempts = 1
    PROVE  ProvedWasTaken'
BY DEF ServerInv, ProvedWasTaken, TypeInv, TypeOK

\* The workers' steps.
LEMMA WorkKeeps == TypeInv /\ JobInv /\ ServerInv /\ Work => ServerInv'
<1> SUFFICES ASSUME TypeInv, JobInv, ServerInv, Work PROVE ServerInv'
  OBVIOUS
<1>1. UNCHANGED <<details, l1Proofs, fetch, submit>>
  BY WorkFrame DEF server
<1>2. CASE UNCHANGED <<inputs, jobs, proofs>>
  BY <1>1, <1>2 DEF ServerInv, RowsWereEntered, SkippedWasUntouched, Untouched, ProvedWasTaken,
                    SubmittedIsTrue
<1>3. ASSUME NEW w \in Workers, StopWorker(w) \/ StartGenerator(w) \/ StartProver(w) \/ GetArtifacts(w)
      PROVE  ServerInv'
  BY <1>2, <1>3 DEF StopWorker, StartGenerator, StartProver, GetArtifacts, tables
<1>4. ASSUME NEW g \in Generators,
             \/ GetNextBasicCircuitWitnessJob(g)
             \/ UpdateDatabase(g) \/ MarkWitnessJob(g) \/ MarkWitnessJobFailed(g)
      PROVE  ServerInv'
  <2>1. UNCHANGED <<jobs, proofs>>
    BY <1>4, InputTaken, InputEnded
  <2>2. \A x \in Batches : inputs'[x].status # "none" => inputs[x].status # "none"
    <3>1. CASE GetNextBasicCircuitWitnessJob(g)
      BY <3>1, InputTaken
    <3>2. CASE UpdateDatabase(g) \/ MarkWitnessJob(g) \/ MarkWitnessJobFailed(g)
      <4>1. inputs[worker[g].batch].attempts = 1 /\ worker[g].batch \in Batches
        BY <3>2, InputEnded, ValueTypes DEF JobInv, HoldersTook
      <4>2. inputs[worker[g].batch].status # "none"
        BY <4>1 DEF JobInv, RowsTakenOnce, TakenOnce
      <4> QED BY <3>2, <4>2, InputEnded
    <3> QED BY <1>4, <3>1, <3>2
  <2>3. RowsWereEntered'
    BY <1>1, <2>1, <2>2 DEF ServerInv, RowsWereEntered
  <2> QED BY <1>1, <2>1, <2>3 DEF ServerInv, SkippedWasUntouched, Untouched, ProvedWasTaken,
                                  SubmittedIsTrue
<1>5. ASSUME NEW b \in Batches, SkipProverJobs(b) PROVE ServerInv'
  <2>1. /\ \A x \in Batches, y \in Circuits :
             /\ jobs'[x][y].status = IF x = b THEN "skipped" ELSE jobs[x][y].status
             /\ jobs'[x][y].attempts = jobs[x][y].attempts
        /\ \A c \in Circuits : jobs[b][c].status = "queued"
        /\ UNCHANGED <<inputs, proofs>>
    BY <1>5, SetSkipped DEF SkipProverJobs, TypeInv, TypeOK, Jobs
  <2>2. RowsWereEntered'
    <3>1. Circuits # {}
      BY PipelineAssumption DEF Circuits
    <3> QED BY <1>1, <2>1, <3>1 DEF ServerInv, RowsWereEntered
  <2>3. Untouched(b)'
    BY <2>1 DEF Untouched, JobInv, RowsTakenOnce, TakenOnce
  <2>4. \A x \in Batches : Untouched(x) => Untouched(x)'
    BY <2>1, <2>3 DEF Untouched
  <2>5. SkippedWasUntouched'
    BY <1>1, <2>1, <2>3, <2>4 DEF ServerInv, SkippedWasUntouched
  <2>6. SubmittedIsTrue'
    BY <1>1, <2>1 DEF ServerInv, SubmittedIsTrue
  <2>7. ProvedWasTaken'
    BY <2>1, StillTaken
  <2> QED BY <2>2, <2>5, <2>6, <2>7 DEF ServerInv
<1>6. ASSUME NEW b \in Batches, NEW c \in Circuits, InsertProverJob(b, c) PROVE ServerInv'
  <2>1. /\ inputs[b].status = "successful" /\ jobs[b][c].status = "none"
        /\ \A x \in Batches, y \in Circuits :
             /\ jobs'[x][y].status = IF x = b /\ y = c THEN "queued" ELSE jobs[x][y].status
             /\ jobs'[x][y].attempts = jobs[x][y].attempts
        /\ UNCHANGED <<inputs, proofs>>
    BY <1>6, JobInserted
  <2>2. RowsWereEntered'
    BY <1>1, <2>1 DEF ServerInv, RowsWereEntered
  <2>3. ~Untouched(b) /\ \A x \in Batches : x # b => (Untouched(x)' <=> Untouched(x))
    BY <2>1 DEF Untouched
  <2>4. SkippedWasUntouched'
    BY <1>1, <2>1, <2>3 DEF ServerInv, SkippedWasUntouched
  <2>5. SubmittedIsTrue'
    BY <1>1, <2>1 DEF ServerInv, SubmittedIsTrue
  <2>6. ProvedWasTaken'
    BY <2>1, StillTaken
  <2> QED BY <2>2, <2>4, <2>5, <2>6 DEF ServerInv
<1>7. ASSUME NEW p \in Provers, GetNextJob(p) PROVE ServerInv'
  <2>1. PICK b \in Batches, c \in Circuits :
           /\ jobs[b][c].status = "queued"
           /\ \A x \in Batches, y \in Circuits :
                /\ jobs'[x][y].status =
                     IF x = b /\ y = c THEN "in_progress" ELSE jobs[x][y].status
                /\ jobs'[x][y].attempts =
                     IF x = b /\ y = c THEN jobs[x][y].attempts + 1 ELSE jobs[x][y].attempts
           /\ UNCHANGED <<inputs, proofs>>
    BY <1>7, JobTaken
  <2>2. RowsWereEntered'
    BY <1>1, <2>1 DEF ServerInv, RowsWereEntered
  <2>3. ~Untouched(b) /\ \A x \in Batches : x # b => (Untouched(x)' <=> Untouched(x))
    BY <2>1 DEF Untouched
  <2>4. SkippedWasUntouched'
    BY <1>1, <2>1, <2>3 DEF ServerInv, SkippedWasUntouched
  <2>5. jobs[b][c].attempts = 0
    BY <2>1 DEF JobInv, RowsTakenOnce, TakenOnce
  <2>6. SubmittedIsTrue'
    BY <1>1, <2>1 DEF ServerInv, SubmittedIsTrue
  <2>7. \A x \in Batches, y \in Circuits :
           jobs[x][y].attempts = 1 => jobs'[x][y].attempts = 1
    BY <2>1, <2>5
  <2>8. ProvedWasTaken'
    BY <2>1, <2>7, StillTaken
  <2> QED BY <2>2, <2>4, <2>6, <2>8 DEF ServerInv
<1>8. ASSUME NEW p \in Provers, PutProof(p) PROVE ServerInv'
  <2>1. /\ proofs' = proofs \cup {worker[p].batch} /\ UNCHANGED <<inputs, jobs>>
        /\ worker[p].batch \in Batches /\ worker[p].circuit \in Circuits
    BY <1>8, HeldRow DEF PutProof, tables, TypeInv
  <2>2. jobs[worker[p].batch][worker[p].circuit].attempts = 1
    BY <2>1, ValueTypes DEF JobInv, HoldersTook
  <2>3. ProvedWasTaken'
    BY <2>1, <2>2 DEF ServerInv, ProvedWasTaken
  <2> QED BY <1>1, <2>1, <2>3 DEF ServerInv, RowsWereEntered, SkippedWasUntouched, Untouched,
                                  SubmittedIsTrue
<1>9. ASSUME NEW p \in Provers, SaveProof(p) \/ SaveProofError(p) PROVE ServerInv'
  <2> DEFINE b == worker[p].batch
             c == worker[p].circuit
  <2>1. PICK s \in {"successful", "failed"} : \A x \in Batches, y \in Circuits :
           /\ jobs'[x][y].status = IF x = b /\ y = c THEN s ELSE jobs[x][y].status
           /\ jobs'[x][y].attempts = jobs[x][y].attempts
    BY <1>9, JobEnded
  <2>2. b \in Batches /\ c \in Circuits /\ UNCHANGED <<inputs, proofs>>
    BY <1>9, JobEnded
  <2>3. jobs[b][c].attempts = 1 /\ jobs[b][c].status # "none"
    BY <2>2, ValueTypes DEF JobInv, HoldersTook, RowsTakenOnce, TakenOnce
  <2> HIDE DEF b, c
  <2>4. RowsWereEntered'
    BY <1>1, <2>1, <2>2, <2>3 DEF ServerInv, RowsWereEntered
  <2>5. ~Untouched(b) /\ \A x \in Batches : x # b => (Untouched(x)' <=> Untouched(x))
    BY <2>1, <2>2, <2>3 DEF Untouched
  <2>6. SkippedWasUntouched'
    BY <1>1, <2>1, <2>2, <2>5 DEF ServerInv, SkippedWasUntouched
  <2>7. SubmittedIsTrue'
    BY <1>1, <2>1, <2>2 DEF ServerInv, SubmittedIsTrue
  <2>8. ProvedWasTaken'
    BY <2>1, <2>2, StillTaken
  <2> QED BY <2>4, <2>6, <2>7, <2>8 DEF ServerInv
<1> QED BY <1>3, <1>4, <1>5, <1>6, <1>7, <1>8, <1>9 DEF Work, Workers

\* Every step keeps what the server may conclude.
LEMMA ServerInvariant == Spec => [](TypeInv /\ JobInv /\ ServerInv)
<1>1. Init => TypeInv /\ JobInv /\ ServerInv
  <2> SUFFICES ASSUME Init PROVE ServerInv
    BY InitTypeInv, InitJobInv
  <2> QED BY ValueTypes DEF Init, ServerInv, RowsWereEntered, SkippedWasUntouched, ProvedWasTaken,
                            SubmittedIsTrue, NoRow
<1>2. TypeInv /\ JobInv /\ ServerInv /\ [Next]_vars => (TypeInv /\ JobInv /\ ServerInv)'
  <2>1. TypeInv /\ [Next]_vars => TypeInv'
    BY TypeStep
  <2>2. TypeInv /\ JobInv /\ [Next]_vars => JobInv'
    BY JobStep
  <2>3. ServerInv /\ (FaultsEnd \/ UNCHANGED vars) => ServerInv'
    BY DEF FaultsEnd, vars, server, tables, ServerInv, RowsWereEntered, SkippedWasUntouched,
           Untouched, ProvedWasTaken, SubmittedIsTrue
  <2> QED BY <2>1, <2>2, <2>3, ServerKeeps, GatewayKeeps, WorkKeeps DEF Next
<1> QED BY <1>1, <1>2, PTL DEF Spec

\* A batch the server calls generated has its proof in the object store, and a
\* job marked as sent belongs to a batch the server has settled, however often a
\* submission fails half-way.
THEOREM SentWasReceivedHolds == Spec => []SentWasReceived
<1>1. ServerInv => SentWasReceived
  BY DEF ServerInv, SubmittedIsTrue, SentWasReceived
<1> QED BY <1>1, ServerInvariant, PTL

-----------------------------------------------------------------------------
(***************************************************************************)
(* The refinement of ProofTask.                                            *)
(***************************************************************************)
Abs(d) == CASE d = "none" -> "absent" [] d \in Final -> d [] OTHER -> "wanted"

TaskState == [b \in Batches |-> Abs(details[b])]

\* How the server's statuses appear to the abstract specification.
LEMMA AbsValues ==
    /\ Abs("none") = "absent"
    /\ Abs("generated") = "generated"
    /\ Abs("skipped") = "skipped"
    /\ Abs("ready_to_be_proven") = "wanted"
    /\ Abs("picked_by_prover") = "wanted"
    /\ \A d \in DetailStatus : d # "none" => Abs(d) # "absent"
    /\ \A d \in DetailStatus : d \notin {"none", "generated", "skipped"} => Abs(d) = "wanted"
BY DEF Abs, Final, DetailStatus

\* The promise of ProofTask: every step of the pipeline is one of its steps or
\* leaves its state alone, whatever is handed out twice, submitted twice or lost.
LEMMA StepRefines ==
    ASSUME TypeInv, JobInv, ServerInv, [Next]_vars
    PROVE  [Task!Next]_(Task!vars)
<1>1. /\ details \in [Batches -> DetailStatus]
      /\ Batches \subseteq Nat
  BY PipelineAssumption DEF TypeInv, TypeOK, Batches
<1>2. Task!vars = <<TaskState, proofs>> /\ Task!vars' = <<TaskState', proofs'>>
  BY DEF Task!vars, TaskState, Abs
<1>3. CASE UNCHANGED <<details, proofs>>
  BY <1>2, <1>3 DEF TaskState
<1>4. ASSUME NEW b \in Batches, EnterBatch(b) PROVE Task!Enter(b)
  <2>1. /\ details[b] = "none" /\ \A a \in 1 .. b - 1 : details[a] # "none"
        /\ details' = [details EXCEPT ![b] = "ready_to_be_proven"] /\ proofs' = proofs
    BY <1>4 DEF EnterBatch
  <2>2. TaskState[b] = "absent"
    BY <2>1, AbsValues DEF TaskState
  <2>3. \A a \in Batches : a < b => TaskState[a] # "absent"
    BY <1>1, <2>1, AbsValues DEF TaskState, Batches
  <2>4. TaskState' = [TaskState EXCEPT ![b] = "wanted"]
    BY <1>1, <2>1, AbsValues DEF TaskState
  <2> QED BY <2>1, <2>2, <2>3, <2>4 DEF Task!Enter, TaskState, Abs
<1>5. CASE GetNextBlockToBeProven
  <2> DEFINE b == Least(ToBeProven)
  <2>1. /\ b \in Batches /\ details[b] \in {"ready_to_be_proven", "picked_by_prover"}
        /\ details' = [details EXCEPT ![b] = "picked_by_prover"]
        /\ proofs' = proofs
    BY <1>5, ChosenRows DEF GetNextBlockToBeProven, ToBeProven
  <2> HIDE DEF b
  <2>2. TaskState' = TaskState
    BY <1>1, <2>1, AbsValues DEF TaskState
  <2> QED BY <1>2, <2>1, <2>2
<1>6. CASE SaveProofArtifactsMetadata \/ MarkProofGenerationJobAsSkipped
  <2>a. submit.batch \in Batches /\ proofs' = proofs
    BY <1>6 DEF SaveProofArtifactsMetadata, MarkProofGenerationJobAsSkipped, TypeInv, RequestsHold
  <2>1. PICK b \in Batches : b = submit.batch /\ proofs' = proofs
    BY <2>a
  <2>2. \/ /\ b \in proofs /\ details[b] \notin {"none", "skipped"}
           /\ details' = [details EXCEPT ![b] = "generated"]
        \/ /\ b \notin proofs /\ details[b] \notin {"none", "generated"}
           /\ details' = [details EXCEPT ![b] = "skipped"]
    <3>1. CASE SaveProofArtifactsMetadata
      BY <2>1, <3>1, ProvedNotSkipped DEF SaveProofArtifactsMetadata, ServerInv, SubmittedIsTrue
    <3>2. CASE MarkProofGenerationJobAsSkipped
      BY <2>1, <3>2, ProvedNotSkipped
         DEF MarkProofGenerationJobAsSkipped, ServerInv, SkippedWasUntouched
    <3> QED BY <1>6, <3>1, <3>2
  <2>3. CASE details[b] \in Final
    <3>1. details' = [details EXCEPT ![b] = details[b]]
      BY <2>2, <2>3 DEF Final
    <3>2. details' = details
      BY <1>1, <3>1
    <3> QED BY <1>3, <2>1, <3>2
  <2>4. CASE details[b] \notin Final
    <3>1. TaskState[b] = "wanted"
      BY <1>1, <2>1, <2>2, <2>4, AbsValues DEF TaskState, Final
    <3>2. \/ b \in proofs /\ TaskState' = [TaskState EXCEPT ![b] = "generated"]
          \/ b \notin proofs /\ TaskState' = [TaskState EXCEPT ![b] = "skipped"]
      BY <1>1, <2>1, <2>2, AbsValues DEF TaskState
    <3>3. Task!Settle(b)
      BY <2>1, <3>1, <3>2 DEF Task!Settle, TaskState, Abs
    <3>4. Task!Next
      BY <3>3 DEF Task!Next
    <3> QED BY <3>4
  <2> QED BY <2>3, <2>4
<1>7. ASSUME NEW p \in Provers, PutProof(p) PROVE [Task!Next]_(Task!vars)
  <2> DEFINE b == worker[p].batch
             c == worker[p].circuit
  <2>1. /\ b \in Batches /\ c \in Circuits
        /\ proofs' = proofs \cup {b} /\ details' = details
    BY <1>7, HeldRow DEF PutProof, server, TypeInv
  <2>2. jobs[b][c].attempts = 1
    BY <2>1, ValueTypes DEF JobInv, HoldersTook
  <2> HIDE DEF b, c
  <2>3. CASE b \in proofs
    BY <1>3, <2>1, <2>3
  <2>4. CASE b \notin proofs
    <3>1. details[b] # "none"
      BY <2>1, <2>2 DEF ServerInv, RowsWereEntered, JobInv, RowsTakenOnce, TakenOnce
    <3>2. details[b] # "generated"
      BY <2>1, <2>4 DEF ServerInv, SubmittedIsTrue
    <3>3. details[b] # "skipped"
      BY <2>1, <2>2 DEF ServerInv, SkippedWasUntouched, Untouched
    <3>4. TaskState[b] = "wanted" /\ TaskState' = TaskState
      BY <1>1, <2>1, <3>1, <3>2, <3>3, AbsValues DEF TaskState
    <3>5. Task!Prove(b)
      BY <2>1, <3>4 DEF Task!Prove, TaskState, Abs
    <3> QED BY <2>1, <3>5 DEF Task!Next
  <2> QED BY <2>3, <2>4
<1>8. CASE Server
  <2>1. CASE \/ \E b \in Batches : TimeOut(b)
             \/ NoBlockToBeProven \/ GetProofGenerationData \/ SubmitProof
    <3>1. UNCHANGED <<details, proofs>>
      BY <2>1 DEF TimeOut, NoBlockToBeProven, GetProofGenerationData, SubmitProof, server
    <3> QED BY <1>3, <3>1
  <2>2. ASSUME NEW b \in Batches, EnterBatch(b) PROVE [Task!Next]_(Task!vars)
    BY <1>4, <2>2 DEF Task!Next
  <2> QED BY <1>5, <1>6, <1>8, <2>1, <2>2 DEF Server
<1>9. CASE Gateway \/ FaultsEnd \/ UNCHANGED vars
  <2>1. UNCHANGED <<details, proofs>>
    BY <1>9 DEF Gateway, Fetch, PutBlob, SaveProofGenData, NextSubmitProofRequest,
                MarkProofSentToServer, LoseFetch, LoseSubmit, RestartGateway, FaultsEnd, server, vars
  <2> QED BY <1>3, <2>1
<1>10. CASE Work
  <2>1. CASE \E p \in Provers : PutProof(p)
    BY <1>7, <2>1
  <2>2. CASE ~ \E p \in Provers : PutProof(p)
    <3>1. proofs' = proofs
      BY <1>10, <2>2 DEF Work, StopWorker, StartGenerator, GetNextBasicCircuitWitnessJob, GetArtifacts,
           UpdateDatabase, MarkWitnessJob, MarkWitnessJobFailed, SkipProverJobs, InsertProverJob,
           StartProver, GetNextJob, SaveProof, SaveProofError
    <3>2. details' = details
      BY <1>10, WorkFrame DEF server
    <3> QED BY <1>3, <3>1, <3>2
  <2> QED BY <2>1, <2>2
<1> QED BY <1>8, <1>9, <1>10 DEF Next

\* The pipeline implements ProofTask: no batch is settled without a proof of it,
\* none is proved after it was settled, and a settled batch stays settled.
THEOREM Refinement == Spec => ImplementsProofTask
<1>1. Init => Task!Init
  BY AbsValues DEF Init, Task!Init, Abs
<1>2. TypeInv /\ JobInv /\ ServerInv /\ [Next]_vars => [Task!Next]_(Task!vars)
  BY StepRefines
<1> QED BY <1>1, <1>2, ServerInvariant, PTL DEF Spec, ImplementsProofTask, Task!Spec

=============================================================================
