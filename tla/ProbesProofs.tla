---------------------------- MODULE ProbesProofs -----------------------------
(* What TLAPS proves of Probes, for any boxes, images, workers and bounds. *)
EXTENDS Probes, TLAPS

-----------------------------------------------------------------------------
(* Types. *)

\* The catch of a worker keeps the types, whatever it caught.
LEMMA FailsTyped ==
    ASSUME TypeOK, NEW w \in Workers, NEW c \in Codes, Fails(w, c)
    PROVE  boxPass' \in BoxPassType /\ worker' \in [Workers -> WorkerType]
<1> DEFINE b == worker[w].box
           stop == c \in StopsBoxes
           code == [x \in Boxes |-> IF x = b THEN c
                                    ELSE IF stop /\ x \in boxPass.queue THEN "not_attempted" ELSE boxPass.code[x]]
<1>1. code \in [Boxes -> Codes \cup {"none"}]
    BY DEF TypeOK, BoxPassType, Codes
<1>2. boxPass' = [boxPass EXCEPT !.queue = IF stop THEN {} ELSE @, !.code = code]
    BY DEF Fails, TypeOK, BoxPassType
<1>3. boxPass' \in BoxPassType
    BY <1>1, <1>2 DEF TypeOK, BoxPassType
<1>4. worker' \in [Workers -> WorkerType]
    <2>1. IdleWorker \in WorkerType
        BY ProbesAssumption DEF IdleWorker, WorkerType, NoBox
    <2> QED BY <2>1 DEF Fails, TypeOK
<1> QED BY <1>3, <1>4

\* The types of idle passes and workers.
LEMMA IdleTyped ==
    NoBoxPass \in BoxPassType /\ NoImagesPass \in ImagesPassType /\ IdleWorker \in WorkerType
BY ProbesAssumption DEF NoBoxPass, BoxPassType, NoImagesPass, ImagesPassType, IdleWorker, WorkerType, NoBox, Codes

LEMMA EndsTyped ==
    ASSUME NEW C \in SUBSET Images, NEW P \in SUBSET Images, NEW f \in BOOLEAN, Ends(C, P, f)
    PROVE  imagesRow' \in RowType /\ imagesPass' \in ImagesPassType
BY IdleTyped DEF Ends, RowType

LEMMA InitTyped == Init => TypeOK
BY IdleTyped, ProbesAssumption DEF Init, TypeOK, RowType

LEMMA BoxesStepTyped == TypeOK /\ BoxesStep => TypeOK'
<1> SUFFICES ASSUME TypeOK, BoxesStep PROVE TypeOK'
    OBVIOUS
<1> USE DEF tables
<1>1. CASE StartBoxes
    BY <1>1, IdleTyped DEF StartBoxes, TypeOK, BoxPassType
<1>2. CASE BoxesSkipped
    BY <1>2, IdleTyped DEF BoxesSkipped, TypeOK
<1>3. CASE BoxesDone
    BY <1>3, IdleTyped DEF BoxesDone, TypeOK
<1>4. ASSUME NEW due \in SUBSET Boxes, BoxesSelected(due)
      PROVE  TypeOK'
    BY <1>4 DEF BoxesSelected, ImagesMode, TypeOK, BoxPassType
<1>5. ASSUME NEW w \in Workers, NEW b \in Boxes, TakeBox(w, b)
      PROVE  TypeOK'
    <2>1. [at |-> IF MayProbe THEN "out" ELSE "refused", box |-> b] \in WorkerType
        BY DEF WorkerType
    <2>2. worker' \in [Workers -> WorkerType]
        BY <1>5, <2>1 DEF TakeBox, TypeOK
    <2>3. boxPass' \in BoxPassType
        BY <1>5 DEF TakeBox, TypeOK, BoxPassType
    <2> QED BY <1>5, <2>2, <2>3 DEF TakeBox, TypeOK
<1>6. ASSUME NEW w \in Workers, NEW syft \in BOOLEAN, NEW ok \in SUBSET Images, BoxAnswers(w, syft, ok)
      PROVE  TypeOK'
    <2>1. worker[w].box \in Boxes
        BY DEF TypeOK, WorkerType
    <2>2. boxPass' \in BoxPassType
        BY <1>6, <2>1 DEF BoxAnswers, TypeOK, BoxPassType
    <2>3. worker' \in [Workers -> WorkerType]
        BY <1>6, IdleTyped DEF BoxAnswers, TypeOK
    <2> QED BY <1>6, <2>2, <2>3 DEF BoxAnswers, TypeOK
<1>7. ASSUME NEW w \in Workers, NEW c \in Codes, BoxFails(w, c)
      PROVE  TypeOK'
    BY <1>7, FailsTyped DEF BoxFails, TypeOK
<1>8. ASSUME NEW w \in Workers, BoxRefused(w)
      PROVE  TypeOK'
    <2>1. "quota" \in Codes
        BY DEF Codes
    <2> QED BY <1>8, <2>1, FailsTyped DEF BoxRefused, TypeOK
<1> QED BY <1>1, <1>2, <1>3, <1>4, <1>5, <1>6, <1>7, <1>8 DEF BoxesStep

LEMMA ImagesStepTyped == TypeOK /\ ImagesStep => TypeOK'
<1> SUFFICES ASSUME TypeOK, ImagesStep PROVE TypeOK'
    OBVIOUS
<1> USE DEF tables
<1>a. /\ imagesPass.due \subseteq Images /\ imagesPass.read \subseteq Images
      /\ imagesPass.batch \subseteq Images /\ imagesPass.failed \in BOOLEAN
    BY DEF TypeOK, ImagesPassType
<1>1. CASE StartImages
    BY <1>1, IdleTyped DEF StartImages, TypeOK, ImagesPassType
<1>2. CASE ImagesSkipped
    <2>1. Ends({}, {}, TRUE)
        BY <1>2 DEF ImagesSkipped
    <2>2. imagesRow' \in RowType /\ imagesPass' \in ImagesPassType
        BY <2>1, EndsTyped
    <2> QED BY <1>2, <2>2 DEF ImagesSkipped, TypeOK
<1>3. ASSUME NEW force \in BOOLEAN, NothingDue(force)
      PROVE  TypeOK'
    <2>1. Ends({}, {}, FALSE)
        BY <1>3 DEF NothingDue
    <2>2. imagesRow' \in RowType /\ imagesPass' \in ImagesPassType
        BY <2>1, EndsTyped
    <2> QED BY <1>3, <2>2 DEF NothingDue, TypeOK
<1>4. ASSUME NEW force \in BOOLEAN, ImagesSelected(force)
      PROVE  TypeOK'
    BY <1>4 DEF ImagesSelected, DueImages, TypeOK, ImagesPassType
<1>5. ASSUME NEW batch \in SUBSET Images, SendBatch(batch)
      PROVE  TypeOK'
    <2>1. imagesPass' \in ImagesPassType
        BY <1>5 DEF SendBatch, TypeOK, ImagesPassType
    <2> QED BY <1>5, <2>1 DEF SendBatch, TypeOK
<1>6. ASSUME NEW ok \in SUBSET Images, BatchAnswers(ok)
      PROVE  TypeOK'
    <2>1. imagesPass' \in ImagesPassType
        BY <1>6 DEF BatchAnswers, TypeOK, ImagesPassType
    <2> QED BY <1>6, <2>1 DEF BatchAnswers, TypeOK
<1>7. CASE SyftMissing
    <2>1. Ends(imagesPass.due, imagesPass.read, TRUE)
        BY <1>7 DEF SyftMissing
    <2>2. imagesRow' \in RowType /\ imagesPass' \in ImagesPassType
        BY <1>a, <2>1, EndsTyped
    <2> QED BY <1>7, <2>2 DEF SyftMissing, TypeOK
<1>8. CASE BatchFails
    BY <1>8 DEF BatchFails, TypeOK, ImagesPassType
<1>9. ASSUME NEW c \in Codes, ScannerUnusable(c)
      PROVE  TypeOK'
    <2>1. Ends(imagesPass.due, imagesPass.read, TRUE)
        BY <1>9 DEF ScannerUnusable
    <2>2. imagesRow' \in RowType /\ imagesPass' \in ImagesPassType
        BY <1>a, <2>1, EndsTyped
    <2> QED BY <1>9, <2>2 DEF ScannerUnusable, TypeOK
<1>10. CASE ImagesDone
    <2>1. Ends(imagesPass.due, imagesPass.read, imagesPass.failed)
        BY <1>10 DEF ImagesDone
    <2>2. imagesRow' \in RowType /\ imagesPass' \in ImagesPassType
        BY <1>a, <2>1, EndsTyped
    <2> QED BY <1>10, <2>2 DEF ImagesDone, TypeOK
<1> QED BY <1>1, <1>2, <1>3, <1>4, <1>5, <1>6, <1>7, <1>8, <1>9, <1>10 DEF ImagesStep

\* What the passes do not do leaves workers and the sbom pass alone, or clears them.
LEMMA RestTyped ==
    ASSUME TypeOK,
           \/ \E ok \in BOOLEAN : OtherProbe(ok)
           \/ AttemptExpires \/ ResultExpires \/ RowAges
           \/ \E i \in Images : ImageFallsDue(i)
           \/ Restart
    PROVE  TypeOK'
<1> USE DEF passes, tables
<1>1. ASSUME NEW ok \in BOOLEAN, OtherProbe(ok)
      PROVE  TypeOK'
    BY <1>1 DEF OtherProbe, TypeOK
<1>2. CASE AttemptExpires
    BY <1>2 DEF AttemptExpires, TypeOK
<1>3. CASE ResultExpires
    BY <1>3 DEF ResultExpires, TypeOK
<1>4. CASE RowAges
    BY <1>4 DEF RowAges, TypeOK, RowType
<1>5. ASSUME NEW i \in Images, ImageFallsDue(i)
      PROVE  TypeOK'
    BY <1>5 DEF ImageFallsDue, TypeOK
<1>6. CASE Restart
    <2>a. ASSUME NEW r \in BOOLEAN
          PROVE  [candidates |-> {}, probed |-> {}, failed |-> FALSE, recent |-> r] \in RowType
        BY DEF RowType
    <2>1. imagesRow' \in RowType
        <3>1. CASE imagesPass.at = "idle"
            BY <1>6, <3>1 DEF Restart, TypeOK
        <3>2. CASE imagesPass.at # "idle"
            BY <1>6, <3>2, <2>a DEF Restart
        <3> QED BY <3>1, <3>2
    <2>2. worker' \in [Workers -> WorkerType] /\ boxPass' \in BoxPassType /\ imagesPass' \in ImagesPassType
        BY <1>6, IdleTyped DEF Restart
    <2> QED BY <1>6, <2>1, <2>2, ProbesAssumption DEF Restart, TypeOK
<1> QED BY <1>1, <1>2, <1>3, <1>4, <1>5, <1>6

LEMMA NextTyped == TypeOK /\ [Next]_vars => TypeOK'
<1>1. CASE UNCHANGED vars
    BY <1>1 DEF vars, passes, tables, TypeOK
<1>2. CASE Next
    BY <1>2, BoxesStepTyped, ImagesStepTyped, RestTyped DEF Next
<1> QED BY <1>1, <1>2

\* Every reachable state has the declared types: no code, count or set of a pass leaves
\* its range whatever overlaps.
THEOREM TypeCorrect == Spec => []TypeOK
<1> QED BY InitTyped, NextTyped, PTL DEF Spec
-----------------------------------------------------------------------------
(* The counts of the sbom pass. *)

\* Before a pass has chosen its boxes, and after it, there is nothing to count.
IdleInv == boxPass.at # "probing" => boxPass.candidates = {}

CountInv == TypeOK /\ IdleInv /\ PassAddsUp /\ FatalStops

\* An idle pass has no box in hand and no failure.
LEMMA IdleIsEmpty ==
    ASSUME CountInv, boxPass.candidates = {}
    PROVE  /\ \A w \in Workers : worker[w].at = "idle"
           /\ \A b \in Boxes : boxPass.code[b] = "none"
BY DEF CountInv, PassAddsUp, InHand, FailedBoxes

\* A pass that is cleared, with every worker idle, adds up.
LEMMA ClearedAddsUp ==
    ASSUME boxPass' \in {NoBoxPass, [NoBoxPass EXCEPT !.at = "gate"]}, \A w \in Workers : worker'[w].at = "idle"
    PROVE  IdleInv' /\ PassAddsUp' /\ FatalStops'
<1>1. boxPass'.candidates = {} /\ boxPass'.queue = {} /\ boxPass'.probed = {}
    BY DEF NoBoxPass
<1>2. \A b \in Boxes : boxPass'.code[b] = "none"
    BY DEF NoBoxPass
<1>3. InHand' = {} /\ FailedBoxes' = {}
    BY <1>2 DEF InHand, FailedBoxes
<1> QED BY <1>1, <1>2, <1>3 DEF IdleInv, PassAddsUp, FatalStops

\* A worker that comes back takes its box, and no other, out of what is in hand.
LEMMA HandedIn ==
    ASSUME CountInv, NEW w \in Workers, worker[w].at # "idle", worker' = [worker EXCEPT ![w] = IdleWorker]
    PROVE  /\ worker[w].box \in InHand
           /\ InHand' = InHand \ {worker[w].box}
           /\ \A u, v \in Workers :
                 worker'[u].at # "idle" /\ worker'[v].at # "idle" /\ worker'[u].box = worker'[v].box => u = v
<1>1. \A v \in Workers : worker'[v] = IF v = w THEN IdleWorker ELSE worker[v]
    BY DEF CountInv, TypeOK
<1>2. IdleWorker.at = "idle"
    BY DEF IdleWorker
<1>3. \A v \in Workers : worker[v].at # "idle" /\ worker[v].box = worker[w].box => v = w
    BY DEF CountInv, PassAddsUp
<1>4. worker[w].box \in InHand
    BY DEF InHand
<1>5. InHand' = InHand \ {worker[w].box}
    BY <1>1, <1>2, <1>3 DEF InHand
<1>6. \A u, v \in Workers :
          worker'[u].at # "idle" /\ worker'[v].at # "idle" /\ worker'[u].box = worker'[v].box => u = v
    BY <1>1, <1>2 DEF CountInv, PassAddsUp
<1> QED BY <1>4, <1>5, <1>6

\* A worker that takes a waiting box adds it to what is in hand.
LEMMA TakeAddsUp ==
    ASSUME CountInv, NEW w \in Workers, NEW b \in Boxes, TakeBox(w, b)
    PROVE  IdleInv' /\ PassAddsUp' /\ FatalStops'
<1>1. /\ boxPass'.at = "probing" /\ boxPass'.candidates = boxPass.candidates
      /\ boxPass'.queue = boxPass.queue \ {b} /\ boxPass'.probed = boxPass.probed
      /\ boxPass'.code = boxPass.code
    BY DEF TakeBox, CountInv, TypeOK, BoxPassType
<1>2. PICK at \in {"out", "refused"} : worker' = [worker EXCEPT ![w] = [at |-> at, box |-> b]]
    BY DEF TakeBox
<1>3. \A v \in Workers : worker'[v] = IF v = w THEN [at |-> at, box |-> b] ELSE worker[v]
    BY <1>2 DEF CountInv, TypeOK
<1>4. worker[w].at = "idle" /\ b \in boxPass.queue /\ b \notin InHand
    BY DEF TakeBox, CountInv, PassAddsUp
<1>5. InHand' = InHand \cup {b}
    BY <1>3, <1>4 DEF InHand
<1>6. FailedBoxes' = FailedBoxes
    BY <1>1 DEF FailedBoxes
<1>7. \A u, v \in Workers :
          worker'[u].at # "idle" /\ worker'[v].at # "idle" /\ worker'[u].box = worker'[v].box => u = v
    BY <1>3, <1>4 DEF CountInv, PassAddsUp, InHand
<1>8. PassAddsUp'
    BY <1>1, <1>4, <1>5, <1>6, <1>7 DEF CountInv, PassAddsUp
<1>9. FatalStops'
    BY <1>1 DEF CountInv, FatalStops
<1> QED BY <1>1, <1>8, <1>9 DEF IdleInv

LEMMA AnswerAddsUp ==
    ASSUME CountInv, NEW w \in Workers, NEW syft \in BOOLEAN, NEW ok \in SUBSET Images, BoxAnswers(w, syft, ok)
    PROVE  IdleInv' /\ PassAddsUp' /\ FatalStops'
<1>1. /\ boxPass'.at = boxPass.at /\ boxPass'.candidates = boxPass.candidates
      /\ boxPass'.queue = boxPass.queue /\ boxPass'.probed = boxPass.probed \cup {worker[w].box}
      /\ boxPass'.code = boxPass.code
    BY DEF BoxAnswers, CountInv, TypeOK, BoxPassType
<1>2. worker[w].at # "idle" /\ worker' = [worker EXCEPT ![w] = IdleWorker]
    BY DEF BoxAnswers
<1>3. FailedBoxes' = FailedBoxes
    BY <1>1 DEF FailedBoxes
<1>4. /\ worker[w].box \in InHand /\ InHand' = InHand \ {worker[w].box}
      /\ \A u, v \in Workers :
            worker'[u].at # "idle" /\ worker'[v].at # "idle" /\ worker'[u].box = worker'[v].box => u = v
    BY <1>2, HandedIn
<1>5. PassAddsUp'
    BY <1>1, <1>3, <1>4 DEF CountInv, PassAddsUp
<1> QED BY <1>1, <1>5 DEF CountInv, IdleInv, FatalStops

\* A failure takes its box out of hand; one that stops the pass takes the queue with it.
LEMMA FailAddsUp ==
    ASSUME CountInv, NEW w \in Workers, NEW c \in Codes, worker[w].at # "idle", Fails(w, c)
    PROVE  IdleInv' /\ PassAddsUp' /\ FatalStops'
<1> DEFINE b == worker[w].box
           stop == c \in StopsBoxes
<1>0. b \in Boxes /\ c # "none"
    BY DEF CountInv, TypeOK, WorkerType, Codes
<1>1. /\ boxPass'.at = boxPass.at /\ boxPass'.candidates = boxPass.candidates
      /\ boxPass'.queue = (IF stop THEN {} ELSE boxPass.queue) /\ boxPass'.probed = boxPass.probed
      /\ \A x \in Boxes : boxPass'.code[x] = IF x = b THEN c
                                             ELSE IF stop /\ x \in boxPass.queue THEN "not_attempted" ELSE boxPass.code[x]
    BY DEF Fails, CountInv, TypeOK, BoxPassType
<1>2. worker' = [worker EXCEPT ![w] = IdleWorker]
    BY DEF Fails
<1>3. FailedBoxes' = FailedBoxes \cup {b} \cup (IF stop THEN boxPass.queue ELSE {})
    <2>1. boxPass.queue \subseteq Boxes
        BY DEF CountInv, TypeOK, BoxPassType
    <2> QED BY <1>0, <1>1, <2>1 DEF FailedBoxes
<1>4. PassAddsUp'
    <2>1. /\ b \in InHand /\ InHand' = InHand \ {b}
          /\ \A u, v \in Workers :
                worker'[u].at # "idle" /\ worker'[v].at # "idle" /\ worker'[u].box = worker'[v].box => u = v
        BY <1>2, HandedIn
    <2>2. CASE stop
        BY <1>1, <1>3, <2>1, <2>2 DEF CountInv, PassAddsUp
    <2>3. CASE ~stop
        BY <1>1, <1>3, <2>1, <2>3 DEF CountInv, PassAddsUp
    <2> QED BY <2>2, <2>3
<1>5. FatalStops'
    <2>1. "not_attempted" \notin StopsBoxes
        BY DEF StopsBoxes
    <2> QED BY <1>1, <2>1 DEF CountInv, FatalStops
<1> QED BY <1>1, <1>4, <1>5 DEF CountInv, IdleInv

\* What leaves the sbom pass and its workers alone leaves its counts alone.
LEMMA QuietAddsUp ==
    ASSUME CountInv, UNCHANGED <<boxPass, worker>>
    PROVE  IdleInv' /\ PassAddsUp' /\ FatalStops'
BY DEF CountInv, IdleInv, PassAddsUp, FatalStops, InHand, FailedBoxes

LEMMA SelectedAddsUp ==
    ASSUME CountInv, NEW due \in SUBSET Boxes, BoxesSelected(due)
    PROVE  IdleInv' /\ PassAddsUp' /\ FatalStops'
<1>1. boxPass.candidates = {}
    BY DEF BoxesSelected, CountInv, IdleInv
<1>2. /\ \A w \in Workers : worker[w].at = "idle"
      /\ \A b \in Boxes : boxPass.code[b] = "none"
      /\ boxPass.probed = {}
    BY <1>1, IdleIsEmpty DEF CountInv, PassAddsUp
<1>3. /\ boxPass'.at = "probing" /\ boxPass'.candidates = due /\ boxPass'.queue = due
      /\ boxPass'.probed = boxPass.probed /\ boxPass'.code = boxPass.code /\ worker' = worker
    BY DEF BoxesSelected, CountInv, TypeOK, BoxPassType
<1>4. InHand' = {} /\ FailedBoxes' = {}
    BY <1>2, <1>3 DEF InHand, FailedBoxes
<1>5. \A b \in Boxes : boxPass'.code[b] \notin StopsBoxes
    BY <1>2, <1>3 DEF StopsBoxes
<1> QED BY <1>2, <1>3, <1>4, <1>5 DEF IdleInv, PassAddsUp, FatalStops

LEMMA BoxesStepAddsUp == CountInv /\ BoxesStep => IdleInv' /\ PassAddsUp' /\ FatalStops'
<1> SUFFICES ASSUME CountInv, BoxesStep PROVE IdleInv' /\ PassAddsUp' /\ FatalStops'
    OBVIOUS
<1>a. boxPass.at # "probing" => \A w \in Workers : worker[w].at = "idle"
    BY IdleIsEmpty DEF CountInv, IdleInv
<1>1. CASE StartBoxes
    BY <1>1, <1>a, ClearedAddsUp DEF StartBoxes
<1>2. CASE BoxesSkipped
    BY <1>2, <1>a, ClearedAddsUp DEF BoxesSkipped
<1>3. CASE BoxesDone
    BY <1>3, ClearedAddsUp DEF BoxesDone
<1>4. ASSUME NEW due \in SUBSET Boxes, BoxesSelected(due)
      PROVE  IdleInv' /\ PassAddsUp' /\ FatalStops'
    BY <1>4, SelectedAddsUp
<1>5. ASSUME NEW w \in Workers, NEW b \in Boxes, TakeBox(w, b)
      PROVE  IdleInv' /\ PassAddsUp' /\ FatalStops'
    BY <1>5, TakeAddsUp
<1>6. ASSUME NEW w \in Workers, NEW syft \in BOOLEAN, NEW ok \in SUBSET Images, BoxAnswers(w, syft, ok)
      PROVE  IdleInv' /\ PassAddsUp' /\ FatalStops'
    BY <1>6, AnswerAddsUp
<1>7. ASSUME NEW w \in Workers, NEW c \in Codes, BoxFails(w, c)
      PROVE  IdleInv' /\ PassAddsUp' /\ FatalStops'
    <2>1. Fails(w, c) /\ worker[w].at # "idle"
        BY <1>7 DEF BoxFails
    <2> QED BY <2>1, FailAddsUp
<1>8. ASSUME NEW w \in Workers, BoxRefused(w)
      PROVE  IdleInv' /\ PassAddsUp' /\ FatalStops'
    <2>1. "quota" \in Codes /\ Fails(w, "quota") /\ worker[w].at # "idle"
        BY <1>8 DEF BoxRefused, Codes
    <2> QED BY <2>1, FailAddsUp
<1> QED BY <1>1, <1>2, <1>3, <1>4, <1>5, <1>6, <1>7, <1>8 DEF BoxesStep

LEMMA NextCounts == CountInv /\ [Next]_vars => CountInv'
<1> SUFFICES ASSUME CountInv, [Next]_vars PROVE IdleInv' /\ PassAddsUp' /\ FatalStops'
    BY NextTyped DEF CountInv
<1> USE DEF passes, tables
<1>1. CASE BoxesStep
    BY <1>1, BoxesStepAddsUp
<1>2. CASE Restart
    <2>1. boxPass' = NoBoxPass /\ \A w \in Workers : worker'[w].at = "idle"
        BY <1>2 DEF Restart, IdleWorker
    <2> QED BY <2>1, ClearedAddsUp
<1>3. CASE ImagesStep
    <2>1. UNCHANGED <<boxPass, worker>>
        BY <1>3 DEF ImagesStep, StartImages, ImagesSkipped, NothingDue, ImagesSelected, SendBatch, BatchAnswers,
                    SyftMissing, BatchFails, ScannerUnusable, ImagesDone
    <2> QED BY <2>1, QuietAddsUp
<1>4. CASE \/ \E ok \in BOOLEAN : OtherProbe(ok)
           \/ AttemptExpires \/ ResultExpires \/ RowAges
           \/ \E i \in Images : ImageFallsDue(i)
    <2>1. UNCHANGED <<boxPass, worker>>
        BY <1>4 DEF OtherProbe, AttemptExpires, ResultExpires, RowAges, ImageFallsDue
    <2> QED BY <2>1, QuietAddsUp
<1>5. CASE UNCHANGED vars
    BY <1>5, QuietAddsUp DEF vars
<1> QED BY <1>1, <1>2, <1>3, <1>4, <1>5 DEF Next

LEMMA InitCounts == Init => CountInv
BY InitTyped DEF Init, CountInv, IdleInv, PassAddsUp, FatalStops, InHand, FailedBoxes, NoBoxPass, IdleWorker,
                 StopsBoxes

\* With any number of workers, each candidate waits, is with one worker, was probed or
\* failed, and only one of these, whatever stops the pass and however answers overlap.
THEOREM PassAddsUpHolds == Spec => []PassAddsUp
<1>1. CountInv => PassAddsUp
    BY DEF CountInv
<1> QED BY InitCounts, NextCounts, <1>1, PTL DEF Spec

\* No worker takes a box after a refused permission or a full quota.
THEOREM FatalStopsHolds == Spec => []FatalStops
<1>1. CountInv => FatalStops
    BY DEF CountInv
<1> QED BY InitCounts, NextCounts, <1>1, PTL DEF Spec
=============================================================================
