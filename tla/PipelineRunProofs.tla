-------------------------- MODULE PipelineRunProofs --------------------------
(***************************************************************************)
(* Theorems about one execution of the photo pipeline (PipelineRun), for   *)
(* every number of photos and size of chunks, whatever Qdrant and Redis    *)
(* hold, whatever the model says and whichever calls fail.                 *)
(***************************************************************************)
EXTENDS PipelineRun, Lemmas

-----------------------------------------------------------------------------
(* Types.                                                                  *)

\* The pieces of work, the errors and the other words of an instruction.
Works == {"engine", "qdrant", "enter", "fetch", "load", "decoded", "encode", "upsert",
          "vectors", "metrics", "budget", "exit", "leave"}
CallErrors == {"none", "timeout", "store", "canceled"}
AgentErrors == TalkErrors
Errs == CallErrors \cup AgentErrors \cup {"bug", "decode", "embedding", "download"}

Words == {""} \cup Works \cup AgentErrors \cup {"regions", "estimates"}

\* The two ends of a program have no photos.
Instrs == {x \in [do : {"check", "report", "work", "raise", "await"}, of : Words,
                  photos : SUBSET Photos, step : 0 .. 7, done : 0 .. N] :
              x.of \in {"exit", "leave"} => x.photos = {} /\ x.step = 0 /\ x.done = 0}

\* The steps that the job reports, with the photos it has counted.
Progress == (0 .. 7) \X (0 .. N)

\* The states of the pipeline thread.
Pipes == [pc : {"off", "run", "call", "await", "join", "closed"}, rest : Seq(Instrs),
          error : Errs, raw : SUBSET Photos, vectors : SUBSET Photos,
          undecoded : BOOLEAN, pending : SUBSET (Talks \cup {None}), ticks : Nat]

\* The states of the handler.
LeadStates == [pc : {"check", "open", "await", "drain", "ended", "gone"}, stopped : BOOLEAN,
               result : {"NONE", "COMPLETED", "CANCELED", "DECODE_FAILED",
                         "DOWNLOAD_FAILED", "TIMEOUT", "MODEL_NOT_READY",
                         "INTERNAL_ERROR", "INVALID_REQUEST", "ABORTED"}]

\* The values of the variables.
PipeTypeOK ==
    /\ input \in Inputs
    /\ pipe \in Pipes
    /\ beat \in [pc : {"off", "wait", "call", "ended"}, sends : Progress]
    /\ report \in [lock : {"free", "pipe", "beat"}, current : Progress,
                   error : CallErrors, stop : BOOLEAN]
    /\ job \in [shown : Progress, cancelRequested : BOOLEAN, owned : BOOLEAN]
    /\ lead \in LeadStates
    /\ talk = [c \in Talks |-> talk[c]]

-----------------------------------------------------------------------------
(* The order of the program.                                               *)

\* The two ends of a program: with the reporter entered, and without.
Exit  == Work("exit", {})
Leave == Work("leave", {})

IsWork(x, what) == x.do = "work" /\ x.of = what

\* The order of the progress: by step, then by count.
Before(a, b) == a[1] < b[1] \/ (a[1] = b[1] /\ a[2] <= b[2])

\* The progress that a report shows.
Shows(x) == <<x.step, x.done>>

\* The work that is left when the agent waits for its tasks.
LateWorks == {"budget", "metrics", "exit"}

\* The part of the progress to which a piece of work belongs.
From(what) ==
    CASE what = "decoded"              -> <<1, N + 1>>
      [] what \in {"encode", "upsert"} -> <<2, 0>>
      [] what \in {"vectors", "metrics"} -> <<3, 0>>
      [] OTHER                         -> <<0, 0>>

To(what) ==
    CASE what = "fetch"                -> <<1, 0>>
      [] what = "load"                 -> <<1, N>>
      [] what = "decoded"              -> <<1, N + 1>>
      [] what \in {"encode", "upsert"} -> <<2, N>>
      [] what = "vectors"              -> <<5, 0>>
      [] what \in LateWorks            -> <<8, 0>>
      [] OTHER                         -> <<0, 0>>

\* The progress of the agent after so many of its tasks.
Ticked(t) == <<5, Min({t, N - 1})>>

\* x may stand before y when the agent has counted t tasks.
Leads(x, y, t) ==
    /\ x # Exit /\ x # Leave
    /\ x.do = "report" /\ y.do = "report" => Before(Shows(x), Shows(y))
    /\ x.do = "report" /\ y.do = "await"  => Before(Shows(x), Ticked(t))
    /\ x.do = "await" /\ y.do = "report"  => Before(<<5, N - 1>>, Shows(y))
    /\ x.do = "await" /\ y.do = "work"    => y.of \in LateWorks
    /\ x.do = "work" /\ y.do = "work"     => Before(From(x.of), To(y.of))

\* A program whose instructions all stand in their order.
InOrder(s, t) == \A k, m \in DOMAIN s : k < m => Leads(s[k], s[m], t)

-----------------------------------------------------------------------------
(* The invariant.                                                          *)

\* The thread is at work.
Running == {"run", "call", "await"}

\* What is left of the program.
Left == Range(pipe.rest)

\* The thread has met no error.
Going == pipe.error = "none" /\ \A x \in Left : x.do # "raise"

\* What ends the thread.
Finishes(x) == x \in {Exit, Leave} \/ x.do = "raise"

\* How the rest of the program fits to the place of the thread.
RestFits ==
    /\ pipe.pc = "off" => pipe.rest = Program(input)
    /\ pipe.pc \in Running => \E x \in Left : Finishes(x)
    /\ pipe.pc = "await" => Now.do = "await"
    /\ pipe.pc = "join" => Left = {Exit}
    /\ pipe.pc = "closed" => pipe.rest = <<>>
    /\ \A x \in Left : x.do = "raise" => x.of \in AgentErrors
    /\ ~Going => \A x \in Left : Finishes(x) \/ x.do = "report"

\* The reporter is left without its heartbeat only if it was never entered.
LeftUnentered ==
    Leave \in Left => pipe.rest = <<Leave>> /\ beat.pc = "off" /\ pipe.error # "none"

\* A record of a conversation, where it is, whether a thread works for it and
\* whether it is asked to stop.
TalkIs(t, at, thread, canceled) ==
    /\ t = [at |-> t.at, turn |-> t.turn, calls |-> t.calls, images |-> t.images,
            found |-> t.found, spot |-> t.spot, confidence |-> t.confidence,
            thread |-> t.thread, canceled |-> t.canceled]
    /\ t.at = at /\ t.thread = thread /\ t.canceled = canceled

\* What a conversation keeps when it is over: only a canceled one stops, and
\* one that answers waits for its threads and forgets that it was canceled.
TalkFits(t) ==
    /\ TalkIs(t, t.at, t.thread, t.canceled)
    /\ t.at \in {"releasing", "stopped"} => t.canceled
    /\ t.at \in {"off", "answered"} => ~t.thread /\ ~t.canceled

\* It has not begun or has answered.
Settled(t) == t.at \in {"off", "answered"}

\* It is asked to stop, or has failed; its threads may go on.
Stopping(t) == t.canceled \/ t.at = "failed"

\* Every conversation is settled, stopping or waited for; none stops before
\* the thread has met an error, unless the waiter still has to find it failed.
TasksStop ==
    /\ \A c \in Talks :
         /\ TalkFits(talk[c])
         /\ Settled(talk[c]) \/ Stopping(talk[c]) \/ c \in pipe.pending
         /\ talk[c].canceled => ~Going
         /\ talk[c].at = "failed" => c \in pipe.pending \/ ~Going
    /\ tripRegion \in {"submitted", "asked"} => None \in pipe.pending
    /\ tripRegion = "canceled" => ~Going

\* The waiter comes back to the tasks that it has, or fails, before it begins
\* other work.
TasksAreWaitedFor ==
    /\ TasksStop
    /\ pipe.pending # {}
       => /\ pipe.pc \in Running
          /\ pipe.pc = "run" => Now.do # "await"
          /\ \E x \in Left : x.do \in {"await", "raise"}
          /\ \A x \in Left : x.do = "work" => x.of \in LateWorks

\* How far the thread, its heartbeat and the handler are.
ThreadsEnd ==
    /\ pipe.pc = "off" => beat.pc = "off"
    /\ pipe.pc = "closed" => beat.pc \in {"off", "ended"}
    /\ lead.pc \in {"check", "open"} => pipe.pc = "off"
    /\ lead.pc \in {"ended", "gone"} => pipe.pc \in {"off", "closed"}

\* How the thread ends.
EndInv == RestFits /\ LeftUnentered /\ TasksAreWaitedFor /\ ThreadsEnd

\* What the heartbeat repeats comes before all that is left, and what the
\* store shows is not ahead of it.
ProgressFollows ==
    /\ Before(job.shown, report.current)
    /\ beat.pc = "call" => report.lock = "beat" /\ beat.sends = report.current
    /\ pipe.pc = "call" /\ Now.do = "report"
       => report.lock = "pipe" /\ report.current = Shows(Now)
    /\ \A x \in Left : x.do = "report" => Before(report.current, Shows(x))
    /\ \A x \in Left : x.do = "await" => Before(report.current, Ticked(pipe.ticks))

\* How the progress goes on.
OrderInv == InOrder(pipe.rest, pipe.ticks) /\ ProgressFollows

Has(X, what) == \E x \in X : IsWork(x, what)
Gives(X, what) == UNION {x.photos : x \in {y \in X : IsWork(y, what)}}

\* What is downloaded, or will be before the images are decoded, is enough.
ImagesSuffice ==
    Going
    => IF Has(Left, "decoded")
       THEN pipe.undecoded \/ Downloads(input) \subseteq pipe.raw \cup Gives(Left, "load")
       ELSE Downloads(input) \subseteq pipe.raw

\* Every photo has a vector, or will be embedded.
VectorsSuffice ==
    Going
    => Photos \subseteq (IF Has(Left, "fetch") THEN input.stored ELSE pipe.vectors)
                        \cup Gives(Left, "upsert")

\* Only photos without a stored vector are embedded.
EncodesPending ==
    \A x \in Left : IsWork(x, "encode") => x.photos \subseteq Pending(input)

\* The last report is still to come, or it is shown.
LastIsShown == Going => job.shown = <<7, N>> \/ Report(7, N) \in Left

\* What the thread has, and still gets, is what it needs.
DataInv == ImagesSuffice /\ VectorsSuffice /\ EncodesPending /\ LastIsShown
           /\ OnlyOutsideFailures

\* An error of the heartbeat ends the job.
ErrorsCount ==
    /\ pipe.pc = "closed" /\ pipe.error = "none" => beat.pc = "ended" /\ report.error = "none"
    /\ lead.result = "COMPLETED" => pipe.pc = "closed" /\ pipe.error = "none"

\* The inductive invariant.
PipeInv == PipeTypeOK /\ EndInv /\ OrderInv /\ DataInv /\ ErrorsCount

-----------------------------------------------------------------------------
(* Sequences of instructions.                                              *)

\* The head and the tail of a sequence hold what the sequence holds.
LEMMA TailOf ==
    ASSUME NEW S, NEW s \in Seq(S), s # <<>>
    PROVE  /\ Head(s) \in S /\ Tail(s) \in Seq(S)
           /\ Range(s) = {Head(s)} \cup Range(Tail(s))
  <1>1. /\ Len(s) \in Nat \ {0} /\ DOMAIN s = 1 .. Len(s)
        /\ Tail(s) \in Seq(S) /\ Len(Tail(s)) = Len(s) - 1 /\ DOMAIN Tail(s) = 1 .. Len(s) - 1
        /\ \A k \in 1 .. Len(s) - 1 : Tail(s)[k] = s[k + 1]
        /\ Head(s) = s[1] /\ Head(s) \in S
    BY EmptySeq, LenProperties, HeadTailProperties
  <1>2. ASSUME NEW x \in Range(s) PROVE x = Head(s) \/ x \in Range(Tail(s))
    <2>1. PICK k \in DOMAIN s : x = s[k]
      BY DEF Range
    <2>2. k # 1 => k - 1 \in DOMAIN Tail(s) /\ Tail(s)[k - 1] = s[k]
      BY <1>1
    <2> QED
      BY <1>1, <2>1, <2>2 DEF Range
  <1>3. ASSUME NEW x \in Range(Tail(s)) PROVE x \in Range(s)
    <2>1. PICK k \in DOMAIN Tail(s) : x = Tail(s)[k]
      BY DEF Range
    <2>2. k + 1 \in DOMAIN s /\ x = s[k + 1]
      BY <1>1, <2>1
    <2> QED
      BY <2>2 DEF Range
  <1>4. Head(s) \in Range(s)
    BY <1>1 DEF Range
  <1> QED
    BY <1>1, <1>2, <1>3, <1>4

\* Without its head a program is still in order, and the head leads the rest.
LEMMA OrderTail ==
    ASSUME NEW S, NEW s \in Seq(S), s # <<>>, NEW t, InOrder(s, t)
    PROVE  /\ InOrder(Tail(s), t)
           /\ \A y \in Range(Tail(s)) : Leads(Head(s), y, t)
  <1>1. /\ Len(s) \in Nat \ {0} /\ DOMAIN s = 1 .. Len(s)
        /\ DOMAIN Tail(s) = 1 .. Len(s) - 1
        /\ \A k \in 1 .. Len(s) - 1 : Tail(s)[k] = s[k + 1]
        /\ Head(s) = s[1]
    BY EmptySeq, LenProperties, HeadTailProperties
  <1>2. ASSUME NEW k \in DOMAIN Tail(s), NEW m \in DOMAIN Tail(s), k < m
        PROVE  Leads(Tail(s)[k], Tail(s)[m], t)
    <2>1. k + 1 \in DOMAIN s /\ m + 1 \in DOMAIN s /\ k + 1 < m + 1
      BY <1>1, <1>2
    <2> QED
      BY <1>1, <2>1 DEF InOrder
  <1>3. ASSUME NEW y \in Range(Tail(s)) PROVE Leads(Head(s), y, t)
    <2>1. PICK k \in DOMAIN Tail(s) : y = Tail(s)[k]
      BY DEF Range
    <2>2. k + 1 \in DOMAIN s /\ y = s[k + 1] /\ 1 \in DOMAIN s /\ 1 < k + 1
      BY <1>1, <2>1
    <2> QED
      BY <1>1, <2>2 DEF InOrder
  <1> QED
    BY <1>2, <1>3 DEF InOrder

\* Two ordered programs of which the first leads the second are one in order.
LEMMA OrderConcat ==
    ASSUME NEW S, NEW r \in Seq(S), NEW s \in Seq(S), NEW t, InOrder(r, t), InOrder(s, t),
           \A x \in Range(r), y \in Range(s) : Leads(x, y, t)
    PROVE  InOrder(r \o s, t)
  <1> SUFFICES ASSUME NEW k \in DOMAIN (r \o s), NEW m \in DOMAIN (r \o s), k < m
               PROVE  Leads((r \o s)[k], (r \o s)[m], t)
    BY DEF InOrder
  <1>1. /\ Len(r) \in Nat /\ Len(s) \in Nat /\ DOMAIN r = 1 .. Len(r) /\ DOMAIN s = 1 .. Len(s)
        /\ k \in 1 .. Len(r) + Len(s) /\ m \in 1 .. Len(r) + Len(s)
        /\ (r \o s)[k] = IF k <= Len(r) THEN r[k] ELSE s[k - Len(r)]
        /\ (r \o s)[m] = IF m <= Len(r) THEN r[m] ELSE s[m - Len(r)]
    BY ConcatProperties, LenProperties
  <1>2. CASE m <= Len(r)
    BY <1>1, <1>2 DEF InOrder
  <1>3. CASE k > Len(r)
    <2>1. k - Len(r) \in DOMAIN s /\ m - Len(r) \in DOMAIN s /\ k - Len(r) < m - Len(r)
      BY <1>1, <1>3
    <2> QED
      BY <1>1, <1>3, <2>1 DEF InOrder
  <1>4. CASE k <= Len(r) /\ m > Len(r)
    <2>1. r[k] \in Range(r) /\ s[m - Len(r)] \in Range(s)
      BY <1>1, <1>4 DEF Range
    <2> QED
      BY <1>1, <1>4, <2>1
  <1> QED
    BY <1>1, <1>2, <1>3, <1>4

\* Pairs of which each may stand before each other.
LEMMA OrderFree ==
    ASSUME NEW s, NEW t, \A x \in Range(s), y \in Range(s) : Leads(x, y, t)
    PROVE  InOrder(s, t)
  BY DEF InOrder, Range

-----------------------------------------------------------------------------
(* The parts of a program.                                                 *)

\* There is a photo, and a chunk holds at least one.
LEMMA NType == N \in Nat /\ N >= 1 /\ Batch \in Nat /\ Batch >= 1
  BY PipelineAssumption

\* The smaller of two numbers.
LEMMA MinOfTwo ==
    ASSUME NEW a \in Int, NEW b \in Int
    PROVE  Min({a, b}) = IF a <= b THEN a ELSE b
  <1> DEFINE least == IF a <= b THEN a ELSE b
  <1>1. least \in {a, b} /\ \A y \in {a, b} : least <= y
    OBVIOUS
  <1>2. \A x \in {a, b} : (\A y \in {a, b} : x <= y) => x = least
    OBVIOUS
  <1> HIDE DEF least
  <1>3. Min({a, b}) = least
    BY <1>1, <1>2 DEF Min
  <1> QED
    BY <1>3 DEF least

\* The agent begins at the start of its stage.
LEMMA NoTicks == Ticked(0) = <<5, 0>>
  BY NType, MinOfTwo DEF Ticked

Points == (0 .. 9) \X Nat

\* The order of the progress is transitive.
LEMMA BeforeTrans ==
    ASSUME NEW a \in Points, NEW b \in Points, NEW c \in Points, Before(a, b), Before(b, c)
    PROVE  Before(a, c)
  BY DEF Points, Before

\* What may stand in the program of the inputs i between two points of its
\* progress.  A piece of work stands where its part has begun and not ended.
Part(i, lo, hi) ==
    {x \in Instrs :
        /\ x.do # "raise" /\ x # Exit /\ x # Leave
        /\ x.do = "report" => Before(lo, Shows(x)) /\ Before(Shows(x), hi)
        /\ x.do = "await"  => Before(lo, <<5, 0>>) /\ Before(<<5, N>>, hi)
        /\ x.do = "work"   => Before(lo, To(x.of)) /\ Before(From(x.of), hi)
        /\ IsWork(x, "encode") => x.photos \subseteq Pending(i)}

Fits(i, s, lo, hi) == s \in Seq(Part(i, lo, hi)) /\ InOrder(s, 0)

\* Where reports and pieces of work stand in the progress.
LEMMA PlacesArePoints ==
    /\ \A x \in Instrs : Shows(x) \in Points
    /\ \A what : From(what) \in Points /\ To(what) \in Points
    /\ <<5, 0>> \in Points /\ <<5, N>> \in Points
  <1>1. ASSUME NEW x \in Instrs PROVE Shows(x) \in Points
    <2>1. x.step \in 0 .. 7 /\ x.done \in 0 .. N
      BY DEF Instrs
    <2> QED
      BY <2>1, NType DEF Shows, Points
  <1>2. ASSUME NEW what PROVE From(what) \in Points
    <2>1. From(what) \in {<<1, N + 1>>, <<2, 0>>, <<3, 0>>, <<0, 0>>}
      BY DEF From
    <2> QED
      BY <2>1, NType DEF Points
  <1>3. ASSUME NEW what PROVE To(what) \in Points
    <2>1. To(what) \in {<<1, 0>>, <<1, N>>, <<1, N + 1>>, <<2, N>>, <<5, 0>>, <<8, 0>>, <<0, 0>>}
      BY DEF To
    <2> QED
      BY <2>1, NType DEF Points
  <1> QED
    BY <1>1, <1>2, <1>3, NType DEF Points

\* What fits between two points leads what fits behind the second one.
LEMMA PartsLead ==
    ASSUME NEW i, NEW lo \in Points, NEW mid \in Points, NEW hi \in Points,
           NEW x \in Part(i, lo, mid), NEW y \in Part(i, mid, hi)
    PROVE  Leads(x, y, 0)
  <1>1. x \in Instrs /\ y \in Instrs /\ x # Exit /\ x # Leave
    BY DEF Part
  <1>2. x.do = "report" /\ y.do = "report" => Before(Shows(x), Shows(y))
    BY <1>1, BeforeTrans, PlacesArePoints DEF Part
  <1>3. x.do = "report" /\ y.do = "await" => Before(Shows(x), <<5, 0>>)
    BY <1>1, BeforeTrans, PlacesArePoints DEF Part
  <1>4. ASSUME x.do = "await", y.do = "report" PROVE Before(<<5, N - 1>>, Shows(y))
    <2>1. Before(<<5, N>>, Shows(y))
      BY <1>1, <1>4, BeforeTrans, PlacesArePoints DEF Part
    <2>2. Shows(y) \in Points
      BY <1>1, PlacesArePoints
    <2> QED
      BY <2>1, <2>2, NType DEF Before, Points
  <1>5. ASSUME x.do = "await", y.do = "work" PROVE y.of \in LateWorks
    <2>1. Before(<<5, N>>, To(y.of))
      BY <1>1, <1>5, BeforeTrans, PlacesArePoints DEF Part
    <2>2. y.of \notin LateWorks
          => To(y.of) \in {<<1, 0>>, <<1, N>>, <<1, N + 1>>, <<2, N>>, <<5, 0>>, <<0, 0>>}
      BY DEF To
    <2> QED
      BY <2>1, <2>2, NType DEF Before
  <1>6. x.do = "work" /\ y.do = "work" => Before(From(x.of), To(y.of))
    BY BeforeTrans, PlacesArePoints DEF Part
  <1> QED
    BY <1>1, <1>2, <1>3, <1>4, <1>5, <1>6, NoTicks DEF Leads

\* Between points further apart more may stand.
LEMMA PartsGrow ==
    ASSUME NEW i, NEW lo \in Points, NEW hi \in Points, NEW low \in Points, NEW high \in Points,
           Before(low, lo), Before(hi, high)
    PROVE  Part(i, lo, hi) \subseteq Part(i, low, high)
  <1> SUFFICES ASSUME NEW x \in Part(i, lo, hi) PROVE x \in Part(i, low, high)
    OBVIOUS
  <1>1. x \in Instrs
    BY DEF Part
  <1>2. x.do = "report" => Before(low, Shows(x)) /\ Before(Shows(x), high)
    BY <1>1, BeforeTrans, PlacesArePoints DEF Part
  <1>3. x.do = "await" => Before(low, <<5, 0>>) /\ Before(<<5, N>>, high)
    BY <1>1, BeforeTrans, PlacesArePoints DEF Part
  <1>4. x.do = "work" => Before(low, To(x.of)) /\ Before(From(x.of), high)
    BY <1>1, BeforeTrans, PlacesArePoints DEF Part
  <1> QED
    BY <1>2, <1>3, <1>4 DEF Part

\* What fits at one point fits in any order.
LEMMA FitsAtPoint ==
    ASSUME NEW i, NEW p \in Points, NEW s \in Seq(Part(i, p, p))
    PROVE  Fits(i, s, p, p)
  <1>1. \A x \in Range(s), y \in Range(s) : Leads(x, y, 0)
    BY RangeOfSeq, PartsLead
  <1> QED
    BY <1>1, OrderFree DEF Fits

\* The empty program fits anywhere.
LEMMA NothingFits ==
    ASSUME NEW i, NEW lo, NEW hi
    PROVE  Fits(i, <<>>, lo, hi)
  BY DEF Fits, InOrder

\* What fits between two points fits between points further apart.
LEMMA FitsGrows ==
    ASSUME NEW i, NEW s, NEW lo \in Points, NEW hi \in Points, NEW low \in Points,
           NEW high \in Points, Fits(i, s, lo, hi), Before(low, lo), Before(hi, high)
    PROVE  Fits(i, s, low, high)
  BY PartsGrow, SeqMonotonic DEF Fits

\* What fits up to a point and what fits from there on fit one after the
\* other.
LEMMA FitsConcat ==
    ASSUME NEW i, NEW s, NEW t, NEW lo \in Points, NEW mid \in Points, NEW hi \in Points,
           Before(lo, mid), Before(mid, hi), Fits(i, s, lo, mid), Fits(i, t, mid, hi)
    PROVE  Fits(i, s \o t, lo, hi) /\ Range(s \o t) = Range(s) \cup Range(t)
  <1>1. Before(lo, lo) /\ Before(hi, hi)
    BY DEF Before, Points
  <1>2. /\ s \in Seq(Part(i, lo, hi)) /\ t \in Seq(Part(i, lo, hi))
    BY <1>1, FitsGrows DEF Fits
  <1>3. s \o t \in Seq(Part(i, lo, hi)) /\ Range(s \o t) = Range(s) \cup Range(t)
    BY <1>2, ConcatProperties, RangeConcatenation
  <1>4. \A x \in Range(s), y \in Range(t) : Leads(x, y, 0)
    BY RangeOfSeq, PartsLead DEF Fits
  <1>5. InOrder(s \o t, 0)
    BY <1>2, <1>4, OrderConcat DEF Fits
  <1> QED
    BY <1>3, <1>5 DEF Fits

\* What the definition of FlattenSeq builds up to the n-th piece.
Builds(pieces, n, f) ==
    f = [k \in 1 .. n |-> IF k = 1 THEN pieces[k] ELSE f[k - 1] \o pieces[k]]

\* The concatenation of n pieces can be built up piece by piece.
LEMMA BuildsExists ==
    ASSUME NEW n \in Nat, NEW pieces
    PROVE  \E f : Builds(pieces, n, f)
  <1> DEFINE Holding == {m \in 0 .. n : \E f : Builds(pieces, m, f)}
  <1>1. 0 \in Holding
    <2> DEFINE f == [k \in 1 .. 0 |-> pieces[k]]
    <2>1. Builds(pieces, 0, f)
      BY DEF Builds
    <2> HIDE DEF f
    <2> QED
      BY <2>1
  <1>2. ASSUME NEW m \in 1 .. n, m - 1 \in Holding PROVE m \in Holding
    <2>1. PICK f : Builds(pieces, m - 1, f)
      BY <1>2
    <2> DEFINE next == IF m = 1 THEN pieces[m] ELSE f[m - 1] \o pieces[m]
    <2> DEFINE g == [k \in 1 .. m |-> IF k = m THEN next ELSE f[k]]
    <2>2. ASSUME NEW k \in 1 .. m
          PROVE  g[k] = IF k = 1 THEN pieces[k] ELSE g[k - 1] \o pieces[k]
      <3>1. CASE k = m
        <4>1. g[k] = next
          BY <3>1
        <4>2. k # 1 => g[k - 1] = f[m - 1]
          BY <3>1
        <4> QED
          BY <3>1, <4>1, <4>2
      <3>2. CASE k # m
        <4>1. k \in 1 .. m - 1 /\ g[k] = f[k]
          BY <3>2
        <4>2. k # 1 => g[k - 1] = f[k - 1]
          BY <3>2
        <4>3. f[k] = IF k = 1 THEN pieces[k] ELSE f[k - 1] \o pieces[k]
          BY <2>1, <4>1 DEF Builds
        <4> QED
          BY <4>1, <4>2, <4>3
      <3> QED
        BY <3>1, <3>2
    <2>3. g = [k \in 1 .. m |-> g[k]]
      OBVIOUS
    <2> HIDE DEF g
    <2>4. Builds(pieces, m, g)
      BY <2>2, <2>3 DEF Builds
    <2> QED
      BY <2>4
  <1> HIDE DEF Holding
  <1>3. \A m \in 1 .. n : m - 1 \in Holding => m \in Holding
    BY <1>2
  <1>4. \A m \in 0 .. n : m \in Holding
    BY <1>1, <1>3, UpTo
  <1> QED
    BY <1>4 DEF Holding

\* Pieces that fit at points in their order fit together, and all that they
\* hold is in the whole.
LEMMA FitsFlat ==
    ASSUME NEW i, NEW n \in Nat, NEW pieces \in [1 .. n -> Seq(Instrs)],
           NEW at \in [1 .. n -> Points], NEW lo \in Points, NEW hi \in Points,
           \A k \in 1 .. n : /\ Fits(i, pieces[k], at[k], at[k])
                             /\ Before(lo, at[k]) /\ Before(at[k], hi),
           \A k \in 2 .. n : Before(at[k - 1], at[k])
    PROVE  /\ Fits(i, FlattenSeq(pieces), lo, hi)
           /\ \A k \in 1 .. n : Range(pieces[k]) \subseteq Range(FlattenSeq(pieces))
  <1>1. Len(pieces) = n
    OBVIOUS
  <1>2. CASE n = 0
    <2>1. pieces = <<>>
      BY <1>2
    <2>2. FlattenSeq(pieces) = <<>>
      BY <1>1, <1>2, <2>1 DEF FlattenSeq
    <2> QED
      BY <1>2, <2>2, NothingFits
  <1>3. CASE n # 0
    <2> DEFINE f == CHOOSE g : Builds(pieces, n, g)
    <2>1. Builds(pieces, n, f)
      BY BuildsExists
    <2>2. FlattenSeq(pieces) = f[n]
      BY <1>1, <1>3 DEF FlattenSeq, Builds
    <2> HIDE DEF f
    <2> DEFINE Good(m) == /\ Fits(i, f[m], lo, at[m])
                          /\ \A k \in 1 .. m : Range(pieces[k]) \subseteq Range(f[m])
    <2> DEFINE Holding == {m \in 0 .. n : m = 0 \/ Good(m)}
    <2>3. 0 \in Holding
      OBVIOUS
    <2>4. ASSUME NEW m \in 1 .. n, m - 1 \in Holding PROVE m \in Holding
      <3>1. f[m] = IF m = 1 THEN pieces[m] ELSE f[m - 1] \o pieces[m]
        BY <2>1 DEF Builds
      <3>2. /\ at[m] \in Points /\ Before(lo, at[m]) /\ Before(at[m], at[m])
            /\ Fits(i, pieces[m], at[m], at[m])
        BY DEF Before, Points
      <3>3. CASE m = 1
        <4>1. Fits(i, f[m], lo, at[m])
          BY <3>1, <3>2, <3>3, FitsGrows
        <4> QED
          BY <3>1, <3>3, <4>1
      <3>4. CASE m # 1
        <4>1. /\ m - 1 \in 1 .. n /\ m \in 2 .. n /\ at[m - 1] \in Points
              /\ Good(m - 1) /\ Before(lo, at[m - 1]) /\ Before(at[m - 1], at[m])
          BY <2>4, <3>4
        <4>2. Fits(i, pieces[m], at[m - 1], at[m])
          BY <3>2, <4>1, FitsGrows
        <4>3. Fits(i, f[m], lo, at[m])
          BY <3>1, <3>2, <3>4, <4>1, <4>2, FitsConcat
        <4>4. f[m - 1] \in Seq(Instrs) /\ pieces[m] \in Seq(Instrs)
          <5>1. Part(i, lo, at[m - 1]) \subseteq Instrs
            BY DEF Part
          <5> QED
            BY <4>1, <5>1, SeqMonotonic DEF Fits
        <4>5. Range(f[m]) = Range(f[m - 1]) \cup Range(pieces[m])
          BY <3>1, <3>4, <4>4, RangeConcatenation
        <4>6. \A k \in 1 .. m : k \in 1 .. m - 1 \/ k = m
          OBVIOUS
        <4>7. \A k \in 1 .. m : Range(pieces[k]) \subseteq Range(f[m])
          BY <4>1, <4>5, <4>6
        <4> QED
          BY <4>3, <4>7
      <3> QED
        BY <3>3, <3>4
    <2> HIDE DEF Holding
    <2>5. \A m \in 1 .. n : m - 1 \in Holding => m \in Holding
      BY <2>4
    <2>6. \A m \in 0 .. n : m \in Holding
      BY <2>3, <2>5, UpTo
    <2>7. Good(n)
      <3>1. n \in Holding
        BY <2>6
      <3> QED
        BY <1>3, <3>1 DEF Holding
    <2>8. at[n] \in Points /\ Before(at[n], hi) /\ Before(lo, lo)
      BY <1>3 DEF Before, Points
    <2> QED
      BY <2>2, <2>7, <2>8, FitsGrows
  <1> QED
    BY <1>2, <1>3

-----------------------------------------------------------------------------
(* The chunks of photos.                                                   *)

\* A set of photos has at most N of them.
LEMMA PhotosCount ==
    ASSUME NEW P \in SUBSET Photos
    PROVE  IsFiniteSet(P) /\ Cardinality(P) \in 0 .. N
  <1>1. IsFiniteSet(Photos) /\ Cardinality(Photos) = N
    BY NType, FS_Interval DEF Photos
  <1>2. IsFiniteSet(P) /\ Cardinality(P) <= Cardinality(Photos)
    BY <1>1, FS_Subset
  <1>3. Cardinality(P) \in Nat
    BY <1>2, FS_CardinalityType
  <1> QED
    BY <1>1, <1>2, <1>3, NType

\* The whole number of chunks in a number of photos.
LEMMA Quotient ==
    ASSUME NEW a \in Nat
    PROVE  /\ a \div Batch \in Nat
           /\ (a \div Batch) * Batch <= a /\ a < (a \div Batch + 1) * Batch
  BY NType

\* More chunks hold more photos.
LEMMA TimesBatch ==
    ASSUME NEW a \in Nat, NEW b \in Nat, a <= b
    PROVE  a * Batch \in Nat /\ b * Batch \in Nat /\ a * Batch <= b * Batch
  BY NType

\* Every photo is in one of the chunks.
LEMMA ChunksCover ==
    ASSUME NEW P \in SUBSET Photos
    PROVE  /\ Chunks(P) \in Nat
           /\ \A k \in 1 .. Chunks(P) : Chunk(P, k) \subseteq P
           /\ \A p \in P : \E k \in 1 .. Chunks(P) : p \in Chunk(P, k)
  <1> DEFINE c == Cardinality(P)
  <1> DEFINE d == Chunks(P)
  <1>1. c \in 0 .. N /\ c \in Nat
    BY PhotosCount, NType
  <1>2. c + Batch - 1 \in Nat
    BY <1>1, NType
  <1>3. d \in Nat /\ c + Batch - 1 < (d + 1) * Batch
    BY <1>2, Quotient DEF Chunks
  <1>4. c <= d * Batch /\ d * Batch \in Nat
    BY <1>1, <1>3, NType
  <1>5. ASSUME NEW p \in P PROVE \E k \in 1 .. d : p \in Chunk(P, k)
    <2> DEFINE Upto == {q \in P : q <= p}
    <2> DEFINE n == Cardinality(Upto)
    <2>1. n \in Nat /\ n <= c
      <3>1. Upto \subseteq P /\ IsFiniteSet(P)
        BY PhotosCount
      <3> QED
        BY <3>1, FS_Subset, FS_CardinalityType
    <2>2. n # 0
      <3>1. IsFiniteSet(Upto)
        BY PhotosCount, FS_Subset
      <3>2. p \in Upto
        BY DEF Photos
      <3> QED
        BY <3>1, <3>2, FS_EmptySet
    <2> HIDE DEF Upto, n, c, d
    <2> DEFINE k == (n - 1) \div Batch + 1
    <2>3. n - 1 \in Nat
      BY <2>1, <2>2
    <2>4. k - 1 \in Nat /\ k \in Nat /\ (k - 1) * Batch <= n - 1 /\ n - 1 < k * Batch
      BY <2>3, Quotient
    <2> HIDE DEF k
    <2>5. (k - 1) * Batch \in Nat /\ k * Batch \in Nat
      BY <2>4, NType
    <2>6. k <= d
      <3> SUFFICES ASSUME d <= k - 1 PROVE FALSE
        BY <1>3, <2>4
      <3>1. d * Batch <= (k - 1) * Batch
        BY <1>3, <2>4, TimesBatch
      <3> QED
        BY <1>1, <1>4, <2>1, <2>4, <2>5, <3>1
    <2>7. (k - 1) * Batch < n /\ n <= k * Batch
      BY <2>1, <2>4, <2>5
    <2>8. p \in Chunk(P, k)
      BY <2>7 DEF Chunk, Upto, n
    <2> QED
      BY <1>3, <2>4, <2>6, <2>8
  <1> QED
    BY <1>3, <1>5 DEF Chunk

\* The counts that chunked reports after each of its chunks never fall.
LEMMA ReportedGrows ==
    ASSUME NEW P \in SUBSET Photos, NEW k \in Nat
    PROVE  /\ ReportedSoFar(P, k) \in N - Cardinality(P) .. N
           /\ ReportedSoFar(P, k) \in 0 .. N
           /\ k # 0 => ReportedSoFar(P, k - 1) <= ReportedSoFar(P, k)
  <1> DEFINE c == Cardinality(P)
  <1>1. c \in Nat /\ c <= N
    BY PhotosCount, NType
  <1> HIDE DEF c
  <1>2. ASSUME NEW m \in Nat
        PROVE  /\ m * Batch \in Nat
               /\ ReportedSoFar(P, m) = N - c + IF m * Batch <= c THEN m * Batch ELSE c
    <2>1. m * Batch \in Nat
      BY NType
    <2>2. Min({m * Batch, c}) = IF m * Batch <= c THEN m * Batch ELSE c
      BY <1>1, <2>1, MinOfTwo
    <2> QED
      BY <2>1, <2>2 DEF ReportedSoFar, c
  <1>3. ReportedSoFar(P, k) \in N - c .. N /\ ReportedSoFar(P, k) \in 0 .. N
    BY <1>1, <1>2, NType
  <1>4. ASSUME k # 0 PROVE ReportedSoFar(P, k - 1) <= ReportedSoFar(P, k)
    <2>1. k - 1 \in Nat /\ (k - 1) * Batch <= k * Batch
      BY <1>4, TimesBatch
    <2> QED
      BY <1>1, <1>2, <2>1, NType
  <1> QED
    BY <1>3, <1>4 DEF c

-----------------------------------------------------------------------------
(* The program of run.                                                     *)

\* What fits between two points is a sequence of instructions that may stand
\* there.
LEMMA FitsSeq ==
    ASSUME NEW i, NEW s, NEW lo, NEW hi, Fits(i, s, lo, hi)
    PROVE  s \in Seq(Instrs) /\ Range(s) \subseteq Part(i, lo, hi)
  <1>1. Part(i, lo, hi) \subseteq Instrs
    BY DEF Part
  <1> QED
    BY <1>1, SeqMonotonic, RangeOfSeq DEF Fits

\* The instructions of the program.
LEMMA InstrType ==
    /\ Check \in Instrs
    /\ \A step \in 0 .. 7, done \in 0 .. N : Report(step, done) \in Instrs
    /\ \A what \in Works : \A P \in SUBSET Photos :
           (what \in {"exit", "leave"} => P = {}) => Work(what, P) \in Instrs
    /\ \A error \in AgentErrors : Raise(error) \in Instrs
    /\ \A what \in {"regions", "estimates"} : Await(what) \in Instrs
  <1>1. 0 \in 0 .. 7 /\ 0 \in 0 .. N /\ {} \in SUBSET Photos /\ "" \in Words
    BY NType DEF Words
  <1>2. /\ \A what \in Works : what \in Words
        /\ \A error \in AgentErrors : error \in Words
        /\ \A what \in {"regions", "estimates"} : what \in Words
    BY DEF Words
  <1>3. Check \in Instrs /\ \A step \in 0 .. 7, done \in 0 .. N : Report(step, done) \in Instrs
    BY <1>1 DEF Instrs, Check, Report, Instr
  <1>4. \A what \in Works : \A P \in SUBSET Photos :
            (what \in {"exit", "leave"} => P = {}) => Work(what, P) \in Instrs
    BY <1>1, <1>2 DEF Instrs, Work, Instr
  <1>5. \A error \in AgentErrors : Raise(error) \in Instrs
    BY <1>1, <1>2 DEF Instrs, Raise, Instr, AgentErrors, TalkErrors
  <1>6. \A what \in {"regions", "estimates"} : Await(what) \in Instrs
    BY <1>1, <1>2 DEF Instrs, Await, Instr
  <1> QED
    BY <1>3, <1>4, <1>5, <1>6

\* The cancellation may be checked anywhere.
LEMMA CheckFits ==
    ASSUME NEW i, NEW lo, NEW hi
    PROVE  Check \in Part(i, lo, hi)
  <1>1. Check \in Instrs /\ Check.do = "check"
    BY InstrType DEF Check, Instr
  <1>2. Exit.do = "work" /\ Leave.do = "work"
    BY DEF Exit, Leave, Work, Instr
  <1> QED
    BY <1>1, <1>2 DEF Part, IsWork

\* A report stands where its own step and count are.
LEMMA ReportFits ==
    ASSUME NEW i, NEW lo, NEW hi, NEW step \in 0 .. 7, NEW done \in 0 .. N,
           Before(lo, <<step, done>>), Before(<<step, done>>, hi)
    PROVE  Report(step, done) \in Part(i, lo, hi)
  <1>1. /\ Report(step, done) \in Instrs /\ Report(step, done).do = "report"
        /\ Shows(Report(step, done)) = <<step, done>>
    BY InstrType DEF Report, Shows, Instr
  <1>2. Exit.do = "work" /\ Leave.do = "work"
    BY DEF Exit, Leave, Work, Instr
  <1> QED
    BY <1>1, <1>2 DEF Part, IsWork

\* Work other than the two ends stands where its part has begun and not ended.
LEMMA WorkFits ==
    ASSUME NEW i, NEW lo, NEW hi, NEW what \in Works \ {"exit", "leave"},
           NEW P \in SUBSET Photos, what = "encode" => P \subseteq Pending(i),
           Before(lo, To(what)), Before(From(what), hi)
    PROVE  Work(what, P) \in Part(i, lo, hi)
  <1>1. /\ Work(what, P) \in Instrs /\ Work(what, P).do = "work"
        /\ Work(what, P).of = what /\ Work(what, P).photos = P
    BY InstrType DEF Work, Instr
  <1>2. Exit.of = "exit" /\ Leave.of = "leave"
    BY DEF Exit, Leave, Work, Instr
  <1> QED
    BY <1>1, <1>2 DEF Part, IsWork

\* The agent waits for its tasks within its own stage.
LEMMA AwaitFits ==
    ASSUME NEW i, NEW what \in {"regions", "estimates"}
    PROVE  Await(what) \in Part(i, <<5, 0>>, <<5, N>>)
  <1>1. Await(what) \in Instrs /\ Await(what).do = "await"
    BY InstrType DEF Await, Instr
  <1>2. Before(<<5, 0>>, <<5, 0>>) /\ Before(<<5, N>>, <<5, N>>)
    BY NType DEF Before
  <1>3. Exit.do = "work" /\ Leave.do = "work"
    BY DEF Exit, Leave, Work, Instr
  <1> QED
    BY <1>1, <1>2, <1>3 DEF Part, IsWork

\* The chunks of a part, between the photos that need no work and all photos.
LEMMA ChunksFit ==
    ASSUME NEW i, NEW P \in SUBSET Photos, NEW step \in {1, 2},
           NEW piece \in [1 .. Chunks(P) -> Seq(Instrs)],
           \A k \in 1 .. Chunks(P) :
               LET at == <<step, ReportedSoFar(P, k)>>
               IN  piece[k] \in Seq(Part(i, at, at))
    PROVE  /\ Fits(i, FlattenSeq(piece), <<step, N - Cardinality(P)>>, <<step, N>>)
           /\ \A k \in 1 .. Chunks(P) : Range(piece[k]) \subseteq Range(FlattenSeq(piece))
  <1> DEFINE n == Chunks(P)
  <1> DEFINE at == [k \in 1 .. n |-> <<step, ReportedSoFar(P, k)>>]
  <1>1. n \in Nat /\ Cardinality(P) \in 0 .. N /\ N \in Nat
    BY ChunksCover, PhotosCount, NType
  <1>2. \A k \in 1 .. n : /\ ReportedSoFar(P, k) \in 0 .. N
                          /\ ReportedSoFar(P, k) \in N - Cardinality(P) .. N
    BY <1>1, ReportedGrows
  <1>3. /\ at \in [1 .. n -> Points]
        /\ <<step, N - Cardinality(P)>> \in Points /\ <<step, N>> \in Points
    BY <1>1, <1>2 DEF Points
  <1>4. ASSUME NEW k \in 1 .. n
        PROVE  /\ Fits(i, piece[k], at[k], at[k])
               /\ Before(<<step, N - Cardinality(P)>>, at[k]) /\ Before(at[k], <<step, N>>)
    <2>1. at[k] \in Points /\ piece[k] \in Seq(Part(i, at[k], at[k]))
      BY <1>3
    <2>2. Fits(i, piece[k], at[k], at[k])
      BY <2>1, FitsAtPoint
    <2> QED
      BY <1>1, <1>2, <2>2 DEF Before
  <1>5. ASSUME NEW k \in 2 .. n PROVE Before(at[k - 1], at[k])
    <2>1. k \in Nat /\ k # 0 /\ k \in 1 .. n /\ k - 1 \in 1 .. n
      BY <1>1
    <2>2. ReportedSoFar(P, k - 1) <= ReportedSoFar(P, k)
      BY <2>1, ReportedGrows
    <2> QED
      BY <2>1, <2>2 DEF Before
  <1> HIDE DEF at, n
  <1> QED
    BY <1>1, <1>3, <1>4, <1>5, FitsFlat DEF n

\* The places of the pieces of work.
LEMMA WorksFit ==
    ASSUME NEW i, NEW P \in SUBSET Photos
    PROVE  /\ \A n \in 0 .. N : /\ Work("load", P) \in Part(i, <<1, n>>, <<1, n>>)
                                /\ Work("upsert", P) \in Part(i, <<2, n>>, <<2, n>>)
                                /\ P \subseteq Pending(i)
                                   => Work("encode", P) \in Part(i, <<2, n>>, <<2, n>>)
           /\ Work("fetch", P) \in Part(i, <<1, 0>>, <<1, 0>>)
           /\ Work("decoded", P) \in Part(i, <<1, N + 1>>, <<1, N + 1>>)
           /\ \A what \in {"engine", "qdrant", "enter"} :
                  Work(what, P) \in Part(i, <<0, 0>>, <<0, 0>>)
           /\ \A step \in 3 .. 5 : Work("vectors", P) \in Part(i, <<step, 0>>, <<step, 0>>)
           /\ Work("metrics", P) \in Part(i, <<6, 0>>, <<6, 0>>)
           /\ Work("budget", P) \in Part(i, <<5, 0>>, <<5, N>>)
  <1> USE NType, WorkFits DEF Works, From, To, Before, LateWorks
  <1>1. ASSUME NEW n \in 0 .. N
        PROVE  /\ Work("load", P) \in Part(i, <<1, n>>, <<1, n>>)
               /\ Work("upsert", P) \in Part(i, <<2, n>>, <<2, n>>)
               /\ P \subseteq Pending(i) => Work("encode", P) \in Part(i, <<2, n>>, <<2, n>>)
    <2>1. Work("load", P) \in Part(i, <<1, n>>, <<1, n>>)
      OBVIOUS
    <2>2. Work("upsert", P) \in Part(i, <<2, n>>, <<2, n>>)
      OBVIOUS
    <2>3. P \subseteq Pending(i) => Work("encode", P) \in Part(i, <<2, n>>, <<2, n>>)
      OBVIOUS
    <2> QED
      BY <2>1, <2>2, <2>3
  <1>2. Work("fetch", P) \in Part(i, <<1, 0>>, <<1, 0>>)
    OBVIOUS
  <1>3. Work("decoded", P) \in Part(i, <<1, N + 1>>, <<1, N + 1>>)
    OBVIOUS
  <1>4. ASSUME NEW what \in {"engine", "qdrant", "enter"}
        PROVE  Work(what, P) \in Part(i, <<0, 0>>, <<0, 0>>)
    OBVIOUS
  <1>5. ASSUME NEW step \in 3 .. 5
        PROVE  Work("vectors", P) \in Part(i, <<step, 0>>, <<step, 0>>)
    OBVIOUS
  <1>6. Work("metrics", P) \in Part(i, <<6, 0>>, <<6, 0>>)
    OBVIOUS
  <1>7. Work("budget", P) \in Part(i, <<5, 0>>, <<5, N>>)
    OBVIOUS
  <1> QED
    BY <1>1, <1>2, <1>3, <1>4, <1>5, <1>6, <1>7

\* A point of the progress is not behind itself.
LEMMA AtPoint ==
    ASSUME NEW p \in Points PROVE Before(p, p)
  BY DEF Points, Before

\* The chunks of downloads.
LEMMA LoadsFit ==
    ASSUME NEW i, NEW D \in SUBSET Photos
    PROVE  LET all == FlattenSeq([k \in 1 .. Chunks(D) |->
                          <<Check, Work("load", Chunk(D, k)), Check,
                            Report(1, ReportedSoFar(D, k))>>])
           IN  /\ Fits(i, all, <<1, N - Cardinality(D)>>, <<1, N>>)
               /\ \A p \in D : \E x \in Range(all) : IsWork(x, "load") /\ p \in x.photos
  <1> DEFINE piece == [k \in 1 .. Chunks(D) |->
                          <<Check, Work("load", Chunk(D, k)), Check,
                            Report(1, ReportedSoFar(D, k))>>]
  <1>1. ASSUME NEW k \in 1 .. Chunks(D)
        PROVE  LET at == <<1, ReportedSoFar(D, k)>>
               IN  piece[k] \in Seq(Part(i, at, at)) /\ piece[k] \in Seq(Instrs)
    <2>1. k \in Nat /\ Chunk(D, k) \in SUBSET Photos
      BY ChunksCover
    <2>2. PICK n \in 0 .. N : n = ReportedSoFar(D, k)
      BY <2>1, ReportedGrows
    <2>3. <<1, n>> \in Points /\ n \in Nat
      BY NType DEF Points
    <2>4. Report(1, n) \in Part(i, <<1, n>>, <<1, n>>)
      BY <2>3, AtPoint, ReportFits
    <2>5. /\ Check \in Part(i, <<1, n>>, <<1, n>>)
          /\ Work("load", Chunk(D, k)) \in Part(i, <<1, n>>, <<1, n>>)
      BY <2>1, CheckFits, WorksFit
    <2>6. piece[k] \in Seq(Part(i, <<1, n>>, <<1, n>>))
      BY <2>2, <2>4, <2>5
    <2>7. Part(i, <<1, n>>, <<1, n>>) \subseteq Instrs
      BY DEF Part
    <2> HIDE DEF piece
    <2> QED
      BY <2>2, <2>6, <2>7, SeqMonotonic
  <1>2. \A p \in D : \E k \in 1 .. Chunks(D) : p \in Chunk(D, k)
    BY ChunksCover
  <1>3. \A k \in 1 .. Chunks(D) : piece[k][2] = Work("load", Chunk(D, k)) /\ 2 \in DOMAIN piece[k]
    OBVIOUS
  <1>4. piece \in [1 .. Chunks(D) -> Seq(Instrs)]
    BY <1>1
  <1> HIDE DEF piece
  <1>5. /\ Fits(i, FlattenSeq(piece), <<1, N - Cardinality(D)>>, <<1, N>>)
        /\ \A k \in 1 .. Chunks(D) : Range(piece[k]) \subseteq Range(FlattenSeq(piece))
    BY <1>1, <1>4, ChunksFit
  <1>6. ASSUME NEW p \in D
        PROVE  \E x \in Range(FlattenSeq(piece)) : IsWork(x, "load") /\ p \in x.photos
    <2>1. PICK k \in 1 .. Chunks(D) : p \in Chunk(D, k)
      BY <1>2
    <2>2. Work("load", Chunk(D, k)) \in Range(FlattenSeq(piece))
      BY <1>3, <1>5 DEF Range
    <2> QED
      BY <2>1, <2>2 DEF IsWork, Work, Instr
  <1> QED
    BY <1>5, <1>6 DEF piece

\* The chunks of embeddings.
LEMMA UpsertsFit ==
    ASSUME NEW i, Pending(i) \in SUBSET Photos
    PROVE  LET P == Pending(i)
               all == FlattenSeq([k \in 1 .. Chunks(P) |->
                          <<Check, Work("encode", Chunk(P, k)), Check,
                            Work("upsert", Chunk(P, k)), Check,
                            Report(2, ReportedSoFar(P, k))>>])
           IN  /\ Fits(i, all, <<2, N - Cardinality(P)>>, <<2, N>>)
               /\ \A p \in P : \E x \in Range(all) : IsWork(x, "upsert") /\ p \in x.photos
  <1> DEFINE P == Pending(i)
  <1> DEFINE piece == [k \in 1 .. Chunks(P) |->
                          <<Check, Work("encode", Chunk(P, k)), Check,
                            Work("upsert", Chunk(P, k)), Check,
                            Report(2, ReportedSoFar(P, k))>>]
  <1>1. ASSUME NEW k \in 1 .. Chunks(P)
        PROVE  LET at == <<2, ReportedSoFar(P, k)>>
               IN  piece[k] \in Seq(Part(i, at, at)) /\ piece[k] \in Seq(Instrs)
    <2>1. k \in Nat /\ Chunk(P, k) \in SUBSET Photos /\ Chunk(P, k) \subseteq Pending(i)
      BY ChunksCover
    <2>2. PICK n \in 0 .. N : n = ReportedSoFar(P, k)
      BY <2>1, ReportedGrows
    <2>3. <<2, n>> \in Points /\ n \in Nat
      BY NType DEF Points
    <2>4. Report(2, n) \in Part(i, <<2, n>>, <<2, n>>)
      BY <2>3, AtPoint, ReportFits
    <2>5. /\ Check \in Part(i, <<2, n>>, <<2, n>>)
          /\ Work("encode", Chunk(P, k)) \in Part(i, <<2, n>>, <<2, n>>)
          /\ Work("upsert", Chunk(P, k)) \in Part(i, <<2, n>>, <<2, n>>)
      BY <2>1, CheckFits, WorksFit
    <2>6. piece[k] \in Seq(Part(i, <<2, n>>, <<2, n>>))
      BY <2>2, <2>4, <2>5
    <2>7. Part(i, <<2, n>>, <<2, n>>) \subseteq Instrs
      BY DEF Part
    <2> HIDE DEF piece
    <2> QED
      BY <2>2, <2>6, <2>7, SeqMonotonic
  <1>2. \A p \in P : \E k \in 1 .. Chunks(P) : p \in Chunk(P, k)
    BY ChunksCover
  <1>3. \A k \in 1 .. Chunks(P) : piece[k][4] = Work("upsert", Chunk(P, k)) /\ 4 \in DOMAIN piece[k]
    OBVIOUS
  <1>4. piece \in [1 .. Chunks(P) -> Seq(Instrs)]
    BY <1>1
  <1> HIDE DEF piece
  <1>5. /\ Fits(i, FlattenSeq(piece), <<2, N - Cardinality(P)>>, <<2, N>>)
        /\ \A k \in 1 .. Chunks(P) : Range(piece[k]) \subseteq Range(FlattenSeq(piece))
    BY <1>1, <1>4, ChunksFit
  <1>6. ASSUME NEW p \in P
        PROVE  \E x \in Range(FlattenSeq(piece)) : IsWork(x, "upsert") /\ p \in x.photos
    <2>1. PICK k \in 1 .. Chunks(P) : p \in Chunk(P, k)
      BY <1>2
    <2>2. Work("upsert", Chunk(P, k)) \in Range(FlattenSeq(piece))
      BY <1>3, <1>5 DEF Range
    <2> QED
      BY <2>1, <2>2 DEF IsWork, Work, Instr
  <1> QED
    BY <1>5, <1>6 DEF piece

\* A part that a condition leaves out fits wherever the part does.
LEMMA OptionalFits ==
    ASSUME NEW i, NEW s, NEW lo, NEW hi, Fits(i, s, lo, hi), NEW condition \in BOOLEAN
    PROVE  /\ Fits(i, Optional(condition, s), lo, hi)
           /\ condition => Optional(condition, s) = s
  BY NothingFits DEF Optional

\* DownloadPart loads what it lacks, and decodes behind all downloads.
LEMMA DownloadFits ==
    ASSUME NEW i \in Inputs
    PROVE  LET s == DownloadPart(i)
           IN  /\ Fits(i, s, <<1, 0>>, <<1, N + 1>>)
               /\ \A p \in Downloads(i) : \E x \in Range(s) : IsWork(x, "load") /\ p \in x.photos
               /\ Has(Range(s), "decoded")
               /\ i.reuse => Has(Range(s), "fetch")
  <1>1. i.reuse \in BOOLEAN /\ i.stored \in SUBSET Photos /\ i.measured \in SUBSET Photos
    BY PipelineAssumption DEF Photos
  <1>2. Downloads(i) \in SUBSET Photos
    BY DEF Downloads
  <1> DEFINE D == Downloads(i)
  <1> DEFINE n == N - Cardinality(D)
  <1>3. n \in 0 .. N /\ n \in Nat /\ N \in Nat
    BY <1>2, PhotosCount, NType
  <1> DEFINE all == FlattenSeq([k \in 1 .. Chunks(D) |->
                      <<Check, Work("load", Chunk(D, k)), Check,
                        Report(1, ReportedSoFar(D, k))>>])
  <1>4. /\ Fits(i, all, <<1, n>>, <<1, N>>)
        /\ \A p \in D : \E x \in Range(all) : IsWork(x, "load") /\ p \in x.photos
    BY <1>2, LoadsFit
  <1> DEFINE a == <<Report(1, 0)>>
             b == Optional(i.reuse, <<Work("fetch", {}), Check>>)
             c == Optional(D # Photos, <<Report(1, n)>>)
             e == <<Work("decoded", D)>>
  <1>5. DownloadPart(i) = a \o b \o c \o all \o e
    BY DEF DownloadPart
  <1>6. /\ <<1, 0>> \in Points /\ <<1, n>> \in Points /\ <<1, N>> \in Points
        /\ <<1, N + 1>> \in Points
        /\ Before(<<1, 0>>, <<1, 0>>) /\ Before(<<1, 0>>, <<1, n>>) /\ Before(<<1, n>>, <<1, n>>)
        /\ Before(<<1, n>>, <<1, N>>)
        /\ Before(<<1, 0>>, <<1, N>>) /\ Before(<<1, N>>, <<1, N + 1>>)
        /\ Before(<<1, N + 1>>, <<1, N + 1>>)
    BY <1>3 DEF Points, Before
  <1>7. Fits(i, a, <<1, 0>>, <<1, 0>>)
    <2>1. Report(1, 0) \in Part(i, <<1, 0>>, <<1, 0>>)
      BY <1>3, <1>6, ReportFits
    <2> QED
      BY <1>6, <2>1, FitsAtPoint
  <1>8. Fits(i, b, <<1, 0>>, <<1, 0>>) /\ (i.reuse => b = <<Work("fetch", {}), Check>>)
    <2>1. <<Work("fetch", {}), Check>> \in Seq(Part(i, <<1, 0>>, <<1, 0>>))
      BY WorksFit, CheckFits
    <2>2. Fits(i, <<Work("fetch", {}), Check>>, <<1, 0>>, <<1, 0>>)
      BY <1>6, <2>1, FitsAtPoint
    <2> QED
      BY <1>1, <2>2, OptionalFits
  <1>9. Fits(i, c, <<1, 0>>, <<1, n>>)
    <2>1. Report(1, n) \in Part(i, <<1, n>>, <<1, n>>)
      BY <1>3, <1>6, ReportFits
    <2>2. Fits(i, <<Report(1, n)>>, <<1, n>>, <<1, n>>)
      BY <1>6, <2>1, FitsAtPoint
    <2>3. Fits(i, <<Report(1, n)>>, <<1, 0>>, <<1, n>>)
      BY <1>6, <2>2, FitsGrows
    <2> QED
      BY <2>3, OptionalFits
  <1>10. Fits(i, e, <<1, N>>, <<1, N + 1>>)
    <2>1. <<Work("decoded", D)>> \in Seq(Part(i, <<1, N + 1>>, <<1, N + 1>>))
      BY <1>2, WorksFit
    <2>2. Fits(i, e, <<1, N + 1>>, <<1, N + 1>>)
      BY <1>6, <2>1, FitsAtPoint
    <2> QED
      BY <1>6, <2>2, FitsGrows
  <1>11. Work("decoded", D) \in Range(e)
    BY DEF Range
  <1>12. i.reuse => Work("fetch", {}) \in Range(b)
    <2>1. Work("fetch", {}) \in Range(<<Work("fetch", {}), Check>>)
      BY DEF Range
    <2> QED
      BY <1>8, <2>1
  <1> DEFINE p0 == <<1, 0>>
             p1 == <<1, 0>>
             p2 == <<1, 0>>
             p3 == <<1, n>>
             p4 == <<1, N>>
             p5 == <<1, N + 1>>
  <1> HIDE DEF a, b, c, e, all, p0, p1, p2, p3, p4, p5, n, D
  <1>a. /\ p0 \in Points /\ p1 \in Points /\ p2 \in Points
        /\ p3 \in Points /\ p4 \in Points /\ p5 \in Points
        /\ Before(p0, p1) /\ Before(p0, p2) /\ Before(p0, p3) /\ Before(p0, p4)
        /\ Before(p1, p2) /\ Before(p2, p3) /\ Before(p3, p4) /\ Before(p4, p5)
    BY <1>6 DEF p0, p1, p2, p3, p4, p5
  <1>b. /\ Fits(i, a, p0, p1) /\ Fits(i, b, p1, p2) /\ Fits(i, c, p2, p3)
        /\ Fits(i, all, p3, p4) /\ Fits(i, e, p4, p5)
    BY <1>4, <1>7, <1>8, <1>9, <1>10 DEF p0, p1, p2, p3, p4, p5
  <1>13. Fits(i, a \o b, p0, p2) /\ Range(a \o b) = Range(a) \cup Range(b)
    <2>1. /\ p0 \in Points /\ p1 \in Points /\ p2 \in Points
          /\ Before(p0, p1) /\ Before(p1, p2)
      BY <1>a
    <2>2. Fits(i, a, p0, p1) /\ Fits(i, b, p1, p2)
      BY <1>b
    <2> QED
      BY <2>1, <2>2, FitsConcat
  <1>14. /\ Fits(i, a \o b \o c, p0, p3)
         /\ Range(a \o b \o c) = Range(a \o b) \cup Range(c)
    <2>1. /\ p0 \in Points /\ p2 \in Points /\ p3 \in Points
          /\ Before(p0, p2) /\ Before(p2, p3)
      BY <1>a
    <2>2. Fits(i, a \o b, p0, p2) /\ Fits(i, c, p2, p3)
      BY <1>b, <1>13
    <2> QED
      BY <2>1, <2>2, FitsConcat
  <1>15. /\ Fits(i, a \o b \o c \o all, p0, p4)
         /\ Range(a \o b \o c \o all) = Range(a \o b \o c) \cup Range(all)
    <2>1. /\ p0 \in Points /\ p3 \in Points /\ p4 \in Points
          /\ Before(p0, p3) /\ Before(p3, p4)
      BY <1>a
    <2>2. Fits(i, a \o b \o c, p0, p3) /\ Fits(i, all, p3, p4)
      BY <1>b, <1>14
    <2> QED
      BY <2>1, <2>2, FitsConcat
  <1>16. /\ Fits(i, a \o b \o c \o all \o e, p0, p5)
         /\ Range(a \o b \o c \o all \o e) = Range(a \o b \o c \o all) \cup Range(e)
    <2>1. /\ p0 \in Points /\ p4 \in Points /\ p5 \in Points
          /\ Before(p0, p4) /\ Before(p4, p5)
      BY <1>a
    <2>2. Fits(i, a \o b \o c \o all, p0, p4) /\ Fits(i, e, p4, p5)
      BY <1>b, <1>15
    <2> QED
      BY <2>1, <2>2, FitsConcat
  <1>17. IsWork(Work("decoded", D), "decoded") /\ IsWork(Work("fetch", {}), "fetch")
    BY DEF IsWork, Work, Instr
  <1> QED
    BY <1>4, <1>5, <1>11, <1>12, <1>13, <1>14, <1>15, <1>16, <1>17 DEF Has, D, p0, p5

\* EmbedPart embeds and stores what has no vector.
LEMMA EmbedFits ==
    ASSUME NEW i \in Inputs
    PROVE  LET s == EmbedPart(i)
           IN  /\ Fits(i, s, <<2, 0>>, <<2, N>>)
               /\ \A p \in Pending(i) : \E x \in Range(s) : IsWork(x, "upsert") /\ p \in x.photos
  <1>1. Pending(i) \in SUBSET Photos
    BY DEF Pending
  <1> DEFINE P == Pending(i)
  <1> DEFINE n == N - Cardinality(P)
  <1>2. n \in 0 .. N /\ n \in Nat /\ N \in Nat
    BY <1>1, PhotosCount, NType
  <1> DEFINE all == FlattenSeq([k \in 1 .. Chunks(P) |->
                      <<Check, Work("encode", Chunk(P, k)), Check,
                        Work("upsert", Chunk(P, k)), Check,
                        Report(2, ReportedSoFar(P, k))>>])
  <1>3. /\ Fits(i, all, <<2, n>>, <<2, N>>)
        /\ \A p \in P : \E x \in Range(all) : IsWork(x, "upsert") /\ p \in x.photos
    BY <1>1, UpsertsFit
  <1> DEFINE a == <<Check, Report(2, 0)>>
             c == Optional(P # Photos, <<Report(2, n)>>)
  <1>4. EmbedPart(i) = a \o c \o all
    BY DEF EmbedPart
  <1>5. /\ <<2, 0>> \in Points /\ <<2, n>> \in Points /\ <<2, N>> \in Points
        /\ Before(<<2, 0>>, <<2, 0>>) /\ Before(<<2, 0>>, <<2, n>>) /\ Before(<<2, n>>, <<2, n>>)
        /\ Before(<<2, n>>, <<2, N>>)
    BY <1>2 DEF Points, Before
  <1>6. Fits(i, a, <<2, 0>>, <<2, 0>>)
    <2>1. Report(2, 0) \in Part(i, <<2, 0>>, <<2, 0>>) /\ Check \in Part(i, <<2, 0>>, <<2, 0>>)
      BY <1>2, <1>5, ReportFits, CheckFits
    <2>2. a \in Seq(Part(i, <<2, 0>>, <<2, 0>>))
      BY <2>1
    <2> QED
      BY <1>5, <2>2, FitsAtPoint
  <1>7. Fits(i, c, <<2, 0>>, <<2, n>>)
    <2>1. Report(2, n) \in Part(i, <<2, n>>, <<2, n>>)
      BY <1>2, <1>5, ReportFits
    <2>4. <<Report(2, n)>> \in Seq(Part(i, <<2, n>>, <<2, n>>))
      BY <2>1
    <2>2. Fits(i, <<Report(2, n)>>, <<2, n>>, <<2, n>>)
      BY <1>5, <2>4, FitsAtPoint
    <2>3. Fits(i, <<Report(2, n)>>, <<2, 0>>, <<2, n>>)
      BY <1>5, <2>2, FitsGrows
    <2> QED
      BY <2>3, OptionalFits
  <1> DEFINE p0 == <<2, 0>>
             p1 == <<2, 0>>
             p2 == <<2, n>>
             p3 == <<2, N>>
  <1> HIDE DEF a, c, all, p0, p1, p2, p3, n, P
  <1>a. /\ p0 \in Points /\ p1 \in Points /\ p2 \in Points /\ p3 \in Points
        /\ Before(p0, p1) /\ Before(p0, p2) /\ Before(p1, p2) /\ Before(p2, p3)
    BY <1>5 DEF p0, p1, p2, p3
  <1>b. Fits(i, a, p0, p1) /\ Fits(i, c, p1, p2) /\ Fits(i, all, p2, p3)
    BY <1>3, <1>6, <1>7 DEF p0, p1, p2, p3
  <1>8. Fits(i, a \o c, p0, p2) /\ Range(a \o c) = Range(a) \cup Range(c)
    BY <1>a, <1>b, FitsConcat
  <1>9. /\ Fits(i, a \o c \o all, p0, p3)
        /\ Range(a \o c \o all) = Range(a \o c) \cup Range(all)
    BY <1>a, <1>b, <1>8, FitsConcat
  <1> QED
    BY <1>3, <1>4, <1>9 DEF P, p0, p3

\* A stage with its operation, whose calls come between its two reports.
LEMMA StageFits ==
    ASSUME NEW i, NEW step \in 3 .. 7, NEW operation,
           Fits(i, operation, <<step, 0>>, <<step, N>>)
    PROVE  /\ Fits(i, Stage(step, operation), <<step, 0>>, <<step, N>>)
           /\ Report(step, N) \in Range(Stage(step, operation))
  <1> DEFINE a == <<Check, Report(step, 0), Check>>
             b == <<Check, Report(step, N)>>
  <1>1. Stage(step, operation) = a \o operation \o b
    BY DEF Stage
  <1>2. step \in 0 .. 7 /\ 0 \in 0 .. N /\ N \in 0 .. N
    BY NType
  <1>3. /\ <<step, 0>> \in Points /\ <<step, N>> \in Points
        /\ Before(<<step, 0>>, <<step, 0>>) /\ Before(<<step, 0>>, <<step, N>>)
        /\ Before(<<step, N>>, <<step, N>>)
    BY <1>2, NType DEF Points, Before
  <1>4. Fits(i, a, <<step, 0>>, <<step, 0>>)
    <2>1. /\ Report(step, 0) \in Part(i, <<step, 0>>, <<step, 0>>)
          /\ Check \in Part(i, <<step, 0>>, <<step, 0>>)
      BY <1>2, <1>3, ReportFits, CheckFits
    <2>2. a \in Seq(Part(i, <<step, 0>>, <<step, 0>>))
      BY <2>1
    <2> QED
      BY <1>3, <2>2, FitsAtPoint
  <1>5. Fits(i, b, <<step, N>>, <<step, N>>)
    <2>1. /\ Report(step, N) \in Part(i, <<step, N>>, <<step, N>>)
          /\ Check \in Part(i, <<step, N>>, <<step, N>>)
      BY <1>2, <1>3, ReportFits, CheckFits
    <2>2. b \in Seq(Part(i, <<step, N>>, <<step, N>>))
      BY <2>1
    <2> QED
      BY <1>3, <2>2, FitsAtPoint
  <1>6. Report(step, N) \in Range(b)
    BY DEF Range
  <1> DEFINE p0 == <<step, 0>>
             p1 == <<step, 0>>
             p2 == <<step, N>>
             p3 == <<step, N>>
  <1> HIDE DEF a, b, p0, p1, p2, p3
  <1>a. /\ p0 \in Points /\ p1 \in Points /\ p2 \in Points /\ p3 \in Points
        /\ Before(p0, p1) /\ Before(p0, p2) /\ Before(p1, p2) /\ Before(p2, p3)
    BY <1>3 DEF p0, p1, p2, p3
  <1>b. Fits(i, a, p0, p1) /\ Fits(i, operation, p1, p2) /\ Fits(i, b, p2, p3)
    BY <1>4, <1>5 DEF p0, p1, p2, p3
  <1>7. Fits(i, a \o operation, p0, p2)
    BY <1>a, <1>b, FitsConcat
  <1>8. /\ Fits(i, a \o operation \o b, p0, p3)
        /\ Range(a \o operation \o b) = Range(a \o operation) \cup Range(b)
    BY <1>a, <1>b, <1>7, FitsConcat
  <1> QED
    BY <1>1, <1>6, <1>8 DEF p0, p3

\* The agent's waiter, which reports as many tasks as it finds done.
LEMMA AgentFits ==
    ASSUME NEW i
    PROVE  Fits(i, AgentPart, <<5, 0>>, <<5, N>>)
  <1> DEFINE here == {Check, Work("budget", {}), Await("regions"), Await("estimates")}
  <1>1. AgentPart \in Seq(here)
    BY DEF AgentPart, WaiterCheck
  <1>2. here \subseteq Part(i, <<5, 0>>, <<5, N>>)
    BY WorksFit, CheckFits, AwaitFits
  <1>3. ASSUME NEW x \in here, NEW y \in here PROVE Leads(x, y, 0)
    <2>1. /\ x.do \in {"check", "await"} \/ x = Work("budget", {})
          /\ y.do \in {"check", "await"} \/ y = Work("budget", {})
      <3>1. Check.do = "check" /\ Await("regions").do = "await" /\ Await("estimates").do = "await"
        BY DEF Check, Await, Instr
      <3> QED
        BY <3>1
    <2>2. /\ Work("budget", {}).do = "work" /\ Work("budget", {}).of = "budget"
          /\ Exit.do = "work" /\ Exit.of = "exit" /\ Leave.do = "work" /\ Leave.of = "leave"
      BY DEF Exit, Leave, Work, Instr
    <2>3. Before(From("budget"), To("budget"))
      BY DEF Before, From, To, LateWorks
    <2> HIDE DEF here
    <2> QED
      BY <2>1, <2>2, <2>3 DEF Leads, LateWorks
  <1> HIDE DEF here
  <1>4. Range(AgentPart) \subseteq here
    BY <1>1, RangeOfSeq
  <1>5. InOrder(AgentPart, 0)
    BY <1>3, <1>4, OrderFree
  <1> QED
    BY <1>1, <1>2, <1>5, SeqMonotonic DEF Fits

\* The program without its end.
Body(i) ==
    <<Check, Work("engine", {}), Check, Work("qdrant", {}), Check, Check, Work("enter", {})>>
    \o DownloadPart(i)
    \o EmbedPart(i)
    \o Stage(3, <<Work("vectors", {})>>)
    \o Stage(4, <<Work("vectors", {})>>)
    \o Stage(5, <<Work("vectors", {})>> \o Optional(i.agent, AgentPart))
    \o Stage(6, <<Work("metrics", {})>>)
    \o Stage(7, <<>>)

\* The stages that group, sort, ask the agent, measure and finish.
LEMMA StagesFit ==
    ASSUME NEW i \in Inputs
    PROVE  /\ \A step \in 3 .. 4 :
                  Fits(i, Stage(step, <<Work("vectors", {})>>), <<step, 0>>, <<step, N>>)
           /\ Fits(i, Stage(5, <<Work("vectors", {})>> \o Optional(i.agent, AgentPart)),
                   <<5, 0>>, <<5, N>>)
           /\ Fits(i, Stage(6, <<Work("metrics", {})>>), <<6, 0>>, <<6, N>>)
           /\ Fits(i, Stage(7, <<>>), <<7, 0>>, <<7, N>>)
           /\ Report(7, N) \in Range(Stage(7, <<>>))
  <1>1. ASSUME NEW step \in 3 .. 7, NEW what \in Works,
               Work(what, {}) \in Part(i, <<step, 0>>, <<step, 0>>)
        PROVE  /\ Fits(i, <<Work(what, {})>>, <<step, 0>>, <<step, N>>)
               /\ Fits(i, <<Work(what, {})>>, <<step, 0>>, <<step, 0>>)
    <2>1. /\ <<step, 0>> \in Points /\ <<step, N>> \in Points
          /\ Before(<<step, 0>>, <<step, 0>>) /\ Before(<<step, 0>>, <<step, N>>)
      BY NType DEF Points, Before
    <2>2. <<Work(what, {})>> \in Seq(Part(i, <<step, 0>>, <<step, 0>>))
      BY <1>1
    <2>3. Fits(i, <<Work(what, {})>>, <<step, 0>>, <<step, 0>>)
      BY <2>1, <2>2, FitsAtPoint
    <2> QED
      BY <2>1, <2>3, FitsGrows
  <1>2. ASSUME NEW step \in 3 .. 4
        PROVE  Fits(i, Stage(step, <<Work("vectors", {})>>), <<step, 0>>, <<step, N>>)
    <2>1. step \in 3 .. 7 /\ "vectors" \in Works
      BY DEF Works
    <2>2. Work("vectors", {}) \in Part(i, <<step, 0>>, <<step, 0>>)
      BY WorksFit
    <2> QED
      BY <1>1, <2>1, <2>2, StageFits
  <1>3. Fits(i, Stage(5, <<Work("vectors", {})>> \o Optional(i.agent, AgentPart)),
             <<5, 0>>, <<5, N>>)
    <2>1. Work("vectors", {}) \in Part(i, <<5, 0>>, <<5, 0>>) /\ 5 \in 3 .. 7 /\ "vectors" \in Works
      BY WorksFit DEF Works
    <2>2. Fits(i, <<Work("vectors", {})>>, <<5, 0>>, <<5, 0>>)
      BY <1>1, <2>1
    <2>3. i.agent \in BOOLEAN
      BY PipelineAssumption
    <2>4. Fits(i, Optional(i.agent, AgentPart), <<5, 0>>, <<5, N>>)
      BY <2>3, AgentFits, OptionalFits
    <2>5. /\ <<5, 0>> \in Points /\ <<5, N>> \in Points
          /\ Before(<<5, 0>>, <<5, 0>>) /\ Before(<<5, 0>>, <<5, N>>)
      BY NType DEF Points, Before
    <2> DEFINE s == <<Work("vectors", {})>>
               t == Optional(i.agent, AgentPart)
    <2> HIDE DEF s, t
    <2>6. Fits(i, s \o t, <<5, 0>>, <<5, N>>)
      <3> DEFINE p0 == <<5, 0>>
                 p1 == <<5, 0>>
                 p2 == <<5, N>>
      <3> HIDE DEF p0, p1, p2
      <3>1. p0 \in Points /\ p1 \in Points /\ p2 \in Points /\ Before(p0, p1) /\ Before(p1, p2)
        BY <2>5 DEF p0, p1, p2
      <3>2. Fits(i, s, p0, p1) /\ Fits(i, t, p1, p2)
        BY <2>2, <2>4 DEF p0, p1, p2, s, t
      <3>3. Fits(i, s \o t, p0, p2)
        BY <3>1, <3>2, FitsConcat
      <3> QED
        BY <3>3 DEF p0, p2
    <2>7. Fits(i, Stage(5, s \o t), <<5, 0>>, <<5, N>>)
      BY <2>1, <2>6, StageFits
    <2> QED
      BY <2>7 DEF s, t
  <1>4. Fits(i, Stage(6, <<Work("metrics", {})>>), <<6, 0>>, <<6, N>>)
    <2>1. Work("metrics", {}) \in Part(i, <<6, 0>>, <<6, 0>>) /\ 6 \in 3 .. 7 /\ "metrics" \in Works
      BY WorksFit DEF Works
    <2> QED
      BY <1>1, <2>1, StageFits
  <1>5. /\ Fits(i, Stage(7, <<>>), <<7, 0>>, <<7, N>>)
        /\ Report(7, N) \in Range(Stage(7, <<>>))
    <2>1. Fits(i, <<>>, <<7, 0>>, <<7, N>>) /\ 7 \in 3 .. 7
      BY NothingFits
    <2> QED
      BY <2>1, StageFits
  <1> QED
    BY <1>2, <1>3, <1>4, <1>5

\* The body of the program is in order and holds all its work and its last
\* report.
LEMMA BodyFits ==
    ASSUME NEW i \in Inputs
    PROVE  /\ Fits(i, Body(i), <<0, 0>>, <<8, 0>>)
           /\ Range(DownloadPart(i)) \subseteq Range(Body(i))
           /\ Range(EmbedPart(i)) \subseteq Range(Body(i))
           /\ Report(7, N) \in Range(Body(i))
  <1> DEFINE a  == <<Check, Work("engine", {}), Check, Work("qdrant", {}), Check, Check,
                     Work("enter", {})>>
             d  == DownloadPart(i)
             e  == EmbedPart(i)
             s3 == Stage(3, <<Work("vectors", {})>>)
             s4 == Stage(4, <<Work("vectors", {})>>)
             s5 == Stage(5, <<Work("vectors", {})>> \o Optional(i.agent, AgentPart))
             s6 == Stage(6, <<Work("metrics", {})>>)
             s7 == Stage(7, <<>>)
  <1> DEFINE p0 == <<0, 0>>
             p1 == <<1, 0>>
             p2 == <<2, 0>>
             p3 == <<3, 0>>
             p4 == <<4, 0>>
             p5 == <<5, 0>>
             p6 == <<6, 0>>
             p7 == <<7, 0>>
             p8 == <<8, 0>>
  <1>1. Fits(i, a, p0, p1)
    <2>1. /\ Check \in Part(i, <<0, 0>>, <<0, 0>>)
          /\ Work("engine", {}) \in Part(i, <<0, 0>>, <<0, 0>>)
          /\ Work("qdrant", {}) \in Part(i, <<0, 0>>, <<0, 0>>)
          /\ Work("enter", {}) \in Part(i, <<0, 0>>, <<0, 0>>)
      BY CheckFits, WorksFit
    <2>2. a \in Seq(Part(i, <<0, 0>>, <<0, 0>>))
      BY <2>1
    <2>3. <<0, 0>> \in Points /\ <<1, 0>> \in Points
          /\ Before(<<0, 0>>, <<0, 0>>) /\ Before(<<0, 0>>, <<1, 0>>)
      BY DEF Points, Before
    <2> HIDE DEF a
    <2> QED
      BY <2>2, <2>3, FitsAtPoint, FitsGrows
  <1>2. /\ Fits(i, d, p1, p2) /\ Fits(i, e, p2, p3) /\ Fits(i, s3, p3, p4)
        /\ Fits(i, s4, p4, p5) /\ Fits(i, s5, p5, p6) /\ Fits(i, s6, p6, p7)
        /\ Fits(i, s7, p7, p8)
    <2>1. ASSUME NEW k \in 1 .. 7, NEW n \in Nat, NEW s, Fits(i, s, <<k, 0>>, <<k, n>>)
          PROVE  Fits(i, s, <<k, 0>>, <<k + 1, 0>>)
      <3>1. /\ <<k, 0>> \in Points /\ <<k, n>> \in Points /\ <<k + 1, 0>> \in Points
            /\ Before(<<k, 0>>, <<k, 0>>) /\ Before(<<k, n>>, <<k + 1, 0>>)
        BY DEF Points, Before
      <3> QED
        BY <2>1, <3>1, FitsGrows
    <2>2. Fits(i, d, <<1, 0>>, <<1 + 1, 0>>)
      <3>1. Fits(i, d, <<1, 0>>, <<1, N + 1>>) /\ N + 1 \in Nat /\ 1 \in 1 .. 7
        BY DownloadFits, NType
      <3> HIDE DEF d
      <3> QED
        BY <2>1, <3>1
    <2>3. Fits(i, e, <<2, 0>>, <<2 + 1, 0>>)
      <3>1. Fits(i, e, <<2, 0>>, <<2, N>>) /\ N \in Nat /\ 2 \in 1 .. 7
        BY EmbedFits, NType
      <3> HIDE DEF e
      <3> QED
        BY <2>1, <3>1
    <2>4. Fits(i, s3, <<3, 0>>, <<3 + 1, 0>>)
      <3>1. Fits(i, s3, <<3, 0>>, <<3, N>>) /\ N \in Nat /\ 3 \in 1 .. 7
        BY StagesFit, NType
      <3> HIDE DEF s3
      <3> QED
        BY <2>1, <3>1
    <2>5. Fits(i, s4, <<4, 0>>, <<4 + 1, 0>>)
      <3>1. Fits(i, s4, <<4, 0>>, <<4, N>>) /\ N \in Nat /\ 4 \in 1 .. 7
        BY StagesFit, NType
      <3> HIDE DEF s4
      <3> QED
        BY <2>1, <3>1
    <2>6. Fits(i, s5, <<5, 0>>, <<5 + 1, 0>>)
      <3> HIDE DEF a, d, e, s3, s4, s6, s7
      <3>1. Fits(i, s5, <<5, 0>>, <<5, N>>)
        BY StagesFit
      <3>2. N \in Nat /\ 5 \in 1 .. 7
        BY NType
      <3> HIDE DEF s5
      <3> QED
        BY <2>1, <3>1, <3>2
    <2>7. Fits(i, s6, <<6, 0>>, <<6 + 1, 0>>)
      <3>1. Fits(i, s6, <<6, 0>>, <<6, N>>) /\ N \in Nat /\ 6 \in 1 .. 7
        BY StagesFit, NType
      <3> HIDE DEF s6
      <3> QED
        BY <2>1, <3>1
    <2>8. Fits(i, s7, <<7, 0>>, <<7 + 1, 0>>)
      <3>1. Fits(i, s7, <<7, 0>>, <<7, N>>) /\ N \in Nat /\ 7 \in 1 .. 7
        BY StagesFit, NType
      <3> HIDE DEF s7
      <3> QED
        BY <2>1, <3>1
    <2> HIDE DEF d, e, s3, s4, s5, s6, s7
    <2> QED
      BY <2>2, <2>3, <2>4, <2>5, <2>6, <2>7, <2>8
  <1>3. Body(i) = a \o d \o e \o s3 \o s4 \o s5 \o s6 \o s7
    BY DEF Body
  <1>4. Report(7, N) \in Range(s7)
    BY StagesFit
  <1>5. /\ Before(p0, p1) /\ Before(p0, p2) /\ Before(p0, p3) /\ Before(p0, p4)
        /\ Before(p0, p5) /\ Before(p0, p6) /\ Before(p0, p7) /\ Before(p1, p2)
        /\ Before(p2, p3) /\ Before(p3, p4) /\ Before(p4, p5) /\ Before(p5, p6)
        /\ Before(p6, p7) /\ Before(p7, p8)
    BY DEF Before
  <1>6. /\ p0 \in Points /\ p1 \in Points /\ p2 \in Points /\ p3 \in Points /\ p4 \in Points
        /\ p5 \in Points /\ p6 \in Points /\ p7 \in Points /\ p8 \in Points
    BY DEF Points
  <1> HIDE DEF a, d, e, s3, s4, s5, s6, s7, p0, p1, p2, p3, p4, p5, p6, p7, p8
  <1>7. /\ Fits(i, a \o d, p0, p2)
        /\ Range(a \o d) = Range(a) \cup Range(d)
    <2>1. p0 \in Points /\ p1 \in Points /\ p2 \in Points /\ Before(p0, p1) /\ Before(p1, p2)
      BY <1>5, <1>6
    <2>2. Fits(i, a, p0, p1) /\ Fits(i, d, p1, p2)
      BY <1>1, <1>2
    <2> QED
      BY <2>1, <2>2, FitsConcat
  <1>8. /\ Fits(i, a \o d \o e, p0, p3)
        /\ Range(a \o d \o e) = Range(a \o d) \cup Range(e)
    <2>1. p0 \in Points /\ p2 \in Points /\ p3 \in Points /\ Before(p0, p2) /\ Before(p2, p3)
      BY <1>5, <1>6
    <2>2. Fits(i, a \o d, p0, p2) /\ Fits(i, e, p2, p3)
      BY <1>2, <1>7
    <2> QED
      BY <2>1, <2>2, FitsConcat
  <1>9. /\ Fits(i, a \o d \o e \o s3, p0, p4)
        /\ Range(a \o d \o e \o s3) = Range(a \o d \o e) \cup Range(s3)
    <2>1. p0 \in Points /\ p3 \in Points /\ p4 \in Points /\ Before(p0, p3) /\ Before(p3, p4)
      BY <1>5, <1>6
    <2>2. Fits(i, a \o d \o e, p0, p3) /\ Fits(i, s3, p3, p4)
      BY <1>2, <1>8
    <2> QED
      BY <2>1, <2>2, FitsConcat
  <1>10. /\ Fits(i, a \o d \o e \o s3 \o s4, p0, p5)
        /\ Range(a \o d \o e \o s3 \o s4) = Range(a \o d \o e \o s3) \cup Range(s4)
    <2>1. p0 \in Points /\ p4 \in Points /\ p5 \in Points /\ Before(p0, p4) /\ Before(p4, p5)
      BY <1>5, <1>6
    <2>2. Fits(i, a \o d \o e \o s3, p0, p4) /\ Fits(i, s4, p4, p5)
      BY <1>2, <1>9
    <2> QED
      BY <2>1, <2>2, FitsConcat
  <1>11. /\ Fits(i, a \o d \o e \o s3 \o s4 \o s5, p0, p6)
        /\ Range(a \o d \o e \o s3 \o s4 \o s5) = Range(a \o d \o e \o s3 \o s4) \cup Range(s5)
    <2>1. p0 \in Points /\ p5 \in Points /\ p6 \in Points /\ Before(p0, p5) /\ Before(p5, p6)
      BY <1>5, <1>6
    <2> DEFINE r == a \o d \o e \o s3 \o s4
    <2>2. Fits(i, r, p0, p5) /\ Fits(i, s5, p5, p6)
      BY <1>2, <1>10
    <2> HIDE DEF r
    <2>3. Fits(i, r \o s5, p0, p6) /\ Range(r \o s5) = Range(r) \cup Range(s5)
      BY <2>1, <2>2, FitsConcat
    <2> QED
      BY <2>3 DEF r
  <1>12. /\ Fits(i, a \o d \o e \o s3 \o s4 \o s5 \o s6, p0, p7)
        /\ Range(a \o d \o e \o s3 \o s4 \o s5 \o s6)
           = Range(a \o d \o e \o s3 \o s4 \o s5) \cup Range(s6)
    <2>1. p0 \in Points /\ p6 \in Points /\ p7 \in Points /\ Before(p0, p6) /\ Before(p6, p7)
      BY <1>5, <1>6
    <2>2. Fits(i, a \o d \o e \o s3 \o s4 \o s5, p0, p6) /\ Fits(i, s6, p6, p7)
      BY <1>2, <1>11
    <2> QED
      BY <2>1, <2>2, FitsConcat
  <1>13. /\ Fits(i, a \o d \o e \o s3 \o s4 \o s5 \o s6 \o s7, p0, p8)
        /\ Range(a \o d \o e \o s3 \o s4 \o s5 \o s6 \o s7)
           = Range(a \o d \o e \o s3 \o s4 \o s5 \o s6) \cup Range(s7)
    <2>1. p0 \in Points /\ p7 \in Points /\ p8 \in Points /\ Before(p0, p7) /\ Before(p7, p8)
      BY <1>5, <1>6
    <2>2. Fits(i, a \o d \o e \o s3 \o s4 \o s5 \o s6, p0, p7) /\ Fits(i, s7, p7, p8)
      BY <1>2, <1>12
    <2> QED
      BY <2>1, <2>2, FitsConcat
  <1>14. /\ Range(d) \subseteq Range(Body(i)) /\ Range(e) \subseteq Range(Body(i))
         /\ Range(s7) \subseteq Range(Body(i))
    BY <1>3, <1>7, <1>8, <1>9, <1>10, <1>11, <1>12, <1>13
  <1>15. Fits(i, Body(i), p0, p8)
    BY <1>3, <1>13
  <1> QED
    BY <1>4, <1>14, <1>15 DEF p0, p8, d, e

\* The program of a job, with all that it has to do.
LEMMA ProgramSound ==
    ASSUME NEW i \in Inputs
    PROVE  LET all == Range(Program(i))
           IN  /\ Program(i) \in Seq(Instrs) /\ InOrder(Program(i), 0)
               /\ Exit \in all /\ Leave \notin all
               /\ \A x \in all : x.do # "raise"
               /\ \A x \in all : IsWork(x, "encode") => x.photos \subseteq Pending(i)
               /\ Has(all, "decoded") /\ (i.reuse => Has(all, "fetch"))
               /\ Downloads(i) \subseteq Gives(all, "load")
               /\ Pending(i) \subseteq Gives(all, "upsert")
               /\ Report(7, N) \in all
  <1> DEFINE s == Body(i)
             end == <<Check, Exit>>
  <1>1. Program(i) = s \o end
    BY DEF Program, Body, Exit
  <1>2. /\ s \in Seq(Instrs) /\ InOrder(s, 0)
        /\ Range(s) \subseteq Part(i, <<0, 0>>, <<8, 0>>)
    BY BodyFits, FitsSeq DEF Fits
  <1>3. Exit \in Instrs /\ Check \in Instrs /\ Leave \in Instrs
    BY InstrType DEF Exit, Leave, Works
  <1>4. end \in Seq(Instrs) /\ Range(end) = {Check, Exit}
    BY <1>3 DEF Range
  <1>5. /\ Check.do = "check" /\ Exit.do = "work" /\ Exit.of = "exit"
        /\ Leave.do = "work" /\ Leave.of = "leave"
    BY DEF Check, Exit, Leave, Work, Instr
  <1>6. InOrder(end, 0)
    <2>1. Len(end) = 2 /\ end[1] = Check /\ DOMAIN end = 1 .. 2
      OBVIOUS
    <2>2. \A y : Leads(Check, y, 0)
      BY <1>5 DEF Leads
    <2> HIDE DEF end
    <2> QED
      BY <2>1, <2>2 DEF InOrder
  <1>7. ASSUME NEW x \in Range(s), NEW y \in Range(end) PROVE Leads(x, y, 0)
    <2>1. x # Exit /\ x # Leave /\ x \in Instrs
      BY <1>2 DEF Part
    <2>2. Before(From(x.of), To("exit"))
      <3>1. From(x.of) \in {<<1, N + 1>>, <<2, 0>>, <<3, 0>>, <<0, 0>>} /\ To("exit") = <<8, 0>>
        BY DEF From, To, LateWorks
      <3> QED
        BY <3>1 DEF Before
    <2> QED
      BY <1>4, <1>5, <2>1, <2>2 DEF Leads, LateWorks
  <1>8. Program(i) \in Seq(Instrs) /\ InOrder(Program(i), 0)
    <2> HIDE DEF s, end
    <2> QED
      BY <1>1, <1>2, <1>4, <1>6, <1>7, OrderConcat, ConcatProperties
  <1>9. Range(Program(i)) = Range(s) \cup {Check, Exit}
    <2> HIDE DEF s, end
    <2> QED
      BY <1>1, <1>2, <1>4, RangeConcatenation
  <1>10. /\ Leave \notin Range(Program(i))
         /\ \A x \in Range(Program(i)) : x.do # "raise"
         /\ \A x \in Range(Program(i)) : IsWork(x, "encode") => x.photos \subseteq Pending(i)
    <2>1. \A x \in Range(s) : /\ x # Leave /\ x.do # "raise"
                              /\ IsWork(x, "encode") => x.photos \subseteq Pending(i)
      BY <1>2 DEF Part
    <2>2. ~IsWork(Check, "encode") /\ ~IsWork(Exit, "encode") /\ Exit # Leave /\ Check # Leave
      BY <1>5 DEF IsWork
    <2> QED
      BY <1>5, <1>9, <2>1, <2>2
  <1>11. /\ Range(DownloadPart(i)) \subseteq Range(Program(i))
         /\ Range(EmbedPart(i)) \subseteq Range(Program(i))
         /\ Report(7, N) \in Range(Program(i)) /\ Exit \in Range(Program(i))
    BY <1>9, BodyFits
  <1>12. Has(Range(Program(i)), "decoded") /\ (i.reuse => Has(Range(Program(i)), "fetch"))
    BY <1>11, DownloadFits DEF Has
  <1>13. Downloads(i) \subseteq Gives(Range(Program(i)), "load")
    BY <1>11, DownloadFits DEF Gives
  <1>14. Pending(i) \subseteq Gives(Range(Program(i)), "upsert")
    BY <1>11, EmbedFits DEF Gives
  <1> QED
    BY <1>8, <1>10, <1>11, <1>12, <1>13, <1>14

-----------------------------------------------------------------------------
(* How the thread goes on.                                                 *)

\* The rest of the program and its next instruction.
LEMMA RestFacts ==
    ASSUME PipeTypeOK
    PROVE  /\ pipe.rest \in Seq(Instrs) /\ Left \subseteq Instrs
           /\ pipe.rest # <<>> => /\ Now \in Instrs /\ Tail(pipe.rest) \in Seq(Instrs)
                                  /\ Left = {Now} \cup Range(Tail(pipe.rest))
  <1>1. pipe.rest \in Seq(Instrs)
    BY DEF PipeTypeOK, Pipes
  <1>2. Left \subseteq Instrs
    BY <1>1, RangeOfSeq DEF Left
  <1>3. pipe.rest # <<>> => /\ Now \in Instrs /\ Tail(pipe.rest) \in Seq(Instrs)
                            /\ Left = {Now} \cup Range(Tail(pipe.rest))
    BY <1>1, TailOf DEF Left, Now
  <1> QED
    BY <1>1, <1>2, <1>3

\* A thread that is not over has something left to do.
LEMMA RunsOn ==
    ASSUME RestFits, pipe.pc \in Running \cup {"join"}
    PROVE  pipe.rest # <<>>
  <1>1. Range(<<>>) = {}
    BY DEF Range
  <1>2. Left # {}
    BY DEF RestFits
  <1> QED
    BY <1>1, <1>2 DEF Left

\* A program of one instruction is in order.
LEMMA OneLeft ==
    ASSUME NEW x, NEW t
    PROVE  Range(<<x>>) = {x} /\ InOrder(<<x>>, t) /\ Head(<<x>>) = x
  BY DEF Range, InOrder

\* The instructions that stand alone, and how they differ.
LEMMA SimpleInstrs ==
    /\ Check \in Instrs /\ Exit \in Instrs /\ Leave \in Instrs /\ Work("budget", {}) \in Instrs
    /\ Check.do = "check"
    /\ \A what \in Works : Work(what, {}).do = "work" /\ Work(what, {}).of = what
    /\ Exit.do = "work" /\ Exit.of = "exit" /\ Leave.do = "work" /\ Leave.of = "leave"
    /\ Exit # Leave /\ Check # Exit /\ Check # Leave
  BY InstrType DEF Check, Exit, Leave, Work, Instr, Works

\* The two ends of the program are single instructions.
LEMMA OnlyEnds ==
    ASSUME NEW x \in Instrs, x.do = "work"
    PROVE  (x.of = "exit" => x = Exit) /\ (x.of = "leave" => x = Leave)
  BY DEF Instrs, Exit, Leave, Work, Instr

\* The data follows from the work that is left and from what is loaded.
LEMMA DataKept ==
    ASSUME DataInv, input' = input, pipe'.raw = pipe.raw, pipe'.vectors = pipe.vectors,
           pipe'.undecoded = pipe.undecoded, Going' => Going,
           \A what \in {"load", "decoded", "fetch", "upsert"} :
               \A x : IsWork(x, what) => (x \in Left' <=> x \in Left),
           \A x \in Left' : IsWork(x, "encode") => x \in Left,
           pipe'.error # "bug", LastIsShown'
    PROVE  DataInv'
  <1>1. /\ Has(Left', "decoded") <=> Has(Left, "decoded")
        /\ Has(Left', "fetch") <=> Has(Left, "fetch")
    BY DEF Has
  <1>2. Gives(Left', "load") = Gives(Left, "load") /\ Gives(Left', "upsert") = Gives(Left, "upsert")
    <2>1. ASSUME NEW what \in {"load", "upsert"}
          PROVE  {y \in Left' : IsWork(y, what)} = {y \in Left : IsWork(y, what)}
      OBVIOUS
    <2> QED
      BY <2>1 DEF Gives
  <1>3. Downloads(input)' = Downloads(input) /\ Pending(input)' = Pending(input)
    BY DEF Downloads, Pending
  <1>4. ImagesSuffice'
    BY <1>1, <1>2, <1>3 DEF DataInv, ImagesSuffice
  <1>5. VectorsSuffice'
    BY <1>1, <1>2 DEF DataInv, VectorsSuffice
  <1>6. EncodesPending'
    BY <1>3 DEF DataInv, EncodesPending
  <1> QED
    BY <1>4, <1>5, <1>6 DEF DataInv, OnlyOutsideFailures

\* The conversations fit as long as nothing happens to them, the waiter has
\* the same tasks and the thread does not recover.
LEMMA TasksKept ==
    ASSUME TasksStop, UNCHANGED <<talk, tripRegion>>, pipe'.pending = pipe.pending,
           Going' => Going
    PROVE  TasksStop'
  BY DEF TasksStop

\* While nothing has failed and the waiter has no tasks, every conversation is
\* settled.
LEMMA TasksSettled ==
    ASSUME TasksStop, Going, pipe.pending = {}
    PROVE  /\ \A c \in Talks : Settled(talk[c]) /\ ~talk[c].thread /\ ~talk[c].canceled
           /\ tripRegion \notin {"submitted", "asked", "canceled"}
  <1>1. ASSUME NEW c \in Talks
        PROVE  Settled(talk[c]) /\ ~talk[c].thread /\ ~talk[c].canceled
    BY DEF TasksStop, TalkFits, Settled, Stopping
  <1>2. tripRegion \notin {"submitted", "asked", "canceled"}
    BY DEF TasksStop
  <1> QED
    BY <1>1, <1>2

\* A change of one field of a conversation.
LEMMA OneField ==
    ASSUME NEW t, NEW at, NEW thread, NEW canceled, TalkIs(t, at, thread, canceled), NEW x
    PROVE  /\ TalkIs([t EXCEPT !.at = x], x, thread, canceled)
           /\ TalkIs([t EXCEPT !.thread = x], at, x, canceled)
           /\ TalkIs([t EXCEPT !.canceled = x], at, thread, x)
           /\ TalkIs([t EXCEPT !.turn = x], at, thread, canceled)
           /\ TalkIs([t EXCEPT !.calls = x], at, thread, canceled)
           /\ TalkIs([t EXCEPT !.images = x], at, thread, canceled)
           /\ TalkIs([t EXCEPT !.found = x], at, thread, canceled)
           /\ TalkIs([t EXCEPT !.spot = x], at, thread, canceled)
           /\ TalkIs([t EXCEPT !.confidence = x], at, thread, canceled)
  <1>1. TalkIs([t EXCEPT !.at = x], x, thread, canceled)
    BY DEF TalkIs
  <1>2. TalkIs([t EXCEPT !.thread = x], at, x, canceled)
    BY DEF TalkIs
  <1>3. TalkIs([t EXCEPT !.canceled = x], at, thread, x)
    BY DEF TalkIs
  <1>4. TalkIs([t EXCEPT !.turn = x], at, thread, canceled)
    BY DEF TalkIs
  <1>5. TalkIs([t EXCEPT !.calls = x], at, thread, canceled)
    BY DEF TalkIs
  <1>6. TalkIs([t EXCEPT !.images = x], at, thread, canceled)
    BY DEF TalkIs
  <1>7. TalkIs([t EXCEPT !.found = x], at, thread, canceled)
    BY DEF TalkIs
  <1>8. TalkIs([t EXCEPT !.spot = x], at, thread, canceled)
    BY DEF TalkIs
  <1>9. TalkIs([t EXCEPT !.confidence = x], at, thread, canceled)
    BY DEF TalkIs
  <1> QED
    BY <1>1, <1>2, <1>3, <1>4, <1>5, <1>6, <1>7, <1>8, <1>9

\* What future.cancel asks for, and a conversation that is submitted.
LEMMA AskedToStop ==
    ASSUME NEW t, TalkFits(t)
    PROVE  /\ ~Settled(t) => TalkFits([t EXCEPT !.canceled = TRUE])
           /\ [t EXCEPT !.canceled = TRUE].canceled
           /\ TalkFits([t EXCEPT !.at = "queue"])
           /\ [t EXCEPT !.at = "queue"].at = "queue"
           /\ [t EXCEPT !.at = "queue"].canceled = t.canceled
  <1>1. TalkIs(t, t.at, t.thread, t.canceled)
    BY DEF TalkFits
  <1>2. PICK u : u = [t EXCEPT !.canceled = TRUE]
    OBVIOUS
  <1>3. TalkIs(u, t.at, t.thread, TRUE)
    BY <1>1, <1>2, OneField
  <1>4. (~Settled(t) => TalkFits(u)) /\ u.canceled
    BY <1>3 DEF TalkFits, TalkIs, Settled
  <1>5. PICK v : v = [t EXCEPT !.at = "queue"]
    OBVIOUS
  <1>6. TalkIs(v, "queue", t.thread, t.canceled)
    BY <1>1, <1>5, OneField
  <1>7. TalkFits(v) /\ v.at = "queue" /\ v.canceled = t.canceled
    BY <1>6 DEF TalkFits, TalkIs
  <1> QED
    BY <1>2, <1>4, <1>5, <1>7

\* When the thread drops its tasks they have ended or are asked to.
LEMMA TasksCanceled ==
    ASSUME TasksStop, CancelTalks, ~Going'
    PROVE  TasksStop'
  <1>1. ASSUME NEW c \in Talks
        PROVE  /\ TalkFits(talk'[c])
               /\ Settled(talk'[c]) \/ Stopping(talk'[c])
    <2>1. TalkFits(talk[c])
      BY DEF TasksStop
    <2>2. talk'[c] = IF talk[c].at \in Over \cup {"off"} THEN talk[c]
                     ELSE [talk[c] EXCEPT !.canceled = TRUE]
      BY DEF CancelTalks
    <2>3. CASE talk[c].at \in Over \cup {"off"}
      BY <2>1, <2>2, <2>3 DEF Over, TalkFits, Settled, Stopping
    <2>4. CASE talk[c].at \notin Over \cup {"off"}
      BY <2>1, <2>2, <2>4, AskedToStop DEF Stopping, Settled, Over
    <2> QED
      BY <2>3, <2>4
  <1>2. tripRegion' \notin {"submitted", "asked"}
    BY DEF CancelTalks
  <1> QED
    BY <1>1, <1>2 DEF TasksStop

\* A step that fails drops the rest of the program and asks the tasks to stop.
LEMMA Failing ==
    ASSUME PipeInv, NEW error \in Errs \ {"none", "bug"}, pipe.pc \in Running, Fails(error),
           UNCHANGED <<input, beat, lead>>, PipeTypeOK',
           Before(job'.shown, report'.current),
           beat.pc = "call" => report'.lock = "beat" /\ report'.current = report.current
    PROVE  PipeInv'
  <1> DEFINE x == IF beat.pc = "off" THEN Leave ELSE Exit
  <1>1. /\ pipe'.pc = "run" /\ pipe'.error = error /\ pipe'.pending = {} /\ pipe'.rest = <<x>>
        /\ x \in {Exit, Leave}
    BY DEF Fails, Raised, PipeInv, PipeTypeOK, Pipes, Exit, Leave
  <1>2. Left' = {x} /\ Now' = x /\ InOrder(pipe.rest, pipe.ticks)'
    BY <1>1, OneLeft DEF Left, Now
  <1>3. x.do = "work" /\ x.of \in {"exit", "leave"} /\ Exit # Leave
    BY <1>1, SimpleInstrs
  <1>4. ~Going'
    BY <1>1 DEF Going
  <1>5. RestFits'
    BY <1>1, <1>2, <1>3 DEF RestFits, Finishes, Running
  <1>6. LeftUnentered'
    BY <1>1, <1>2, <1>3 DEF LeftUnentered
  <1>7. TasksAreWaitedFor'
    <2>1. TasksStop /\ CancelTalks
      BY DEF Fails, PipeInv, EndInv, TasksAreWaitedFor
    <2>2. TasksStop'
      BY <1>4, <2>1, TasksCanceled
    <2> QED
      BY <1>1, <2>2 DEF TasksAreWaitedFor
  <1>8. ThreadsEnd'
    BY <1>1 DEF ThreadsEnd, PipeInv, EndInv, Running
  <1>9. ProgressFollows'
    BY <1>1, <1>2, <1>3 DEF ProgressFollows, PipeInv, OrderInv
  <1>10. EncodesPending' /\ OnlyOutsideFailures'
    BY <1>1, <1>2, <1>3 DEF EncodesPending, OnlyOutsideFailures, IsWork
  <1>11. ImagesSuffice' /\ VectorsSuffice' /\ LastIsShown'
    BY <1>4 DEF ImagesSuffice, VectorsSuffice, LastIsShown
  <1>12. ErrorsCount'
    BY <1>1 DEF ErrorsCount, PipeInv, Running
  <1> QED
    BY <1>2, <1>5, <1>6, <1>7, <1>8, <1>9, <1>10, <1>11, <1>12
       DEF PipeInv, EndInv, OrderInv, DataInv

\* A step that succeeds leaves the instruction behind.
LEMMA Advancing ==
    ASSUME PipeInv, pipe.pc \in {"run", "call"}, ~Finishes(Now), Now.do # "await",
           pipe'.rest = Tail(pipe.rest), pipe'.error = pipe.error,
           pipe'.pending = pipe.pending, pipe'.ticks = pipe.ticks,
           pipe'.pc = IF pipe.pending # {} /\ pipe.rest[2].do = "await" THEN "await" ELSE "run",
           UNCHANGED <<sessionVars, input, lead>>, PipeTypeOK',
           report'.current = report.current, Before(job'.shown, report.current),
           beat'.pc = "call" => report'.lock = "beat" /\ beat'.sends = report.current
    PROVE  /\ EndInv' /\ OrderInv' /\ ErrorsCount' /\ OnlyOutsideFailures' /\ EncodesPending'
           /\ Left = {Now} \cup Left' /\ (Going' <=> Going)
           /\ \A y \in Left' : Leads(Now, y, pipe.ticks)
  <1>1. pipe.rest # <<>> /\ pipe.rest \in Seq(Instrs)
    BY RunsOn, RestFacts DEF PipeInv, EndInv, Running
  <1>2. Left = {Now} \cup Left'
    BY <1>1, RestFacts DEF PipeInv, Left
  <1>3. /\ InOrder(pipe.rest, pipe.ticks)'
        /\ \A y \in Left' : Leads(Now, y, pipe.ticks)
    BY <1>1, OrderTail DEF PipeInv, OrderInv, Left, Now
  <1>4. Now.do # "raise" /\ Now # Exit /\ Now # Leave
    BY DEF Finishes
  <1>5. Going' <=> Going
    BY <1>2, <1>4 DEF Going
  <1>6. pipe'.pc \in {"run", "await"}
    OBVIOUS
  <1>7. pipe'.rest # <<>> => Now' = pipe.rest[2]
    BY <1>1, HeadTailProperties, EmptySeq, LenProperties DEF Now
  <1>8. \E y \in Left' : Finishes(y)
    BY <1>2 DEF PipeInv, EndInv, RestFits, Running
  <1>9. pipe'.rest # <<>>
    <2>1. Range(<<>>) = {}
      BY DEF Range
    <2> QED
      BY <1>8, <2>1 DEF Left
  <1>10. RestFits'
    BY <1>2, <1>5, <1>6, <1>7, <1>8, <1>9 DEF RestFits, PipeInv, EndInv
  <1>11. LeftUnentered'
    <2>1. Leave \notin Left
      BY <1>1, <1>4, OneLeft DEF PipeInv, EndInv, LeftUnentered, Now
    <2> QED
      BY <1>2, <2>1 DEF LeftUnentered
  <1>12. TasksAreWaitedFor'
    <2>1. UNCHANGED <<talk, tripRegion>>
      BY DEF sessionVars
    <2>2. TasksStop'
      BY <1>5, <2>1, TasksKept DEF PipeInv, EndInv, TasksAreWaitedFor
    <2>3. ASSUME pipe'.pending # {}
          PROVE  /\ pipe'.pc \in Running
                 /\ pipe'.pc = "run" => Now'.do # "await"
                 /\ \E x \in Left' : x.do \in {"await", "raise"}
                 /\ \A x \in Left' : x.do = "work" => x.of \in LateWorks
      BY <1>2, <1>4, <1>6, <1>7, <1>9, <2>3 DEF PipeInv, EndInv, TasksAreWaitedFor, Running
    <2> QED
      BY <2>2, <2>3 DEF TasksAreWaitedFor
  <1>13. ThreadsEnd'
    BY <1>6 DEF ThreadsEnd, PipeInv, EndInv
  <1>14. ProgressFollows'
    BY <1>2, <1>6 DEF ProgressFollows, PipeInv, OrderInv
  <1>15. ErrorsCount'
    BY <1>6 DEF ErrorsCount, PipeInv
  <1>16. OnlyOutsideFailures' /\ EncodesPending'
    BY <1>2 DEF PipeInv, DataInv, OnlyOutsideFailures, EncodesPending, Pending
  <1> QED
    BY <1>2, <1>3, <1>5, <1>10, <1>11, <1>12, <1>13, <1>14, <1>15, <1>16 DEF EndInv, OrderInv

\* A step that fails keeps the types.
LEMMA FailsType ==
    ASSUME PipeTypeOK, NEW error \in Errs, Fails(error)
    PROVE  pipe' \in Pipes /\ talk' = [c \in Talks |-> talk'[c]]
  <1>1. <<Work("leave", {})>> \in Seq(Instrs) /\ <<Work("exit", {})>> \in Seq(Instrs)
    BY SimpleInstrs DEF Exit, Leave
  <1> DEFINE rest == IF beat.pc = "off" THEN <<Work("leave", {})>> ELSE <<Work("exit", {})>>
  <1>2. rest \in Seq(Instrs)
    BY <1>1
  <1>3. pipe' = [pipe EXCEPT !.pc = "run", !.error = error, !.pending = {}, !.rest = rest]
    BY DEF Fails, Raised
  <1> HIDE DEF rest
  <1>4. pipe' \in Pipes
    BY <1>2, <1>3 DEF PipeTypeOK, Pipes
  <1>5. talk' = [c \in Talks |-> talk'[c]]
    BY DEF Fails, CancelTalks
  <1> QED
    BY <1>4, <1>5

\* A step that goes on keeps the types and leaves its instruction behind.
LEMMA ContinuesType ==
    ASSUME PipeTypeOK, pipe.rest # <<>>, Continue
    PROVE  /\ pipe' \in Pipes /\ talk' = [c \in Talks |-> talk'[c]]
           /\ pipe'.rest = Tail(pipe.rest) /\ pipe'.error = pipe.error
           /\ pipe'.pending = pipe.pending /\ pipe'.ticks = pipe.ticks
           /\ pipe'.pc = IF pipe.pending # {} /\ pipe.rest[2].do = "await" THEN "await" ELSE "run"
           /\ pipe'.raw = pipe.raw /\ pipe'.vectors = pipe.vectors
           /\ pipe'.undecoded = pipe.undecoded /\ UNCHANGED sessionVars
  <1> DEFINE rest == Tail(pipe.rest)
             pc == IF pipe.pending # {} /\ pipe.rest[2].do = "await" THEN "await" ELSE "run"
  <1>1. rest \in Seq(Instrs)
    BY RestFacts
  <1>2. pc \in {"run", "await"}
    OBVIOUS
  <1>3. pipe' = [pipe EXCEPT !.rest = rest, !.pc = pc] /\ UNCHANGED sessionVars
    BY DEF Continue
  <1> HIDE DEF rest, pc
  <1>4. /\ pipe' \in Pipes /\ pipe'.rest = rest /\ pipe'.error = pipe.error
        /\ pipe'.pending = pipe.pending /\ pipe'.ticks = pipe.ticks
        /\ pipe'.pc = pc /\ pipe'.raw = pipe.raw /\ pipe'.vectors = pipe.vectors
        /\ pipe'.undecoded = pipe.undecoded
    BY <1>1, <1>2, <1>3 DEF PipeTypeOK, Pipes
  <1>5. talk' = [c \in Talks |-> talk'[c]]
    BY <1>3 DEF sessionVars, PipeTypeOK
  <1> QED
    BY <1>3, <1>4, <1>5 DEF rest, pc

\* A progress is not behind itself.
LEMMA BeforeSame ==
    ASSUME NEW a \in Progress PROVE Before(a, a) /\ a \in Points
  BY NType DEF Progress, Points, Before

\* Once the last progress is shown, nothing else can be.
LEMMA LastStays ==
    ASSUME NEW a \in Progress, Before(<<7, N>>, a)
    PROVE  a = <<7, N>>
  BY NType DEF Progress, Before

\* What is shown, reported and repeated is a progress.
LEMMA ProgressType ==
    ASSUME PipeTypeOK
    PROVE  job.shown \in Progress /\ report.current \in Progress /\ beat.sends \in Progress
  BY DEF PipeTypeOK

\* The last progress stays shown, or stays to come, under steps that keep its
\* report.
LEMMA LastStillShown ==
    ASSUME PipeInv, job'.shown \in Progress, Before(job.shown, job'.shown), Going' => Going,
           Report(7, N) \in Left => Report(7, N) \in Left' \/ job'.shown = <<7, N>>
    PROVE  LastIsShown'
  BY LastStays DEF PipeInv, DataInv, LastIsShown

-----------------------------------------------------------------------------
(* The steps of the thread.                                                *)

\* A step that only fails keeps the invariant and moves no progress.
LEMMA FailingOnly ==
    ASSUME PipeInv, NEW error \in Errs \ {"none", "bug"}, pipe.pc \in Running, Fails(error),
           UNCHANGED <<input, beat, report, job, lead>>
    PROVE  PipeInv' /\ Forward
  <1>1. PipeTypeOK /\ Before(job.shown, job.shown) /\ Before(job.shown, report.current)
    BY ProgressType, BeforeSame DEF PipeInv, OrderInv, ProgressFollows
  <1>2. PipeTypeOK'
    BY <1>1, FailsType DEF PipeTypeOK
  <1>3. beat.pc = "call" => report'.lock = "beat" /\ report'.current = report.current
    BY DEF PipeInv, OrderInv, ProgressFollows
  <1>4. PipeInv'
    BY <1>1, <1>2, <1>3, Failing
  <1> QED
    BY <1>1, <1>4 DEF Forward, Before

\* Instructions that load nothing.
LEMMA ContinuingOnly ==
    ASSUME PipeInv, pipe.pc \in {"run", "call"}, ~Finishes(Now),
           Now.do \in {"check", "work"}, Continue,
           \A what \in {"load", "decoded", "fetch", "upsert"} : ~IsWork(Now, what),
           UNCHANGED <<input, report, job, lead>>,
           beat' = beat \/ beat' = [beat EXCEPT !.pc = "wait"]
    PROVE  PipeInv' /\ Forward
  <1>1. PipeTypeOK /\ Before(job.shown, job.shown) /\ Before(job.shown, report.current)
    BY ProgressType, BeforeSame DEF PipeInv, OrderInv, ProgressFollows
  <1>2. pipe.rest # <<>>
    BY RunsOn DEF PipeInv, EndInv, Running
  <1>3. PipeTypeOK'
    <2>1. beat' \in [pc : {"off", "wait", "call", "ended"}, sends : Progress]
      BY <1>1 DEF PipeTypeOK
    <2> QED
      BY <1>1, <1>2, <2>1, ContinuesType DEF PipeTypeOK
  <1>4. beat'.pc = "call" => report'.lock = "beat" /\ beat'.sends = report.current
    BY <1>1 DEF PipeInv, OrderInv, ProgressFollows, PipeTypeOK
  <1>5. /\ EndInv' /\ OrderInv' /\ ErrorsCount' /\ OnlyOutsideFailures' /\ EncodesPending'
        /\ Left = {Now} \cup Left' /\ (Going' <=> Going)
    BY <1>1, <1>2, <1>3, <1>4, ContinuesType, Advancing
  <1>6. LastIsShown'
    <2>1. Report(7, N).do = "report"
      BY DEF Report, Instr
    <2>2. Now # Report(7, N)
      BY <2>1
    <2> QED
      BY <1>1, <1>5, <2>2, LastStillShown, ProgressType
  <1>7. DataInv'
    <2>1. \A what \in {"load", "decoded", "fetch", "upsert"} :
              \A x : IsWork(x, what) => (x \in Left' <=> x \in Left)
      BY <1>5
    <2>2. pipe'.raw = pipe.raw /\ pipe'.vectors = pipe.vectors /\ pipe'.undecoded = pipe.undecoded
      BY <1>1, <1>2, ContinuesType
    <2> QED
      BY <1>5, <1>6, <2>1, <2>2, DataKept DEF PipeInv, OnlyOutsideFailures
  <1>8. Forward
    BY <1>1 DEF Forward, Before
  <1> QED
    BY <1>3, <1>5, <1>7, <1>8 DEF PipeInv

-----------------------------------------------------------------------------
(* The steps of the thread.                                                *)

\* The thread asks whether the job is canceled.
LEMMA StartCheckInv ==
    ASSUME PipeInv, StartCheck
    PROVE  PipeInv' /\ Forward
  <1>1. PipeTypeOK /\ Before(job.shown, job.shown)
    BY ProgressType, BeforeSame DEF PipeInv
  <1>2. UNCHANGED <<input, beat, report, job, lead, faults>> /\ pipe.pc = "run"
    BY DEF StartCheck
  <1>3. CASE Fails("canceled")
    BY <1>2, <1>3, FailingOnly DEF Errs, CallErrors, Running
  <1>4. CASE pipe' = [pipe EXCEPT !.pc = "call"] /\ UNCHANGED sessionVars
    <2>1. /\ pipe' \in Pipes /\ pipe'.pc = "call" /\ pipe'.rest = pipe.rest
          /\ pipe'.error = pipe.error /\ pipe'.raw = pipe.raw /\ pipe'.vectors = pipe.vectors
          /\ pipe'.undecoded = pipe.undecoded /\ pipe'.pending = pipe.pending
          /\ pipe'.ticks = pipe.ticks
      BY <1>1, <1>4 DEF PipeTypeOK, Pipes
    <2>2. UNCHANGED <<talk, tripRegion>>
      BY <1>4 DEF sessionVars
    <2>3. PipeTypeOK'
      BY <1>1, <1>2, <2>1, <2>2 DEF PipeTypeOK
    <2>4. Left' = Left /\ Now' = Now /\ (Going' <=> Going)
      BY <2>1 DEF Left, Now, Going
    <2>5. Now.do = "check"
      BY DEF StartCheck
    <2>6. EndInv'
      <3>1. TasksStop'
        BY <2>1, <2>2, <2>4, TasksKept DEF PipeInv, EndInv, TasksAreWaitedFor
      <3> QED
        BY <1>2, <2>1, <2>4, <3>1 DEF PipeInv, EndInv, RestFits, LeftUnentered,
              TasksAreWaitedFor, ThreadsEnd, Running
    <2>7. OrderInv'
      BY <1>2, <2>1, <2>4, <2>5 DEF PipeInv, OrderInv, ProgressFollows
    <2>8. LastIsShown' /\ pipe'.error # "bug"
      BY <1>2, <2>1, <2>4 DEF PipeInv, DataInv, LastIsShown, OnlyOutsideFailures
    <2>9. DataInv'
      BY <1>2, <2>1, <2>4, <2>8, DataKept DEF PipeInv
    <2>10. ErrorsCount'
      BY <1>2, <2>1 DEF PipeInv, ErrorsCount
    <2>11. Forward
      BY <1>1, <1>2 DEF Forward, Before
    <2> QED
      BY <2>3, <2>6, <2>7, <2>9, <2>10, <2>11 DEF PipeInv
  <1> QED
    BY <1>3, <1>4 DEF StartCheck

\* The store answers the question of the thread.
LEMMA CheckAnsweredInv ==
    ASSUME PipeInv, CheckAnswered
    PROVE  PipeInv' /\ Forward
  <1>1. /\ UNCHANGED <<input, beat, report, job, lead>> /\ pipe.pc = "call"
        /\ Now.do = "check"
    BY DEF CheckAnswered
  <1>2. CASE Fails("canceled")
    BY <1>1, <1>2, FailingOnly DEF Errs, CallErrors, Running
  <1>3. CASE Continue
    <2>1. ~Finishes(Now) /\ \A what \in {"load", "decoded", "fetch", "upsert"} : ~IsWork(Now, what)
      BY <1>1, SimpleInstrs DEF Finishes, IsWork
    <2> QED
      BY <1>1, <1>3, <2>1, ContinuingOnly
  <1> QED
    BY <1>2, <1>3 DEF CheckAnswered

\* The thread takes the lock of the reporter and sends its progress.
LEMMA StartReportInv ==
    ASSUME PipeInv, StartReport
    PROVE  PipeInv' /\ Forward
  <1>1. /\ PipeTypeOK /\ job.shown \in Progress /\ report.current \in Progress
        /\ Before(job.shown, job.shown) /\ Before(job.shown, report.current)
    BY ProgressType, BeforeSame DEF PipeInv, OrderInv, ProgressFollows
  <1>2. /\ UNCHANGED <<input, beat, job, lead>> /\ pipe.pc = "run"
        /\ Now.do = "report" /\ report.lock = "free"
    BY DEF StartReport
  <1>3. beat.pc # "call"
    BY <1>2 DEF PipeInv, OrderInv, ProgressFollows
  <1>4. Forward
    BY <1>1, <1>2 DEF Forward, Before
  <1>5. pipe.rest # <<>> /\ Now \in Instrs /\ Left = {Now} \cup Range(Tail(pipe.rest))
    BY <1>1, <1>2, RunsOn, RestFacts DEF PipeInv, EndInv, Running
  <1>6. Shows(Now) \in Progress
    <2>1. Now.step \in 0 .. 7 /\ Now.done \in 0 .. N
      BY <1>5 DEF Instrs
    <2> QED
      BY <2>1 DEF Shows, Progress
  <1>7. Before(report.current, Shows(Now)) /\ Before(job.shown, Shows(Now))
    <2>1. Before(report.current, Shows(Now))
      BY <1>2, <1>5 DEF PipeInv, OrderInv, ProgressFollows
    <2>2. job.shown \in Points /\ report.current \in Points /\ Shows(Now) \in Points
      BY <1>1, <1>6, BeforeSame
    <2> QED
      BY <1>1, <2>1, <2>2, BeforeTrans
  <1>8. CASE report.error # "none" /\ Fails(report.error) /\ UNCHANGED report
    <2>1. report.error \in Errs \ {"none", "bug"}
      BY <1>1, <1>8 DEF PipeTypeOK, Errs, CallErrors
    <2> QED
      BY <1>2, <1>8, <2>1, FailingOnly DEF Running
  <1>9. CASE Fails("canceled") /\ report' = [report EXCEPT !.current = <<Now.step, Now.done>>]
    <2>1. "canceled" \in Errs \ {"none", "bug"}
      BY DEF Errs, CallErrors
    <2>2. report' = [report EXCEPT !.current = Shows(Now)]
      BY <1>9 DEF Shows
    <2>3. /\ report' \in [lock : {"free", "pipe", "beat"}, current : Progress,
                          error : CallErrors, stop : BOOLEAN]
          /\ report'.current = Shows(Now)
      BY <1>1, <1>6, <2>2 DEF PipeTypeOK
    <2>4. PipeTypeOK'
      BY <1>1, <1>2, <1>9, <2>1, <2>3, FailsType DEF PipeTypeOK
    <2>5. PipeInv'
      BY <1>2, <1>3, <1>7, <1>9, <2>1, <2>3, <2>4, Failing DEF Running
    <2> QED
      BY <1>4, <2>5
  <1>10. CASE /\ pipe' = [pipe EXCEPT !.pc = "call"]
              /\ report' = [report EXCEPT !.lock = "pipe", !.current = <<Now.step, Now.done>>]
              /\ UNCHANGED sessionVars
    <2>1. /\ pipe' \in Pipes /\ pipe'.pc = "call" /\ pipe'.rest = pipe.rest
          /\ pipe'.error = pipe.error /\ pipe'.raw = pipe.raw /\ pipe'.vectors = pipe.vectors
          /\ pipe'.undecoded = pipe.undecoded /\ pipe'.pending = pipe.pending
          /\ pipe'.ticks = pipe.ticks
      BY <1>1, <1>10 DEF PipeTypeOK, Pipes
    <2>2. UNCHANGED <<talk, tripRegion>>
      BY <1>10 DEF sessionVars
    <2>3. report' = [report EXCEPT !.lock = "pipe", !.current = Shows(Now)]
      BY <1>10 DEF Shows
    <2>4. /\ report' \in [lock : {"free", "pipe", "beat"}, current : Progress,
                          error : CallErrors, stop : BOOLEAN]
          /\ report'.current = Shows(Now) /\ report'.lock = "pipe" /\ report'.error = report.error
      BY <1>1, <1>6, <2>3 DEF PipeTypeOK
    <2>5. PipeTypeOK'
      BY <1>1, <1>2, <2>1, <2>2, <2>4 DEF PipeTypeOK
    <2>6. Left' = Left /\ Now' = Now /\ (Going' <=> Going)
      BY <2>1 DEF Left, Now, Going
    <2>7. EndInv'
      <3>1. TasksStop'
        BY <2>1, <2>2, <2>6, TasksKept DEF PipeInv, EndInv, TasksAreWaitedFor
      <3> QED
        BY <1>2, <2>1, <2>6, <3>1 DEF PipeInv, EndInv, RestFits, LeftUnentered,
              TasksAreWaitedFor, ThreadsEnd, Running
    <2>8. \A x \in Left : /\ x.do = "report" => Before(Shows(Now), Shows(x))
                          /\ x.do = "await" => Before(Shows(Now), Ticked(pipe.ticks))
      <3>1. \A x \in Range(Tail(pipe.rest)) : Leads(Now, x, pipe.ticks)
        BY <1>1, <1>5, RestFacts, OrderTail DEF PipeInv, OrderInv, Now
      <3>2. Before(Shows(Now), Shows(Now))
        BY <1>6, BeforeSame
      <3> QED
        BY <1>2, <1>5, <3>1, <3>2 DEF Leads
    <2>9. OrderInv'
      <3>1. InOrder(pipe.rest, pipe.ticks)'
        BY <2>1 DEF PipeInv, OrderInv
      <3>2. ProgressFollows'
        BY <1>2, <1>3, <1>7, <2>1, <2>4, <2>6, <2>8 DEF ProgressFollows, Shows
      <3> QED
        BY <3>1, <3>2 DEF OrderInv
    <2>10. LastIsShown' /\ pipe'.error # "bug"
      BY <1>2, <2>1, <2>6 DEF PipeInv, DataInv, LastIsShown, OnlyOutsideFailures
    <2>11. DataInv'
      BY <1>2, <2>1, <2>6, <2>10, DataKept DEF PipeInv
    <2>12. ErrorsCount'
      BY <1>2, <2>1, <2>4 DEF PipeInv, ErrorsCount
    <2> QED
      BY <1>4, <2>5, <2>7, <2>9, <2>11, <2>12 DEF PipeInv
  <1> QED
    BY <1>8, <1>9, <1>10 DEF StartReport

\* The call of report holds the lock, so the heartbeat sends nothing.
LEMMA ReportHolds ==
    ASSUME PipeInv, pipe.pc = "call", Now.do = "report"
    PROVE  /\ Now \in Instrs /\ report.current = Shows(Now) /\ Shows(Now) \in Progress
           /\ report.current \in Progress /\ job.shown \in Progress
           /\ beat.pc # "call" /\ Before(job.shown, report.current)
           /\ Before(job.shown, job.shown) /\ Before(report.current, report.current)
  <1>1. PipeTypeOK /\ pipe.rest # <<>>
    BY RunsOn DEF PipeInv, EndInv, Running
  <1>2. Now \in Instrs
    BY <1>1, RestFacts
  <1>3. report.current = Shows(Now) /\ beat.pc # "call" /\ Before(job.shown, report.current)
    BY DEF PipeInv, OrderInv, ProgressFollows
  <1> QED
    BY <1>1, <1>2, <1>3, ProgressType, BeforeSame

\* The store answers the report of the thread.
LEMMA ReportAnsweredInv ==
    ASSUME PipeInv, ReportAnswered
    PROVE  PipeInv' /\ Forward
  <1>1. /\ UNCHANGED <<input, beat, lead>> /\ pipe.pc = "call" /\ Now.do = "report"
        /\ report' = [report EXCEPT !.lock = "free"]
    BY DEF ReportAnswered
  <1>2. /\ Now \in Instrs /\ report.current = Shows(Now) /\ Shows(Now) \in Progress
        /\ report.current \in Progress /\ job.shown \in Progress
        /\ beat.pc # "call" /\ Before(job.shown, report.current)
        /\ Before(job.shown, job.shown) /\ Before(report.current, report.current)
    BY <1>1, ReportHolds
  <1>3. PipeTypeOK /\ pipe.rest # <<>>
    BY <1>1, RunsOn DEF PipeInv, EndInv, Running
  <1>4. /\ report' \in [lock : {"free", "pipe", "beat"}, current : Progress,
                        error : CallErrors, stop : BOOLEAN]
        /\ report'.current = report.current /\ report'.error = report.error
    BY <1>1, <1>3 DEF PipeTypeOK
  <1>5. CASE Fails("canceled") /\ UNCHANGED job
    <2>1. "canceled" \in Errs \ {"none", "bug"}
      BY DEF Errs, CallErrors
    <2>2. PipeTypeOK'
      BY <1>1, <1>3, <1>4, <1>5, <2>1, FailsType DEF PipeTypeOK
    <2>3. PipeInv'
      BY <1>1, <1>2, <1>4, <1>5, <2>1, <2>2, Failing DEF Running
    <2>4. Forward
      BY <1>2, <1>5 DEF Forward, Before
    <2> QED
      BY <2>3, <2>4
  <1>6. CASE Continue /\ job' = [job EXCEPT !.shown = <<Now.step, Now.done>>]
    <2>1. job' = [job EXCEPT !.shown = Shows(Now)]
      BY <1>6 DEF Shows
    <2>2. /\ job' \in [shown : Progress, cancelRequested : BOOLEAN, owned : BOOLEAN]
          /\ job'.shown = report.current
      BY <1>2, <1>3, <2>1 DEF PipeTypeOK
    <2>3. PipeTypeOK'
      BY <1>1, <1>3, <1>4, <1>6, <2>2, ContinuesType DEF PipeTypeOK
    <2>4. ~Finishes(Now)
      BY <1>1, SimpleInstrs DEF Finishes
    <2>5. Before(job'.shown, report.current)
      BY <1>2, <2>2
    <2>6. /\ EndInv' /\ OrderInv' /\ ErrorsCount' /\ OnlyOutsideFailures' /\ EncodesPending'
          /\ Left = {Now} \cup Left' /\ (Going' <=> Going)
      BY <1>1, <1>2, <1>3, <1>4, <1>6, <2>3, <2>4, <2>5, ContinuesType, Advancing
    <2>7. LastIsShown'
      <3>1. Report(7, N) = Now => job'.shown = <<7, N>>
        <4>1. Report(7, N).step = 7 /\ Report(7, N).done = N
          BY DEF Report, Instr
        <4>2. job'.shown = <<Now.step, Now.done>>
          BY <1>2, <2>2 DEF Shows
        <4> QED
          BY <4>1, <4>2
      <3>2. Report(7, N) \in Left => Report(7, N) \in Left' \/ job'.shown = <<7, N>>
        BY <2>6, <3>1
      <3> QED
        BY <1>2, <2>2, <2>6, <3>2, LastStillShown
    <2>8. DataInv'
      <3>1. \A what \in {"load", "decoded", "fetch", "upsert"} :
                \A x : IsWork(x, what) => (x \in Left' <=> x \in Left)
        BY <1>1, <2>6 DEF IsWork
      <3>2. pipe'.raw = pipe.raw /\ pipe'.vectors = pipe.vectors /\ pipe'.undecoded = pipe.undecoded
        BY <1>3, <1>6, ContinuesType
      <3> QED
        BY <1>1, <2>6, <2>7, <3>1, <3>2, DataKept DEF PipeInv, OnlyOutsideFailures
    <2>9. Forward
      BY <1>2, <2>2 DEF Forward, Before
    <2> QED
      BY <2>3, <2>6, <2>8, <2>9 DEF PipeInv
  <1>7. Now.done \in 0 .. N
    BY <1>2 DEF Instrs
  <1> QED
    BY <1>5, <1>6, <1>7 DEF ReportAnswered

\* A call of the thread fails.
LEMMA CallFailsInv ==
    ASSUME PipeInv, CallFails
    PROVE  PipeInv' /\ Forward
  <1>1. /\ UNCHANGED <<input, beat, lead>> /\ pipe.pc = "call" /\ PipeTypeOK
    BY DEF CallFails, PipeInv
  <1>2. PICK error \in {"timeout", "store"} : Fails(error)
    BY DEF CallFails
  <1>3. error \in Errs \ {"none", "bug"}
    BY DEF Errs, CallErrors
  <1>4. CASE UNCHANGED <<report, job>>
    BY <1>1, <1>2, <1>3, <1>4, FailingOnly DEF Running
  <1>5. CASE /\ Now.do = "report"
             /\ report' = [report EXCEPT !.lock = "free"]
             /\ Written(Now.step, Now.done)
    <2>1. /\ report.current = Shows(Now) /\ Shows(Now) \in Progress
          /\ beat.pc # "call" /\ Before(job.shown, report.current)
          /\ Before(job.shown, job.shown) /\ Before(report.current, report.current)
      BY <1>1, <1>5, ReportHolds
    <2>2. job' = job \/ job' = [job EXCEPT !.shown = Shows(Now)]
      BY <1>5 DEF Written, Shows
    <2>3. /\ job' \in [shown : Progress, cancelRequested : BOOLEAN, owned : BOOLEAN]
          /\ job'.shown = job.shown \/ job'.shown = report.current
      BY <1>1, <2>1, <2>2 DEF PipeTypeOK
    <2>4. /\ report' \in [lock : {"free", "pipe", "beat"}, current : Progress,
                          error : CallErrors, stop : BOOLEAN]
          /\ report'.current = report.current
      BY <1>1, <1>5 DEF PipeTypeOK
    <2>5. PipeTypeOK'
      BY <1>1, <1>2, <1>3, <2>3, <2>4, FailsType DEF PipeTypeOK
    <2>6. Before(job'.shown, report'.current) /\ Before(job.shown, job'.shown)
      BY <2>1, <2>3, <2>4
    <2>7. PipeInv'
      BY <1>1, <1>2, <1>3, <2>1, <2>5, <2>6, Failing DEF Running
    <2> QED
      BY <2>6, <2>7 DEF Forward, Before
  <1> QED
    BY <1>4, <1>5 DEF CallFails

\* A piece of work fails for a reason outside the job.
LEMMA WorkFailsInv ==
    ASSUME PipeInv, WorkFails
    PROVE  PipeInv' /\ Forward
  <1>1. UNCHANGED <<input, beat, report, job, lead>> /\ pipe.pc = "run"
    BY DEF WorkFails
  <1>2. PICK error \in Errors(Now.of) : Fails(error)
    BY DEF WorkFails
  <1>3. error \in {"embedding", "timeout", "qdrant", "download", "agent_timeout"}
    BY DEF Errors
  <1>4. error \in Errs \ {"none", "bug"}
    BY <1>3 DEF Errs, CallErrors, AgentErrors, TalkErrors
  <1> QED
    BY <1>1, <1>2, <1>4, FailingOnly DEF Running

\* A piece of work succeeds that loads nothing.
LEMMA WorkDoneInv ==
    ASSUME PipeInv, WorkDone
    PROVE  PipeInv' /\ Forward
  <1>1. /\ UNCHANGED <<input, beat, report, job, lead>> /\ pipe.pc = "run" /\ Continue
        /\ Now.do = "work" /\ Now.of \in {"engine", "qdrant", "budget"}
    BY DEF WorkDone, Does
  <1>2. ~Finishes(Now) /\ \A what \in {"load", "decoded", "fetch", "upsert"} : ~IsWork(Now, what)
    BY <1>1, SimpleInstrs DEF Finishes, IsWork
  <1> QED
    BY <1>1, <1>2, ContinuingOnly

\* The reporter is entered and its heartbeat started.
LEMMA EnterReporterInv ==
    ASSUME PipeInv, EnterReporter
    PROVE  PipeInv' /\ Forward
  <1>1. /\ UNCHANGED <<input, report, job, lead>> /\ pipe.pc = "run" /\ Continue
        /\ Now.do = "work" /\ Now.of = "enter" /\ beat' = [beat EXCEPT !.pc = "wait"]
    BY DEF EnterReporter, Does
  <1>2. ~Finishes(Now) /\ \A what \in {"load", "decoded", "fetch", "upsert"} : ~IsWork(Now, what)
    BY <1>1, SimpleInstrs DEF Finishes, IsWork
  <1> QED
    BY <1>1, <1>2, ContinuingOnly

\* The agent's waiter raises the error of a task.
LEMMA RaiseErrorInv ==
    ASSUME PipeInv, RaiseError
    PROVE  PipeInv' /\ Forward
  <1>1. /\ UNCHANGED <<input, beat, report, job, lead>> /\ pipe.pc = "run" /\ PipeTypeOK
        /\ Now.do = "raise" /\ Fails(Now.of)
    BY DEF RaiseError, PipeInv
  <1>2. Now \in Left
    BY <1>1, RunsOn, RestFacts DEF PipeInv, EndInv, Running
  <1>3. Now.of \in AgentErrors
    BY <1>1, <1>2 DEF PipeInv, EndInv, RestFits
  <1>4. PICK error \in AgentErrors : error = Now.of
    BY <1>3
  <1>5. error \in Errs \ {"none", "bug"} /\ Fails(error)
    BY <1>1, <1>4 DEF Errs, AgentErrors, TalkErrors
  <1> QED
    BY <1>1, <1>5, FailingOnly DEF Running

-----------------------------------------------------------------------------
(* What is loaded.                                                         *)

\* The order of the pieces of work of which the second needs the first.
LEMMA WorkOrder ==
    ASSUME NEW x, NEW y, NEW t, Leads(x, y, t)
    PROVE  /\ IsWork(x, "decoded") => ~IsWork(y, "load")
           /\ IsWork(x, "encode")  => ~IsWork(y, "decoded")
           /\ IsWork(x, "upsert")  => ~IsWork(y, "fetch")
           /\ IsWork(x, "vectors") => ~IsWork(y, "fetch") /\ ~IsWork(y, "upsert")
           /\ IsWork(x, "metrics") => ~IsWork(y, "decoded")
  <1>1. x.do = "work" /\ y.do = "work" => Before(From(x.of), To(y.of))
    BY DEF Leads
  <1>2. /\ From("decoded") = <<1, N + 1>> /\ From("encode") = <<2, 0>>
        /\ From("upsert") = <<2, 0>> /\ From("vectors") = <<3, 0>> /\ From("metrics") = <<3, 0>>
    BY DEF From
  <1>3. /\ To("load") = <<1, N>> /\ To("decoded") = <<1, N + 1>> /\ To("fetch") = <<1, 0>>
        /\ To("upsert") = <<2, N>>
    BY DEF To, LateWorks
  <1>4. /\ ~Before(<<1, N + 1>>, <<1, N>>) /\ ~Before(<<2, 0>>, <<1, N + 1>>)
        /\ ~Before(<<2, 0>>, <<1, 0>>) /\ ~Before(<<3, 0>>, <<1, 0>>)
        /\ ~Before(<<3, 0>>, <<2, N>>) /\ ~Before(<<3, 0>>, <<1, N + 1>>)
    BY NType DEF Before
  <1>5. IsWork(x, "decoded") => ~IsWork(y, "load")
    BY <1>1, <1>2, <1>3, <1>4 DEF IsWork
  <1>6. IsWork(x, "encode")  => ~IsWork(y, "decoded")
    BY <1>1, <1>2, <1>3, <1>4 DEF IsWork
  <1>7. IsWork(x, "upsert")  => ~IsWork(y, "fetch")
    BY <1>1, <1>2, <1>3, <1>4 DEF IsWork
  <1>8. IsWork(x, "vectors") => ~IsWork(y, "fetch") /\ ~IsWork(y, "upsert")
    BY <1>1, <1>2, <1>3, <1>4 DEF IsWork
  <1>9. IsWork(x, "metrics") => ~IsWork(y, "decoded")
    BY <1>1, <1>2, <1>3, <1>4 DEF IsWork
  <1> QED
    BY <1>5, <1>6, <1>7, <1>8, <1>9

\* What is left to do before an instruction is done, and after.
LEMMA OneMore ==
    ASSUME Left = {Now} \cup Left', NEW what
    PROVE  /\ Has(Left, what) <=> IsWork(Now, what) \/ Has(Left', what)
           /\ Gives(Left, what)
              = (IF IsWork(Now, what) THEN Now.photos ELSE {}) \cup Gives(Left', what)
  <1>1. Has(Left, what) <=> IsWork(Now, what) \/ Has(Left', what)
    BY DEF Has
  <1>2. CASE IsWork(Now, what)
    <2>1. {y \in Left : IsWork(y, what)} = {Now} \cup {y \in Left' : IsWork(y, what)}
      BY <1>2
    <2> QED
      BY <1>1, <1>2, <2>1 DEF Gives
  <1>3. CASE ~IsWork(Now, what)
    <2>1. {y \in Left : IsWork(y, what)} = {y \in Left' : IsWork(y, what)}
      BY <1>3
    <2> QED
      BY <1>1, <1>3, <2>1 DEF Gives
  <1> QED
    BY <1>2, <1>3

\* The images that are embedded or measured are among the downloads.
LEMMA ToDownload ==
    ASSUME PipeTypeOK
    PROVE  /\ Pending(input) \subseteq Downloads(input)
           /\ Photos \subseteq Downloads(input) \cup IF input.reuse THEN input.measured ELSE {}
  BY DEF Pending, Downloads

\* What is left when the thread has loaded something.
LEMMA Loading ==
    ASSUME PipeInv, pipe.pc = "run", Now.do = "work", Now.of \in {"fetch", "load", "upsert"},
           NEW raw \in SUBSET Photos, NEW vectors \in SUBSET Photos, NEW undecoded \in BOOLEAN,
           pipe' = [pipe EXCEPT !.rest = Tail(pipe.rest), !.raw = raw, !.vectors = vectors,
                                !.undecoded = undecoded],
           UNCHANGED <<sessionVars, input, beat, report, job, lead>>
    PROVE  /\ PipeTypeOK' /\ EndInv' /\ OrderInv' /\ ErrorsCount' /\ OnlyOutsideFailures'
           /\ EncodesPending' /\ LastIsShown' /\ Forward
           /\ pipe'.raw = raw /\ pipe'.vectors = vectors /\ pipe'.undecoded = undecoded
           /\ Left = {Now} \cup Left' /\ (Going' <=> Going)
           /\ \A y \in Left' : Leads(Now, y, pipe.ticks)
  <1>1. PipeTypeOK /\ Before(job.shown, job.shown) /\ Before(job.shown, report.current)
    BY ProgressType, BeforeSame DEF PipeInv, OrderInv, ProgressFollows
  <1>2. pipe.rest # <<>> /\ Now \in Left /\ Tail(pipe.rest) \in Seq(Instrs)
    BY <1>1, RunsOn, RestFacts DEF PipeInv, EndInv, Running
  <1>3. pipe.pending = {}
    BY <1>2 DEF PipeInv, EndInv, TasksAreWaitedFor, LateWorks
  <1>4. /\ pipe' \in Pipes /\ pipe'.rest = Tail(pipe.rest) /\ pipe'.error = pipe.error
        /\ pipe'.pending = pipe.pending /\ pipe'.ticks = pipe.ticks /\ pipe'.pc = "run"
        /\ pipe'.raw = raw /\ pipe'.vectors = vectors /\ pipe'.undecoded = undecoded
    BY <1>1, <1>2 DEF PipeTypeOK, Pipes
  <1>5. PipeTypeOK'
    <2>1. UNCHANGED <<talk, tripRegion>>
      BY DEF sessionVars
    <2> QED
      BY <1>1, <1>4, <2>1 DEF PipeTypeOK
  <1>6. ~Finishes(Now)
    BY SimpleInstrs DEF Finishes
  <1>7. beat'.pc = "call" => report'.lock = "beat" /\ beat'.sends = report.current
    BY DEF PipeInv, OrderInv, ProgressFollows
  <1>8. /\ EndInv' /\ OrderInv' /\ ErrorsCount' /\ OnlyOutsideFailures' /\ EncodesPending'
        /\ Left = {Now} \cup Left' /\ (Going' <=> Going)
        /\ \A y \in Left' : Leads(Now, y, pipe.ticks)
    BY <1>1, <1>3, <1>4, <1>5, <1>6, <1>7, Advancing
  <1>9. LastIsShown'
    <2>1. Report(7, N).do = "report"
      BY DEF Report, Instr
    <2>2. Now # Report(7, N)
      BY <2>1
    <2> QED
      BY <1>1, <1>8, <2>2, LastStillShown, ProgressType
  <1>10. Forward
    BY <1>1 DEF Forward, Before
  <1> QED
    BY <1>4, <1>5, <1>8, <1>9, <1>10

\* The stored vectors are fetched.
LEMMA FetchInv ==
    ASSUME PipeInv, Fetch
    PROVE  PipeInv' /\ Forward
  <1>1. /\ PipeTypeOK /\ pipe.pc = "run" /\ Now.do = "work" /\ Now.of = "fetch"
        /\ UNCHANGED <<sessionVars, input, beat, report, job, lead>>
    BY DEF Fetch, Does, PipeInv
  <1>2. /\ pipe.raw \in SUBSET Photos /\ input.stored \in SUBSET Photos
        /\ pipe.undecoded \in BOOLEAN
    BY <1>1, PipelineAssumption DEF PipeTypeOK, Pipes, Photos
  <1>3. pipe' = [pipe EXCEPT !.rest = Tail(pipe.rest), !.raw = pipe.raw,
                             !.vectors = input.stored, !.undecoded = pipe.undecoded]
    BY <1>1 DEF Fetch, PipeTypeOK, Pipes
  <1>4. /\ PipeTypeOK' /\ EndInv' /\ OrderInv' /\ ErrorsCount' /\ OnlyOutsideFailures'
        /\ EncodesPending' /\ LastIsShown' /\ Forward
        /\ pipe'.raw = pipe.raw /\ pipe'.vectors = input.stored
        /\ pipe'.undecoded = pipe.undecoded
        /\ Left = {Now} \cup Left' /\ (Going' <=> Going)
    <2>1. PICK raw \in SUBSET Photos, vectors \in SUBSET Photos, undecoded \in BOOLEAN :
              raw = pipe.raw /\ vectors = input.stored /\ undecoded = pipe.undecoded
      BY <1>2
    <2> QED
      BY <1>1, <1>3, <2>1, Loading
  <1>5. /\ Has(Left, "decoded") <=> Has(Left', "decoded")
        /\ Gives(Left, "load") = Gives(Left', "load")
        /\ Gives(Left, "upsert") = Gives(Left', "upsert")
        /\ Has(Left, "fetch")
    <2>1. ~IsWork(Now, "decoded") /\ ~IsWork(Now, "load") /\ ~IsWork(Now, "upsert")
          /\ IsWork(Now, "fetch")
      BY <1>1 DEF IsWork
    <2> QED
      BY <1>4, <2>1, OneMore
  <1>6. ImagesSuffice'
    BY <1>1, <1>4, <1>5 DEF PipeInv, DataInv, ImagesSuffice, Downloads
  <1>7. VectorsSuffice'
    BY <1>1, <1>4, <1>5 DEF PipeInv, DataInv, VectorsSuffice
  <1> QED
    BY <1>4, <1>6, <1>7 DEF PipeInv, DataInv

\* A chunk of images is loaded.
LEMMA LoadInv ==
    ASSUME PipeInv, Load
    PROVE  PipeInv' /\ Forward
  <1>1. /\ PipeTypeOK /\ pipe.pc = "run" /\ Now.do = "work" /\ Now.of = "load"
        /\ UNCHANGED <<sessionVars, input, beat, report, job, lead>>
    BY DEF Load, Does, PipeInv
  <1>2. Now.photos \in SUBSET Photos
    <2>1. Now \in Instrs
      BY <1>1, RunsOn, RestFacts DEF PipeInv, EndInv, Running
    <2> QED
      BY <2>1 DEF Instrs
  <1>3. PICK raw \in SUBSET Photos, undecoded \in BOOLEAN :
            /\ pipe' = [pipe EXCEPT !.rest = Tail(pipe.rest), !.raw = raw,
                                    !.vectors = pipe.vectors, !.undecoded = undecoded]
            /\ \/ raw = pipe.raw \cup Now.photos /\ undecoded = pipe.undecoded
               \/ raw = pipe.raw /\ undecoded = TRUE
    <2>1. pipe.raw \in SUBSET Photos /\ pipe.undecoded \in BOOLEAN
      BY <1>1 DEF PipeTypeOK, Pipes
    <2>2. CASE pipe' = [pipe EXCEPT !.rest = Tail(pipe.rest), !.raw = pipe.raw \cup Now.photos]
      <3>1. pipe' = [pipe EXCEPT !.rest = Tail(pipe.rest), !.raw = pipe.raw \cup Now.photos,
                                 !.vectors = pipe.vectors, !.undecoded = pipe.undecoded]
        BY <1>1, <2>2 DEF PipeTypeOK, Pipes
      <3> QED
        BY <1>2, <2>1, <3>1
    <2>3. CASE pipe' = [pipe EXCEPT !.rest = Tail(pipe.rest), !.undecoded = TRUE]
      <3>1. pipe' = [pipe EXCEPT !.rest = Tail(pipe.rest), !.raw = pipe.raw,
                                 !.vectors = pipe.vectors, !.undecoded = TRUE]
        BY <1>1, <2>3 DEF PipeTypeOK, Pipes
      <3> QED
        BY <2>1, <3>1
    <2> QED
      BY <2>2, <2>3 DEF Load
  <1>4. /\ PipeTypeOK' /\ EndInv' /\ OrderInv' /\ ErrorsCount' /\ OnlyOutsideFailures'
        /\ EncodesPending' /\ LastIsShown' /\ Forward
        /\ pipe'.raw = raw /\ pipe'.vectors = pipe.vectors /\ pipe'.undecoded = undecoded
        /\ Left = {Now} \cup Left' /\ (Going' <=> Going)
    <2>1. PICK vectors \in SUBSET Photos : vectors = pipe.vectors
      BY <1>1 DEF PipeTypeOK, Pipes
    <2> QED
      BY <1>1, <1>3, <2>1, Loading
  <1>5. /\ Has(Left, "decoded") <=> Has(Left', "decoded")
        /\ Has(Left, "fetch") <=> Has(Left', "fetch")
        /\ Gives(Left, "load") = Now.photos \cup Gives(Left', "load")
        /\ Gives(Left, "upsert") = Gives(Left', "upsert")
    <2>1. ~IsWork(Now, "decoded") /\ ~IsWork(Now, "fetch") /\ ~IsWork(Now, "upsert")
          /\ IsWork(Now, "load")
      BY <1>1 DEF IsWork
    <2> QED
      BY <1>4, <2>1, OneMore
  <1>6. ImagesSuffice'
    <2>1. Downloads(input)' = Downloads(input)
      BY <1>1 DEF Downloads
    <2> QED
      BY <1>3, <1>4, <1>5, <2>1 DEF PipeInv, DataInv, ImagesSuffice
  <1>7. VectorsSuffice'
    BY <1>1, <1>4, <1>5 DEF PipeInv, DataInv, VectorsSuffice
  <1> QED
    BY <1>4, <1>6, <1>7 DEF PipeInv, DataInv

\* A chunk of vectors is stored.
LEMMA UpsertInv ==
    ASSUME PipeInv, Upsert
    PROVE  PipeInv' /\ Forward
  <1>1. /\ PipeTypeOK /\ pipe.pc = "run" /\ Now.do = "work" /\ Now.of = "upsert"
        /\ UNCHANGED <<sessionVars, input, beat, report, job, lead>>
    BY DEF Upsert, Does, PipeInv
  <1>2. Now.photos \in SUBSET Photos
    <2>1. Now \in Instrs
      BY <1>1, RunsOn, RestFacts DEF PipeInv, EndInv, Running
    <2> QED
      BY <2>1 DEF Instrs
  <1>3. pipe' = [pipe EXCEPT !.rest = Tail(pipe.rest), !.raw = pipe.raw,
                             !.vectors = pipe.vectors \cup Now.photos,
                             !.undecoded = pipe.undecoded]
    BY <1>1 DEF Upsert, PipeTypeOK, Pipes
  <1>4. /\ PipeTypeOK' /\ EndInv' /\ OrderInv' /\ ErrorsCount' /\ OnlyOutsideFailures'
        /\ EncodesPending' /\ LastIsShown' /\ Forward
        /\ pipe'.raw = pipe.raw /\ pipe'.vectors = pipe.vectors \cup Now.photos
        /\ pipe'.undecoded = pipe.undecoded
        /\ Left = {Now} \cup Left' /\ (Going' <=> Going)
        /\ \A y \in Left' : Leads(Now, y, pipe.ticks)
    <2>1. PICK raw \in SUBSET Photos, vectors \in SUBSET Photos, undecoded \in BOOLEAN :
              raw = pipe.raw /\ vectors = pipe.vectors \cup Now.photos
              /\ undecoded = pipe.undecoded
      BY <1>1, <1>2 DEF PipeTypeOK, Pipes
    <2> QED
      BY <1>1, <1>3, <2>1, Loading
  <1>5. IsWork(Now, "upsert")
    BY <1>1 DEF IsWork
  <1>6. /\ Has(Left, "decoded") <=> Has(Left', "decoded")
        /\ Gives(Left, "load") = Gives(Left', "load")
        /\ Gives(Left, "upsert") = Now.photos \cup Gives(Left', "upsert")
        /\ ~Has(Left, "fetch") /\ ~Has(Left', "fetch")
    <2>1. ~IsWork(Now, "decoded") /\ ~IsWork(Now, "fetch") /\ ~IsWork(Now, "load")
      BY <1>1 DEF IsWork
    <2>2. ~Has(Left', "fetch")
      BY <1>4, <1>5, WorkOrder DEF Has
    <2> QED
      BY <1>4, <1>5, <2>1, <2>2, OneMore
  <1>7. ImagesSuffice'
    BY <1>1, <1>4, <1>6 DEF PipeInv, DataInv, ImagesSuffice, Downloads
  <1>8. VectorsSuffice'
    BY <1>1, <1>4, <1>6 DEF PipeInv, DataInv, VectorsSuffice
  <1> QED
    BY <1>4, <1>7, <1>8 DEF PipeInv, DataInv

\* A thread that computes has met no error.
LEMMA ComputesGoing ==
    ASSUME PipeInv, pipe.pc = "run", Now.do = "work",
           Now.of \in {"decoded", "encode", "vectors", "metrics"}
    PROVE  /\ Going /\ PipeTypeOK /\ pipe.rest # <<>> /\ Now \in Left
           /\ \A y \in Left : y = Now \/ Leads(Now, y, pipe.ticks)
  <1>1. PipeTypeOK /\ pipe.rest # <<>>
    BY RunsOn DEF PipeInv, EndInv, Running
  <1>2. Left = {Now} \cup Range(Tail(pipe.rest)) /\ pipe.rest \in Seq(Instrs)
    BY <1>1, RestFacts
  <1>3. \A y \in Range(Tail(pipe.rest)) : Leads(Now, y, pipe.ticks)
    BY <1>1, <1>2, OrderTail DEF PipeInv, OrderInv, Now
  <1>4. ~Finishes(Now) /\ Now.do # "report"
    BY SimpleInstrs DEF Finishes
  <1>5. Going
    BY <1>2, <1>4 DEF PipeInv, EndInv, RestFits
  <1> QED
    BY <1>1, <1>2, <1>3, <1>5

\* What the computations need is there.
LEMMA NeedsMet ==
    ASSUME PipeInv, pipe.pc = "run", Now.do = "work", Now.of \in {"encode", "vectors", "metrics"}
    PROVE  Needs(Now.of)
  <1>1. /\ Going /\ PipeTypeOK /\ Now \in Left
        /\ \A y \in Left : y = Now \/ Leads(Now, y, pipe.ticks)
    BY ComputesGoing
  <1>2. CASE Now.of \in {"encode", "metrics"}
    <2>1. ~Has(Left, "decoded")
      <3>1. IsWork(Now, "encode") \/ IsWork(Now, "metrics")
        BY <1>2 DEF IsWork
      <3>2. ~IsWork(Now, "decoded")
        BY <1>2 DEF IsWork
      <3>3. \A y \in Left : ~IsWork(y, "decoded")
        BY <1>1, <3>1, <3>2, WorkOrder
      <3> QED
        BY <3>3 DEF Has
    <2>2. Downloads(input) \subseteq pipe.raw
      BY <1>1, <2>1 DEF PipeInv, DataInv, ImagesSuffice
    <2>3. CASE Now.of = "encode"
      <3>1. Now.photos \subseteq Pending(input)
        BY <1>1, <2>3 DEF PipeInv, DataInv, EncodesPending, IsWork
      <3>2. Now.photos \subseteq pipe.raw
        BY <1>1, <2>2, <3>1, ToDownload
      <3> QED
        BY <2>3, <3>2 DEF Needs
    <2>4. CASE Now.of = "metrics"
      <3>1. Photos \subseteq pipe.raw \cup IF input.reuse THEN input.measured ELSE {}
        BY <1>1, <2>2, ToDownload
      <3> QED
        BY <2>4, <3>1 DEF Needs
    <2> QED
      BY <1>2, <2>3, <2>4
  <1>3. CASE Now.of = "vectors"
    <2>1. IsWork(Now, "vectors") /\ ~IsWork(Now, "fetch") /\ ~IsWork(Now, "upsert")
      BY <1>3 DEF IsWork
    <2>2. \A y \in Left : ~IsWork(y, "fetch") /\ ~IsWork(y, "upsert")
      BY <1>1, <2>1, WorkOrder
    <2>3. ~Has(Left, "fetch") /\ Gives(Left, "upsert") = {}
      BY <2>2 DEF Has, Gives
    <2>4. Photos \subseteq pipe.vectors
      BY <1>1, <2>3 DEF PipeInv, DataInv, VectorsSuffice
    <2>5. pipe.vectors \subseteq Photos
      BY <1>1 DEF PipeTypeOK, Pipes
    <2>6. pipe.vectors = Photos
      BY <2>4, <2>5
    <2> QED
      BY <1>3, <2>6 DEF Needs
  <1> QED
    BY <1>2, <1>3

\* A computation finds what it needs.
LEMMA ComputeInv ==
    ASSUME PipeInv, Compute
    PROVE  PipeInv' /\ Forward
  <1>1. /\ PipeTypeOK /\ pipe.pc = "run" /\ Now.do = "work"
        /\ Now.of \in {"decoded", "encode", "vectors", "metrics"}
        /\ UNCHANGED <<input, beat, report, job, lead>>
        /\ IF Needs(Now.of) THEN Continue
           ELSE Fails(IF Now.of = "decoded" THEN "decode" ELSE "bug")
    BY DEF Compute, PipeInv
  <1>2. CASE Now.of # "decoded"
    <2>1. Continue
      BY <1>1, <1>2, NeedsMet
    <2>2. ~Finishes(Now) /\ \A what \in {"load", "decoded", "fetch", "upsert"} : ~IsWork(Now, what)
      BY <1>1, <1>2, SimpleInstrs DEF Finishes, IsWork
    <2> QED
      BY <1>1, <2>1, <2>2, ContinuingOnly
  <1>3. CASE Now.of = "decoded" /\ ~Needs(Now.of)
    <2>1. Fails("decode") /\ "decode" \in Errs \ {"none", "bug"}
      BY <1>1, <1>3 DEF Errs, CallErrors, AgentErrors
    <2> QED
      BY <1>1, <2>1, FailingOnly DEF Running
  <1>4. CASE Now.of = "decoded" /\ Needs(Now.of)
    <2>1. ~pipe.undecoded /\ Continue
      BY <1>1, <1>4 DEF Needs
    <2>2. /\ Going /\ pipe.rest # <<>> /\ Now \in Left
          /\ \A y \in Left : y = Now \/ Leads(Now, y, pipe.ticks)
      BY <1>1, ComputesGoing
    <2>3. /\ pipe' \in Pipes /\ talk' = [c \in Talks |-> talk'[c]]
          /\ pipe'.rest = Tail(pipe.rest) /\ pipe'.error = pipe.error
          /\ pipe'.pending = pipe.pending /\ pipe'.ticks = pipe.ticks
          /\ pipe'.pc = IF pipe.pending # {} /\ pipe.rest[2].do = "await" THEN "await" ELSE "run"
          /\ pipe'.raw = pipe.raw /\ pipe'.vectors = pipe.vectors
          /\ pipe'.undecoded = pipe.undecoded /\ UNCHANGED sessionVars
      BY <1>1, <2>1, <2>2, ContinuesType
    <2>4. PipeTypeOK'
      BY <1>1, <2>3 DEF PipeTypeOK
    <2>5. Before(job.shown, job.shown) /\ Before(job.shown, report.current)
      BY <1>1, ProgressType, BeforeSame DEF PipeInv, OrderInv, ProgressFollows
    <2>6. beat'.pc = "call" => report'.lock = "beat" /\ beat'.sends = report.current
      BY <1>1 DEF PipeInv, OrderInv, ProgressFollows
    <2>7. ~Finishes(Now) /\ Now.do # "await"
      BY <1>1, <1>4, SimpleInstrs DEF Finishes
    <2>8. /\ EndInv' /\ OrderInv' /\ ErrorsCount' /\ OnlyOutsideFailures' /\ EncodesPending'
          /\ Left = {Now} \cup Left' /\ (Going' <=> Going)
      BY <1>1, <2>3, <2>4, <2>5, <2>6, <2>7, Advancing
    <2>9. LastIsShown'
      <3>1. Report(7, N).do = "report"
        BY DEF Report, Instr
      <3>2. Now # Report(7, N)
        BY <1>1, <3>1
      <3> QED
        BY <1>1, <2>5, <2>8, <3>2, LastStillShown, ProgressType
    <2>10. ImagesSuffice'
      <3>1. IsWork(Now, "decoded") /\ ~IsWork(Now, "load")
        BY <1>1, <1>4 DEF IsWork
      <3>2. \A y \in Left : ~IsWork(y, "load")
        BY <2>2, <3>1, WorkOrder
      <3>3. Has(Left, "decoded") /\ Gives(Left, "load") = {}
        BY <2>2, <3>1, <3>2 DEF Has, Gives
      <3>4. Downloads(input) \subseteq pipe.raw
        BY <2>1, <2>2, <3>3 DEF PipeInv, DataInv, ImagesSuffice
      <3>5. Downloads(input)' = Downloads(input)
        BY <1>1 DEF Downloads
      <3> QED
        BY <2>3, <3>4, <3>5 DEF ImagesSuffice
    <2>11. VectorsSuffice'
      <3>1. ~IsWork(Now, "fetch") /\ ~IsWork(Now, "upsert")
        BY <1>4 DEF IsWork
      <3>2. /\ Has(Left, "fetch") <=> Has(Left', "fetch")
            /\ Gives(Left, "upsert") = Gives(Left', "upsert")
        BY <2>8, <3>1, OneMore
      <3> QED
        BY <1>1, <2>3, <2>8, <3>2 DEF PipeInv, DataInv, VectorsSuffice
    <2>12. Forward
      BY <1>1, <2>5 DEF Forward, Before
    <2> QED
      BY <2>4, <2>8, <2>9, <2>10, <2>11, <2>12 DEF PipeInv, DataInv
  <1> QED
    BY <1>2, <1>3, <1>4

-----------------------------------------------------------------------------
(* The tasks of the agent.                                                 *)

\* The tasks of the agent are submitted.
LEMMA SubmitInv ==
    ASSUME PipeInv, Submit
    PROVE  PipeInv' /\ Forward
  <1>1. /\ PipeTypeOK /\ pipe.pc = "run" /\ Now.do = "await"
        /\ UNCHANGED <<input, beat, report, job, lead>>
        /\ pipe' = [pipe EXCEPT !.pc = "await", !.pending = Submitted(Now.of)]
    BY DEF Submit, PipeInv
  <1>2. Submitted(Now.of) \in SUBSET (Talks \cup {None})
    BY DEF Submitted
  <1>3. /\ pipe' \in Pipes /\ pipe'.pc = "await" /\ pipe'.rest = pipe.rest
        /\ pipe'.error = pipe.error /\ pipe'.raw = pipe.raw /\ pipe'.vectors = pipe.vectors
        /\ pipe'.undecoded = pipe.undecoded /\ pipe'.pending = Submitted(Now.of)
        /\ pipe'.ticks = pipe.ticks
    BY <1>1, <1>2 DEF PipeTypeOK, Pipes
  <1>4. talk' = [c \in Talks |-> talk'[c]] /\ TasksStop'
    <2>1. pipe.pending = {} /\ TasksStop
      BY <1>1 DEF PipeInv, EndInv, TasksAreWaitedFor
    <2>2. Going
      <3>1. pipe.rest # <<>> /\ ~Finishes(Now)
        BY <1>1, RunsOn, SimpleInstrs DEF PipeInv, EndInv, Running, Finishes
      <3>2. Now \in Left
        BY <1>1, <3>1, RestFacts
      <3> QED
        BY <1>1, <3>1, <3>2 DEF PipeInv, EndInv, RestFits
    <2>3. /\ \A c \in Talks : Settled(talk[c]) /\ ~talk[c].thread /\ ~talk[c].canceled
          /\ tripRegion \notin {"submitted", "asked", "canceled"}
      BY <2>1, <2>2, TasksSettled
    <2>4. CASE Now.of = "regions"
      <3>1. UNCHANGED talk /\ tripRegion' = "submitted" /\ pipe'.pending = {None}
        BY <1>3, <2>4 DEF Submit, Submitted
      <3>2. \A c \in Talks : TalkFits(talk[c])
        BY <2>1 DEF TasksStop
      <3>3. TasksStop'
        BY <2>3, <3>1, <3>2 DEF TasksStop, Settled
      <3> QED
        BY <1>1, <3>1, <3>3 DEF PipeTypeOK
    <2>5. CASE Now.of # "regions"
      <3>1. /\ talk' = [c \in Talks |-> [talk[c] EXCEPT !.at = "queue"]]
            /\ UNCHANGED tripRegion /\ pipe'.pending = Talks
        BY <1>3, <2>5 DEF Submit, Submitted
      <3>2. ASSUME NEW c \in Talks
            PROVE  TalkFits(talk'[c]) /\ talk'[c].at = "queue" /\ ~talk'[c].canceled
        <4>1. TalkFits(talk[c]) /\ ~talk[c].canceled
          BY <2>1, <2>3 DEF TasksStop
        <4>2. talk'[c] = [talk[c] EXCEPT !.at = "queue"]
          BY <3>1
        <4>3. PICK t : t = talk[c]
          OBVIOUS
        <4>4. TalkFits(t) /\ ~t.canceled /\ talk'[c] = [t EXCEPT !.at = "queue"]
          BY <4>1, <4>2, <4>3
        <4>5. /\ TalkFits([t EXCEPT !.at = "queue"])
              /\ [t EXCEPT !.at = "queue"].at = "queue"
              /\ ~[t EXCEPT !.at = "queue"].canceled
          BY <4>4, AskedToStop
        <4> QED
          BY <4>4, <4>5
      <3>3. TasksStop'
        BY <2>3, <3>1, <3>2 DEF TasksStop
      <3> QED
        BY <3>1, <3>3
    <2> QED
      BY <2>4, <2>5
  <1>5. PipeTypeOK'
    BY <1>1, <1>3, <1>4 DEF PipeTypeOK
  <1>6. Left' = Left /\ Now' = Now /\ (Going' <=> Going)
    BY <1>3 DEF Left, Now, Going
  <1>7. /\ Now \in Left /\ \A x \in Left : x.do = "work" => x.of \in LateWorks
    <2>1. pipe.rest # <<>> /\ pipe.rest \in Seq(Instrs)
      BY <1>1, RunsOn, RestFacts DEF PipeInv, EndInv, Running
    <2>2. Left = {Now} \cup Range(Tail(pipe.rest))
      BY <1>1, <2>1, RestFacts
    <2>3. \A x \in Range(Tail(pipe.rest)) : Leads(Now, x, pipe.ticks)
      BY <2>1, OrderTail DEF PipeInv, OrderInv, Now
    <2> QED
      BY <1>1, <2>2, <2>3 DEF Leads
  <1>8. EndInv'
    <2>1. RestFits'
      BY <1>1, <1>3, <1>6 DEF PipeInv, EndInv, RestFits, Running
    <2>2. LeftUnentered'
      BY <1>1, <1>3, <1>6 DEF PipeInv, EndInv, LeftUnentered
    <2>3. TasksAreWaitedFor'
      BY <1>1, <1>3, <1>4, <1>6, <1>7 DEF TasksAreWaitedFor, Running
    <2>4. ThreadsEnd'
      BY <1>1, <1>3 DEF PipeInv, EndInv, ThreadsEnd
    <2> QED
      BY <2>1, <2>2, <2>3, <2>4 DEF EndInv
  <1>9. OrderInv'
    BY <1>1, <1>3, <1>6 DEF PipeInv, OrderInv, ProgressFollows
  <1>10. LastIsShown' /\ pipe'.error # "bug"
    BY <1>1, <1>3, <1>6 DEF PipeInv, DataInv, LastIsShown, OnlyOutsideFailures
  <1>11. DataInv'
    BY <1>1, <1>3, <1>6, <1>10, DataKept DEF PipeInv
  <1>12. ErrorsCount'
    BY <1>1, <1>3 DEF PipeInv, ErrorsCount
  <1>13. Forward
    <2>1. Before(job.shown, job.shown)
      BY <1>1, ProgressType, BeforeSame
    <2> QED
      BY <1>1, <2>1 DEF Forward, Before
  <1> QED
    BY <1>5, <1>8, <1>9, <1>11, <1>12, <1>13 DEF PipeInv

\* The waiter sees that no task is done and waits on.
LEMMA PollInv ==
    ASSUME PipeInv, Poll
    PROVE  PipeInv' /\ Forward
  <1>1. /\ PipeTypeOK /\ pipe.pc = "await" /\ UNCHANGED <<input, beat, report, job, lead>>
    BY DEF Poll, PipeInv
  <1>2. CASE Fails("agent_timeout")
    BY <1>1, <1>2, FailingOnly DEF Errs, CallErrors, AgentErrors, TalkErrors, Running
  <1>3. CASE Fails("canceled")
    BY <1>1, <1>3, FailingOnly DEF Errs, CallErrors, AgentErrors, Running
  <1>4. CASE /\ pipe' = [pipe EXCEPT !.pc = "call", !.rest = <<Check>> \o pipe.rest]
             /\ UNCHANGED sessionVars
    <2> DEFINE rest == <<Check>> \o pipe.rest
    <2>1. pipe.rest \in Seq(Instrs) /\ pipe.rest # <<>> /\ Left = {Now} \cup Range(Tail(pipe.rest))
      BY <1>1, RunsOn, RestFacts DEF PipeInv, EndInv, Running
    <2>2. /\ <<Check>> \in Seq(Instrs) /\ rest \in Seq(Instrs)
          /\ Range(rest) = {Check} \cup Left /\ Head(rest) = Check
      <3>1. Check \in Instrs /\ <<Check>> \in Seq(Instrs)
        BY SimpleInstrs
      <3> DEFINE one == <<Check>>
      <3> HIDE DEF one
      <3>2. one \o pipe.rest \in Seq(Instrs)
            /\ Range(one \o pipe.rest) = Range(one) \cup Range(pipe.rest)
        <4>1. one \in Seq(Instrs) /\ pipe.rest \in Seq(Instrs)
          BY <2>1, <3>1 DEF one
        <4> QED
          BY <4>1, RangeConcatenation, ConcatProperties
      <3>3. Head(rest) = Check
        BY <2>1, <3>1, ConcatProperties, HeadTailProperties, LenProperties
      <3> QED
        BY <3>1, <3>2, <3>3, OneLeft DEF Left, one
    <2>3. InOrder(rest, pipe.ticks)
      <3>1. \A y : Leads(Check, y, pipe.ticks)
        BY SimpleInstrs DEF Leads
      <3>2. InOrder(<<Check>>, pipe.ticks) /\ Range(<<Check>>) = {Check}
        BY OneLeft
      <3>3. InOrder(pipe.rest, pipe.ticks)
        BY DEF PipeInv, OrderInv
      <3>4. \A t : InOrder(<<Check>>, t) /\ InOrder(pipe.rest, t)
                   /\ (\A y : Leads(Check, y, t)) => InOrder(<<Check>> \o pipe.rest, t)
        BY <2>1, <2>2, <3>2, OrderConcat
      <3> QED
        BY <3>1, <3>2, <3>3, <3>4
    <2> HIDE DEF rest
    <2>4. /\ pipe' \in Pipes /\ pipe'.pc = "call" /\ pipe'.rest = rest
          /\ pipe'.error = pipe.error /\ pipe'.raw = pipe.raw /\ pipe'.vectors = pipe.vectors
          /\ pipe'.undecoded = pipe.undecoded /\ pipe'.pending = pipe.pending
          /\ pipe'.ticks = pipe.ticks
      BY <1>1, <1>4, <2>2 DEF PipeTypeOK, Pipes, rest
    <2>5. UNCHANGED <<talk, tripRegion>>
      BY <1>4 DEF sessionVars
    <2>6. PipeTypeOK'
      BY <1>1, <2>4, <2>5 DEF PipeTypeOK
    <2>7. Check.do = "check" /\ ~Finishes(Check) /\ Check # Leave /\ Check # Exit
      BY SimpleInstrs DEF Finishes
    <2>8. Left' = {Check} \cup Left /\ Now' = Check /\ (Going' <=> Going)
      BY <2>2, <2>4, <2>7 DEF Left, Now, Going
    <2>9. Going
      <3>1. Now.do = "await" /\ Now \in Left /\ ~Finishes(Now)
        BY <1>1, <2>1, SimpleInstrs DEF PipeInv, EndInv, RestFits, Finishes
      <3> QED
        BY <3>1 DEF PipeInv, EndInv, RestFits
    <2>10. EndInv'
      <3>1. RestFits'
        BY <1>1, <2>4, <2>7, <2>8, <2>9 DEF PipeInv, EndInv, RestFits, Running
      <3>2. LeftUnentered'
        <4>1. Leave \notin Left
          BY <1>1, <2>1, SimpleInstrs, OneLeft DEF PipeInv, EndInv, RestFits, LeftUnentered, Now
        <4> QED
          BY <2>7, <2>8, <4>1 DEF LeftUnentered
      <3>3. TasksAreWaitedFor'
        <4>1. TasksStop'
          BY <2>4, <2>5, <2>8, TasksKept DEF PipeInv, EndInv, TasksAreWaitedFor
        <4> QED
          BY <1>1, <2>4, <2>7, <2>8, <4>1 DEF PipeInv, EndInv, TasksAreWaitedFor, Running
      <3>4. ThreadsEnd'
        BY <1>1, <2>4 DEF PipeInv, EndInv, ThreadsEnd
      <3> QED
        BY <3>1, <3>2, <3>3, <3>4 DEF EndInv
    <2>11. OrderInv'
      BY <1>1, <2>3, <2>4, <2>7, <2>8 DEF PipeInv, OrderInv, ProgressFollows
    <2>12. LastIsShown' /\ pipe'.error # "bug"
      BY <1>1, <2>4, <2>8 DEF PipeInv, DataInv, LastIsShown, OnlyOutsideFailures
    <2>13. DataInv'
      <3>1. \A what : ~IsWork(Check, what)
        BY <2>7 DEF IsWork
      <3>2. \A what \in {"load", "decoded", "fetch", "upsert"} :
                \A x : IsWork(x, what) => (x \in Left' <=> x \in Left)
        BY <2>8, <3>1
      <3>3. \A x \in Left' : IsWork(x, "encode") => x \in Left
        BY <2>8, <3>1
      <3> QED
        BY <1>1, <2>4, <2>8, <2>12, <3>2, <3>3, DataKept DEF PipeInv
    <2>14. ErrorsCount'
      BY <1>1, <2>4 DEF PipeInv, ErrorsCount
    <2>15. Forward
      <3>1. Before(job.shown, job.shown)
        BY <1>1, ProgressType, BeforeSame
      <3> QED
        BY <1>1, <3>1 DEF Forward, Before
    <2> QED
      BY <2>6, <2>10, <2>11, <2>13, <2>14, <2>15 DEF PipeInv
  <1> QED
    BY <1>2, <1>3, <1>4 DEF Poll

\* The progress of the agent grows with its tasks and stays below the end.
LEMMA TickedGrows ==
    ASSUME NEW a \in Nat, NEW b \in Nat, a <= b
    PROVE  /\ Ticked(a) \in Progress /\ Before(Ticked(a), Ticked(b))
           /\ Before(Ticked(a), <<5, N - 1>>) /\ <<5, N - 1>> \in Progress
  <1>1. N - 1 \in 0 .. N /\ 5 \in 0 .. 7
    BY NType
  <1>2. ASSUME NEW m \in Nat
        PROVE  Min({m, N - 1}) \in 0 .. N - 1 /\ Min({m, N - 1}) = IF m <= N - 1 THEN m ELSE N - 1
    BY <1>1, MinOfTwo
  <1>3. /\ Min({a, N - 1}) \in 0 .. N - 1 /\ Min({b, N - 1}) \in 0 .. N - 1
        /\ Min({a, N - 1}) <= Min({b, N - 1})
    BY <1>1, <1>2
  <1>4. PICK p \in 0 .. N - 1, q \in 0 .. N - 1 :
            p = Min({a, N - 1}) /\ q = Min({b, N - 1}) /\ p <= q
    BY <1>3
  <1>5. Ticked(a) = <<5, p>> /\ Ticked(b) = <<5, q>>
    BY <1>4 DEF Ticked
  <1>6. <<5, p>> \in Progress /\ <<5, N - 1>> \in Progress
    BY <1>1, NType DEF Progress
  <1>7. Before(<<5, p>>, <<5, q>>) /\ Before(<<5, p>>, <<5, N - 1>>)
    BY <1>4, NType DEF Before
  <1> QED
    BY <1>5, <1>6, <1>7

\* A program in order stays in order when the agent has counted more tasks.
LEMMA MoreTicks ==
    ASSUME NEW s \in Seq(Instrs), NEW a \in Nat, NEW b \in Nat, a <= b, InOrder(s, a)
    PROVE  InOrder(s, b)
  <1> SUFFICES ASSUME NEW k \in DOMAIN s, NEW m \in DOMAIN s, k < m
               PROVE  Leads(s[k], s[m], b)
    BY DEF InOrder
  <1>1. Leads(s[k], s[m], a)
    BY DEF InOrder
  <1>2. s[k] \in Instrs
    BY ElementOfSeq, LenProperties
  <1>3. Shows(s[k]) \in Points /\ Ticked(a) \in Points /\ Ticked(b) \in Points
    BY <1>2, PlacesArePoints, TickedGrows, BeforeSame
  <1>4. Before(Shows(s[k]), Ticked(a)) => Before(Shows(s[k]), Ticked(b))
    BY <1>3, TickedGrows, BeforeTrans
  <1> QED
    BY <1>1, <1>4 DEF Leads

\* The report of the k-th task that is done.
LEMMA TickIs ==
    ASSUME PipeTypeOK, NEW k \in Nat
    PROVE  /\ Tick(k) \in Instrs /\ Tick(k).do = "report"
           /\ Shows(Tick(k)) = Ticked(pipe.ticks + k)
  <1>1. pipe.ticks + k \in Nat
    BY DEF PipeTypeOK, Pipes
  <1>2. PICK m \in 0 .. N : m = Min({pipe.ticks + k, N - 1})
    <2>1. N - 1 \in Int /\ N - 1 \in 0 .. N
      BY NType
    <2>2. \A a \in Nat : Min({a, N - 1}) = IF a <= N - 1 THEN a ELSE N - 1
      BY <2>1, MinOfTwo
    <2>3. PICK a \in Nat : a = pipe.ticks + k
      BY <1>1
    <2>4. Min({a, N - 1}) \in 0 .. N
      BY <2>1, <2>2, NType
    <2> QED
      BY <2>3, <2>4
  <1>3. Tick(k) = Report(5, m) /\ Ticked(pipe.ticks + k) = <<5, m>>
    BY <1>2 DEF Tick, Ticked
  <1>4. Report(5, m) \in Instrs
    <2>1. 5 \in 0 .. 7
      OBVIOUS
    <2> QED
      BY <2>1, InstrType
  <1>5. Report(5, m).do = "report" /\ Shows(Report(5, m)) = <<5, m>>
    BY DEF Report, Instr, Shows
  <1> QED
    BY <1>3, <1>4, <1>5

\* The reports of the tasks that are done come first.
LEMMA TicksBefore ==
    ASSUME PipeTypeOK, NEW n \in Nat, NEW after \in Seq(Instrs), after # <<>>,
           Head(after).do # "await", InOrder(after, pipe.ticks + n),
           \A y \in Range(after) : y.do = "report" => Before(<<5, N - 1>>, Shows(y))
    PROVE  LET all == [k \in 1 .. n |-> Tick(k)] \o after
           IN  /\ all \in Seq(Instrs) /\ InOrder(all, pipe.ticks + n)
               /\ Range(after) \subseteq Range(all)
               /\ \A x \in Range(all) :
                      \/ x \in Range(after)
                      \/ x.do = "report" /\ Before(Ticked(pipe.ticks), Shows(x))
               /\ all # <<>> /\ Head(all).do # "await"
  <1> DEFINE ticks == [k \in 1 .. n |-> Tick(k)]
  <1> DEFINE all == ticks \o after
  <1>1. pipe.ticks \in Nat
    BY DEF PipeTypeOK, Pipes
  <1>2. /\ ticks \in Seq(Instrs) /\ Len(ticks) = n /\ DOMAIN ticks = 1 .. n
        /\ \A k \in 1 .. n : ticks[k] = Tick(k)
    BY TickIs
  <1> HIDE DEF ticks
  <1>3. all \in Seq(Instrs) /\ Range(all) = Range(ticks) \cup Range(after)
    BY <1>2, ConcatProperties, RangeConcatenation
  <1>4. ASSUME NEW x \in Range(ticks)
        PROVE  \E k \in 1 .. n : x.do = "report" /\ Shows(x) = Ticked(pipe.ticks + k)
    <2>1. PICK k \in 1 .. n : x = Tick(k)
      BY <1>2 DEF Range
    <2> QED
      BY <2>1, TickIs
  <1>5. InOrder(ticks, pipe.ticks + n)
    <2> SUFFICES ASSUME NEW k \in 1 .. n, NEW m \in 1 .. n, k < m
                 PROVE  Leads(ticks[k], ticks[m], pipe.ticks + n)
      BY <1>2 DEF InOrder
    <2>1. /\ ticks[k].do = "report" /\ Shows(ticks[k]) = Ticked(pipe.ticks + k)
          /\ ticks[m].do = "report" /\ Shows(ticks[m]) = Ticked(pipe.ticks + m)
      BY <1>2, TickIs
    <2>2. Before(Ticked(pipe.ticks + k), Ticked(pipe.ticks + m))
      BY <1>1, TickedGrows
    <2> QED
      BY <2>1, <2>2, SimpleInstrs DEF Leads
  <1>6. ASSUME NEW x \in Range(ticks), NEW y \in Range(after)
        PROVE  Leads(x, y, pipe.ticks + n)
    <2>1. PICK k \in 1 .. n : x.do = "report" /\ Shows(x) = Ticked(pipe.ticks + k)
      BY <1>4
    <2>2. /\ Before(Ticked(pipe.ticks + k), Ticked(pipe.ticks + n))
          /\ Before(Ticked(pipe.ticks + k), <<5, N - 1>>)
          /\ Ticked(pipe.ticks + k) \in Points /\ <<5, N - 1>> \in Points
      BY <1>1, TickedGrows, BeforeSame
    <2>3. y \in Instrs
      BY RangeOfSeq
    <2>4. y.do = "report" => Before(Ticked(pipe.ticks + k), Shows(y))
      BY <2>2, <2>3, PlacesArePoints, BeforeTrans
    <2> QED
      BY <2>1, <2>2, <2>4, SimpleInstrs DEF Leads
  <1>7. InOrder(all, pipe.ticks + n)
    <2>1. PICK t : t = pipe.ticks + n
      OBVIOUS
    <2>2. InOrder(ticks, t) /\ InOrder(after, t)
          /\ \A x \in Range(ticks), y \in Range(after) : Leads(x, y, t)
      BY <1>5, <1>6, <2>1
    <2>3. InOrder(all, t)
      BY <1>2, <2>2, OrderConcat
    <2> QED
      BY <2>1, <2>3
  <1>8. \A x \in Range(ticks) : x.do = "report" /\ Before(Ticked(pipe.ticks), Shows(x))
    BY <1>1, <1>4, TickedGrows
  <1>9. all # <<>> /\ Head(all).do # "await"
    <2>1. /\ Len(all) = n + Len(after) /\ Len(after) \in Nat \ {0}
          /\ all[1] = IF 1 <= n THEN ticks[1] ELSE after[1 - n]
      <3>1. Len(after) \in Nat \ {0} /\ 1 \in 1 .. Len(ticks) + Len(after)
        BY <1>2, LenProperties, EmptySeq
      <3> HIDE DEF all
      <3>2. /\ Len(all) = Len(ticks) + Len(after)
            /\ all[1] = IF 1 <= Len(ticks) THEN ticks[1] ELSE after[1 - Len(ticks)]
        BY <1>2, <3>1, ConcatProperties DEF all
      <3> QED
        BY <1>2, <3>1, <3>2
    <2>2. Head(all) = all[1] /\ Head(after) = after[1] /\ all # <<>>
      BY <1>3, <2>1, HeadTailProperties, EmptySeq, LenProperties
    <2>3. CASE n = 0
      BY <2>1, <2>2, <2>3
    <2>4. CASE n # 0
      BY <1>2, <2>1, <2>2, <2>4, TickIs
    <2> QED
      BY <2>3, <2>4
  <1> QED
    BY <1>3, <1>7, <1>8, <1>9 DEF ticks

\* The waiter finds tasks done, reports them and goes on, comes back or fails.
LEMMA TalksDoneInv ==
    ASSUME PipeInv, TalksDone
    PROVE  PipeInv' /\ Forward
  <1> DEFINE done   == {x \in pipe.pending : IsOver(x)}
             failed == {x \in done : HasFailed(x)}
             left   == pipe.pending \ done
  <1>1. /\ PipeTypeOK /\ pipe.pc = "await"
        /\ UNCHANGED <<sessionVars, input, beat, report, job, lead>>
    BY DEF TalksDone, PipeInv
  <1>2. PICK n \in 0 .. Cardinality(done \ failed), error \in AgentErrors :
            pipe' = [pipe EXCEPT
                !.pc = "run", !.ticks = @ + n, !.pending = left,
                !.rest = [k \in 1 .. n |-> Tick(k)] \o
                         IF failed # {} THEN <<Raise(error)>>
                         ELSE WaiterCheck \o IF left = {} THEN Tail(@) ELSE @]
    BY DEF TalksDone, AgentErrors
  <1>3. n \in Nat /\ pipe.ticks \in Nat /\ pipe.pending \subseteq Talks \cup {None}
    <2>1. pipe.pending \in SUBSET (Talks \cup {None}) /\ pipe.ticks \in Nat
      BY <1>1 DEF PipeTypeOK, Pipes
    <2>2. IsFiniteSet(Talks \cup {None})
      BY PipelineAssumption, FS_AddElement
    <2>3. IsFiniteSet(done \ failed)
      BY <2>1, <2>2, FS_Subset
    <2>4. Cardinality(done \ failed) \in Nat
      BY <2>3, FS_CardinalityType
    <2> QED
      BY <2>1, <2>4
  <1> DEFINE after == IF failed # {} THEN <<Raise(error)>>
                      ELSE WaiterCheck \o IF left = {} THEN Tail(pipe.rest) ELSE pipe.rest
             all == [k \in 1 .. n |-> Tick(k)] \o after
  <1>4. /\ UNCHANGED <<talk, tripRegion>> /\ talk' = [c \in Talks |-> talk'[c]]
        /\ left \subseteq Talks \cup {None}
    BY <1>1, <1>3 DEF sessionVars, PipeTypeOK
  <1>5. /\ pipe' = [pipe EXCEPT !.pc = "run", !.ticks = pipe.ticks + n, !.pending = left,
                               !.rest = all]
    BY <1>1, <1>2 DEF PipeTypeOK, Pipes
  <1>6. /\ pipe.rest # <<>> /\ pipe.rest \in Seq(Instrs) /\ Tail(pipe.rest) \in Seq(Instrs)
        /\ Left = {Now} \cup Range(Tail(pipe.rest)) /\ Now \in Left /\ Now.do = "await"
        /\ InOrder(pipe.rest, pipe.ticks) /\ InOrder(Tail(pipe.rest), pipe.ticks)
        /\ \A y \in Range(Tail(pipe.rest)) : Leads(Now, y, pipe.ticks)
    <2>1. /\ pipe.rest # <<>> /\ pipe.rest \in Seq(Instrs) /\ Tail(pipe.rest) \in Seq(Instrs)
          /\ Left = {Now} \cup Range(Tail(pipe.rest))
      BY <1>1, RunsOn, RestFacts DEF PipeInv, EndInv, Running
    <2>2. Now.do = "await"
      BY <1>1 DEF PipeInv, EndInv, RestFits
    <2>3. InOrder(pipe.rest, pipe.ticks)
      BY DEF PipeInv, OrderInv
    <2>4. /\ InOrder(Tail(pipe.rest), pipe.ticks)
          /\ \A y \in Range(Tail(pipe.rest)) : Leads(Now, y, pipe.ticks)
      <3>1. PICK t : t = pipe.ticks
        OBVIOUS
      <3>2. InOrder(Tail(pipe.rest), t) /\ \A y \in Range(Tail(pipe.rest)) : Leads(Now, y, t)
        BY <2>1, <2>3, <3>1, OrderTail DEF Now
      <3> QED
        BY <3>1, <3>2
    <2> QED
      BY <2>1, <2>2, <2>3, <2>4
  <1>7. /\ ~Finishes(Now) /\ Now.do # "report" /\ Going /\ Leave \notin Left
        /\ \A y \in Left : /\ y.do = "report" => Before(<<5, N - 1>>, Shows(y))
                           /\ y.do = "work" => y.of \in LateWorks
    <2>1. ~Finishes(Now) /\ Now.do # "report"
      BY <1>6, SimpleInstrs DEF Finishes
    <2>2. Going
      BY <1>6, <2>1 DEF PipeInv, EndInv, RestFits
    <2>3. Leave \notin Left
      BY <1>6, <2>2 DEF PipeInv, EndInv, LeftUnentered, Going
    <2>4. \A y \in Left : /\ y.do = "report" => Before(<<5, N - 1>>, Shows(y))
                          /\ y.do = "work" => y.of \in LateWorks
      BY <1>6 DEF Leads
    <2> QED
      BY <2>1, <2>2, <2>3, <2>4
  <1> DEFINE on == IF left = {} THEN Tail(pipe.rest) ELSE pipe.rest
             budget == Work("budget", {})
  <1>8. /\ on \in Seq(Instrs) /\ InOrder(on, pipe.ticks) /\ Range(on) \subseteq Left
        /\ \A y \in Left : y = Now \/ y \in Range(on)
        /\ left # {} => Now \in Range(on)
    BY <1>6 DEF Left
  <1> HIDE DEF left, done, failed
  <1>9. /\ failed # {} => after = <<Raise(error)>>
        /\ failed = {} => after = WaiterCheck \o on
    OBVIOUS
  <1> HIDE DEF on, after
  <1>10. PICK u \in Nat : u = pipe.ticks + n
    BY <1>3
  <1> DEFINE Fitting ==
        /\ after \in Seq(Instrs) /\ after # <<>> /\ Head(after).do # "await" /\ InOrder(after, u)
        /\ \A y \in Range(after) : /\ y # Leave
                                   /\ y.do = "report" => Before(<<5, N - 1>>, Shows(y))
                                   /\ y.do = "work" => y.of \in LateWorks
                                   /\ y.do = "raise" => y.of \in AgentErrors
        /\ \E y \in Range(after) : Finishes(y)
        /\ left # {} => \E y \in Range(after) : y.do \in {"await", "raise"}
        /\ \/ \A y \in Range(after) : y.do = "raise"
           \/ /\ \A y \in Range(after) : y.do # "raise"
              /\ Report(7, N) \in Left => Report(7, N) \in Range(after)
  <1>11. Fitting
    <2>1. CASE failed # {}
      <3>1. after = <<Raise(error)>>
        BY <1>9, <2>1
      <3>2. Raise(error) \in Instrs /\ Raise(error).do = "raise" /\ Raise(error).of = error
        BY InstrType DEF Raise, Instr
      <3>3. /\ after \in Seq(Instrs) /\ after # <<>> /\ Head(after).do # "await"
            /\ Range(after) = {Raise(error)} /\ InOrder(after, u)
        BY <3>1, <3>2, OneLeft
      <3>4. Raise(error) # Leave /\ Finishes(Raise(error))
        BY <3>2, SimpleInstrs DEF Finishes
      <3> QED
        BY <3>2, <3>3, <3>4
    <2>2. CASE failed = {}
      <3> DEFINE first == <<budget, Check>>
      <3>1. after = first \o on
        BY <1>9, <2>2 DEF WaiterCheck
      <3>2. /\ budget \in Instrs /\ Check \in Instrs /\ Check.do = "check"
            /\ budget.do = "work" /\ budget.of = "budget" /\ "budget" \in LateWorks
            /\ budget # Exit /\ budget # Leave /\ Check # Exit /\ Check # Leave
        BY SimpleInstrs DEF Works, LateWorks
      <3> HIDE DEF budget
      <3>3. /\ first \in Seq(Instrs) /\ Len(first) = 2 /\ first[1] = budget /\ first[2] = Check
            /\ DOMAIN first = 1 .. 2 /\ Range(first) = {budget, Check}
        BY <3>2 DEF Range
      <3> HIDE DEF first
      <3>4. \A y : Leads(budget, y, u) /\ Leads(Check, y, u)
        <4>1. \A what : Before(From("budget"), To(what))
          <5>1. From("budget") = <<0, 0>>
            BY DEF From
          <5>2. \A p \in Points : Before(<<0, 0>>, p)
            BY DEF Points, Before
          <5> QED
            BY <5>1, <5>2, PlacesArePoints
        <4> QED
          BY <3>2, <4>1 DEF Leads
      <3>5. InOrder(first, u) /\ InOrder(on, u)
        <4>1. InOrder(first, u)
          BY <3>3, <3>4 DEF InOrder
        <4>2. PICK t \in Nat : t = pipe.ticks
          BY <1>3
        <4>3. t <= u /\ InOrder(on, t)
          BY <1>3, <1>8, <1>10, <4>2
        <4> QED
          BY <1>8, <4>1, <4>3, MoreTicks
      <3>6. /\ after \in Seq(Instrs) /\ InOrder(after, u)
            /\ Range(after) = {budget, Check} \cup Range(on)
            /\ after # <<>> /\ Head(after) = budget
        <4>1. after \in Seq(Instrs) /\ Range(after) = Range(first) \cup Range(on)
          BY <1>8, <3>1, <3>3, ConcatProperties, RangeConcatenation
        <4>2. InOrder(first \o on, u)
          BY <1>8, <3>3, <3>4, <3>5, OrderConcat
        <4>3. Len(first \o on) = 2 + Len(on) /\ Len(on) \in Nat /\ (first \o on)[1] = budget
          <5>1. Len(on) \in Nat /\ 1 \in 1 .. Len(first) + Len(on) /\ Len(first) = 2
            BY <1>8, <3>3, LenProperties
          <5>2. /\ Len(first \o on) = Len(first) + Len(on)
                /\ (first \o on)[1] = IF 1 <= Len(first) THEN first[1] ELSE on[1 - Len(first)]
            BY <1>8, <3>3, <5>1, ConcatProperties
          <5> QED
            BY <3>3, <5>1, <5>2
        <4>4. (first \o on) # <<>> /\ Head(first \o on) = budget
          BY <1>8, <3>1, <4>1, <4>3, HeadTailProperties, LenProperties, EmptySeq
        <4> QED
          BY <3>1, <3>3, <4>1, <4>2, <4>4
      <3>7. \E y \in Range(on) : Finishes(y)
        BY <1>1, <1>7, <1>8 DEF PipeInv, EndInv, RestFits, Running
      <3>8. Report(7, N) \in Left => Report(7, N) \in Range(on)
        <4>1. Report(7, N).do = "report"
          BY DEF Report, Instr
        <4> QED
          BY <1>7, <1>8, <4>1
      <3>9. \A y \in Range(on) : y \in Left /\ y.do # "raise"
        BY <1>7, <1>8 DEF Going
      <3>10. \A y \in Range(after) : /\ y # Leave
                                     /\ y.do = "report" => Before(<<5, N - 1>>, Shows(y))
                                     /\ y.do = "work" => y.of \in LateWorks
                                     /\ y.do # "raise"
        BY <1>7, <3>2, <3>6, <3>9
      <3>11. /\ \E y \in Range(after) : Finishes(y)
             /\ left # {} => \E y \in Range(after) : y.do \in {"await", "raise"}
             /\ Report(7, N) \in Left => Report(7, N) \in Range(after)
        BY <1>6, <1>8, <3>6, <3>7, <3>8
      <3>12. Head(after).do # "await"
        BY <3>2, <3>6
      <3> QED
        BY <3>6, <3>10, <3>11, <3>12
    <2> QED
      BY <2>1, <2>2
  <1>12. /\ all \in Seq(Instrs) /\ InOrder(all, u) /\ Range(after) \subseteq Range(all)
         /\ \A x \in Range(all) : \/ x \in Range(after)
                                  \/ x.do = "report" /\ Before(Ticked(pipe.ticks), Shows(x))
         /\ all # <<>> /\ Head(all).do # "await"
    BY <1>1, <1>3, <1>10, <1>11, TicksBefore
  <1> HIDE DEF all
  <1>13. /\ pipe' \in Pipes /\ pipe'.pc = "run" /\ pipe'.rest = all /\ pipe'.ticks = u
         /\ pipe'.error = pipe.error /\ pipe'.raw = pipe.raw /\ pipe'.vectors = pipe.vectors
         /\ pipe'.undecoded = pipe.undecoded /\ pipe'.pending = left
    BY <1>1, <1>4, <1>5, <1>10, <1>12 DEF PipeTypeOK, Pipes
  <1>14. PipeTypeOK'
    BY <1>1, <1>4, <1>13 DEF PipeTypeOK
  <1>15. Left' = Range(all) /\ Now' = Head(all)
    BY <1>13 DEF Left, Now
  <1>16. \A x \in Left' : /\ x # Leave
                          /\ x.do = "work" => x.of \in LateWorks
                          /\ x.do = "raise" => x.of \in AgentErrors
    BY <1>11, <1>12, <1>15, SimpleInstrs
  <1>17. RestFits'
    <2>1. \E x \in Left' : Finishes(x)
      BY <1>11, <1>12, <1>15
    <2>2. ~Going' => \A x \in Left' : Finishes(x) \/ x.do = "report"
      <3>1. CASE \A y \in Range(after) : y.do = "raise"
        BY <1>12, <1>15, <3>1 DEF Finishes
      <3>2. CASE \A y \in Range(after) : y.do # "raise"
        BY <1>7, <1>12, <1>13, <1>15, <3>2 DEF Going
      <3> QED
        BY <1>11, <3>1, <3>2
    <2> QED
      BY <1>13, <1>16, <2>1, <2>2 DEF RestFits
  <1>18. LeftUnentered'
    BY <1>16 DEF LeftUnentered
  <1>19. TasksAreWaitedFor'
    <2>1. left # {} => \E x \in Left' : x.do \in {"await", "raise"}
      BY <1>11, <1>12, <1>15
    <2>2. Going /\ TasksStop
      BY <1>7 DEF PipeInv, EndInv, TasksAreWaitedFor
    <2>3. ASSUME NEW c \in Talks
          PROVE  /\ TalkFits(talk[c]) /\ ~talk[c].canceled
                 /\ Settled(talk[c]) \/ Stopping(talk[c]) \/ c \in left
                 /\ talk[c].at = "failed" => ~Going'
      <3>1. /\ TalkFits(talk[c]) /\ ~talk[c].canceled
            /\ Settled(talk[c]) \/ Stopping(talk[c]) \/ c \in pipe.pending
            /\ talk[c].at = "failed" => c \in pipe.pending
        BY <2>2 DEF TasksStop
      <3>2. c # None /\ (IsOver(c) <=> talk[c].at \in Over)
        BY PipelineAssumption DEF IsOver
      <3>3. talk[c].at \in Over => Settled(talk[c]) \/ talk[c].at = "failed"
        BY <3>1 DEF Over, TalkFits, Settled
      <3>4. ASSUME talk[c].at = "failed" PROVE ~Going'
        <4>1. failed # {}
          BY <3>1, <3>2, <3>4 DEF HasFailed, Over, done, failed
        <4>2. after = <<Raise(error)>> /\ Raise(error).do = "raise"
          BY <1>9, <4>1 DEF Raise, Instr
        <4>3. Raise(error) \in Range(after)
          BY <4>2, OneLeft
        <4>4. Raise(error) \in Left'
          BY <1>12, <1>15, <4>3
        <4> QED
          BY <4>2, <4>4 DEF Going
      <3> QED
        BY <3>1, <3>2, <3>3, <3>4 DEF Stopping, left, done
    <2>4. tripRegion \in {"submitted", "asked"} => None \in left
      BY <2>2 DEF TasksStop, IsOver, left, done
    <2>5. tripRegion # "canceled"
      BY <2>2 DEF TasksStop
    <2>6. TasksStop'
      BY <1>4, <1>13, <2>3, <2>4, <2>5 DEF TasksStop
    <2> QED
      BY <1>4, <1>12, <1>13, <1>15, <1>16, <2>1, <2>6 DEF TasksAreWaitedFor, Running
  <1>20. ThreadsEnd'
    BY <1>1, <1>13 DEF PipeInv, EndInv, ThreadsEnd
  <1>21. OrderInv'
    <2>1. Before(report.current, Ticked(pipe.ticks)) /\ report.current \in Points
      BY <1>1, <1>6, ProgressType, BeforeSame DEF PipeInv, OrderInv, ProgressFollows
    <2>2. /\ Before(report.current, Ticked(u)) /\ Before(report.current, <<5, N - 1>>)
          /\ Ticked(pipe.ticks) \in Points /\ <<5, N - 1>> \in Points
      <3>1. PICK t \in Nat : t = pipe.ticks
        BY <1>3
      <3>2. t <= u
        BY <1>3, <1>10, <3>1
      <3>3. /\ Ticked(t) \in Points /\ Ticked(u) \in Points /\ <<5, N - 1>> \in Points
            /\ Before(Ticked(t), Ticked(u)) /\ Before(Ticked(t), <<5, N - 1>>)
        BY <3>2, TickedGrows, BeforeSame
      <3> QED
        BY <2>1, <3>1, <3>3, BeforeTrans
    <2>3. ASSUME NEW x \in Left', x.do = "report" PROVE Before(report.current, Shows(x))
      <3>1. x \in Instrs
        BY <1>12, <1>15, RangeOfSeq
      <3>2. Shows(x) \in Points
        BY <3>1, PlacesArePoints
      <3>3. Before(<<5, N - 1>>, Shows(x)) \/ Before(Ticked(pipe.ticks), Shows(x))
        BY <1>11, <1>12, <1>15, <2>3
      <3> QED
        BY <2>1, <2>2, <3>2, <3>3, BeforeTrans
    <2>4. ProgressFollows'
      BY <1>1, <1>13, <2>2, <2>3 DEF PipeInv, OrderInv, ProgressFollows
    <2> QED
      BY <1>12, <1>13, <2>4 DEF OrderInv
  <1>22. pipe'.error # "bug"
    BY <1>13 DEF PipeInv, DataInv, OnlyOutsideFailures
  <1>23. LastIsShown'
    <2>1. Going' => \A y \in Range(after) : y.do # "raise"
      BY <1>12, <1>15 DEF Going
    <2>2. Going' => (Report(7, N) \in Left => Report(7, N) \in Left')
      BY <1>11, <1>12, <1>15, <2>1
    <2> QED
      BY <1>1, <1>7, <2>2 DEF PipeInv, DataInv, LastIsShown
  <1>24. DataInv'
    <2>1. \A what \in {"load", "decoded", "fetch", "upsert", "encode"} :
              \A x : IsWork(x, what) => x \notin Left' /\ x \notin Left
      <3>1. LateWorks \cap {"load", "decoded", "fetch", "upsert", "encode"} = {}
        BY DEF LateWorks
      <3> QED
        BY <1>7, <1>16, <3>1 DEF IsWork
    <2> QED
      BY <1>1, <1>7, <1>13, <1>22, <1>23, <2>1, DataKept DEF PipeInv
  <1>25. ErrorsCount'
    BY <1>1, <1>13 DEF PipeInv, ErrorsCount
  <1>26. Forward
    <2>1. Before(job.shown, job.shown)
      BY <1>1, ProgressType, BeforeSame
    <2> QED
      BY <1>1, <2>1 DEF Forward, Before
  <1> QED
    BY <1>14, <1>17, <1>18, <1>19, <1>20, <1>21, <1>24, <1>25, <1>26 DEF PipeInv, EndInv

-----------------------------------------------------------------------------
(* The end of the thread, and its heartbeat.                               *)

\* The reporter is left and asks its heartbeat to stop.
LEMMA ExitReporterInv ==
    ASSUME PipeInv, ExitReporter
    PROVE  PipeInv' /\ Forward
  <1>1. /\ PipeTypeOK /\ pipe.pc = "run" /\ Now.do = "work" /\ Now.of = "exit"
        /\ UNCHANGED <<sessionVars, input, beat, job, lead>>
        /\ pipe' = [pipe EXCEPT !.pc = "join"] /\ report' = [report EXCEPT !.stop = TRUE]
    BY DEF ExitReporter, Does, PipeInv
  <1>2. /\ pipe' \in Pipes /\ pipe'.pc = "join" /\ pipe'.rest = pipe.rest
        /\ pipe'.error = pipe.error /\ pipe'.raw = pipe.raw /\ pipe'.vectors = pipe.vectors
        /\ pipe'.undecoded = pipe.undecoded /\ pipe'.pending = pipe.pending
        /\ pipe'.ticks = pipe.ticks
    BY <1>1 DEF PipeTypeOK, Pipes
  <1>3. /\ report' \in [lock : {"free", "pipe", "beat"}, current : Progress,
                        error : CallErrors, stop : BOOLEAN]
        /\ report'.current = report.current /\ report'.lock = report.lock
        /\ report'.error = report.error
    BY <1>1 DEF PipeTypeOK
  <1>4. UNCHANGED <<talk, tripRegion>>
    BY <1>1 DEF sessionVars
  <1>5. PipeTypeOK'
    BY <1>1, <1>2, <1>3, <1>4 DEF PipeTypeOK
  <1>6. Left = {Exit} /\ Now = Exit
    <2>1. pipe.rest # <<>> /\ pipe.rest \in Seq(Instrs)
      BY <1>1, RunsOn, RestFacts DEF PipeInv, EndInv, Running
    <2>2. Left = {Now} \cup Range(Tail(pipe.rest)) /\ Now \in Instrs
      BY <1>1, <2>1, RestFacts
    <2>3. \A y \in Range(Tail(pipe.rest)) : Leads(Now, y, pipe.ticks)
      BY <2>1, OrderTail DEF PipeInv, OrderInv, Now
    <2>4. Now = Exit
      BY <1>1, <2>2, OnlyEnds
    <2>5. Range(Tail(pipe.rest)) = {}
      BY <2>3, <2>4 DEF Leads
    <2> QED
      BY <2>2, <2>4, <2>5
  <1>7. Left' = Left /\ Now' = Now /\ (Going' <=> Going)
    BY <1>2 DEF Left, Now, Going
  <1>8. pipe.pending = {}
    BY <1>1, <1>6 DEF PipeInv, EndInv, TasksAreWaitedFor
  <1>9. EndInv'
    <2>1. RestFits'
      BY <1>2, <1>6, <1>7 DEF PipeInv, EndInv, RestFits, Running
    <2>2. LeftUnentered'
      BY <1>6, <1>7, SimpleInstrs DEF LeftUnentered
    <2>3. TasksAreWaitedFor'
      <3>1. TasksStop'
        BY <1>2, <1>4, <1>7, TasksKept DEF PipeInv, EndInv, TasksAreWaitedFor
      <3> QED
        BY <1>2, <1>8, <3>1 DEF TasksAreWaitedFor
    <2>4. ThreadsEnd'
      BY <1>1, <1>2 DEF PipeInv, EndInv, ThreadsEnd
    <2> QED
      BY <2>1, <2>2, <2>3, <2>4 DEF EndInv
  <1>10. OrderInv'
    BY <1>1, <1>2, <1>3, <1>7 DEF PipeInv, OrderInv, ProgressFollows
  <1>11. LastIsShown' /\ pipe'.error # "bug"
    BY <1>1, <1>2, <1>7 DEF PipeInv, DataInv, LastIsShown, OnlyOutsideFailures
  <1>12. DataInv'
    BY <1>1, <1>2, <1>7, <1>11, DataKept DEF PipeInv
  <1>13. ErrorsCount'
    BY <1>1, <1>2, <1>3 DEF PipeInv, ErrorsCount
  <1>14. Forward
    BY <1>1, ProgressType, BeforeSame DEF Forward, Before
  <1> QED
    BY <1>5, <1>9, <1>10, <1>12, <1>13, <1>14 DEF PipeInv

\* The thread is closed with nothing left to do.
LEMMA Closing ==
    ASSUME PipeInv, pipe.pc \in {"run", "join"}, Left = {Exit} \/ Left = {Leave},
           NEW error \in Errs \ {"bug"},
           pipe' = [pipe EXCEPT !.pc = "closed", !.rest = <<>>, !.error = error],
           beat.pc \in {"off", "ended"},
           error = "none" => pipe.error = "none" /\ beat.pc = "ended" /\ report.error = "none",
           UNCHANGED <<sessionVars, input, beat, report, job, lead>>
    PROVE  PipeInv' /\ Forward
  <1>1. PipeTypeOK
    BY DEF PipeInv
  <1>2. /\ pipe' \in Pipes /\ pipe'.pc = "closed" /\ pipe'.rest = <<>> /\ pipe'.error = error
        /\ pipe'.raw = pipe.raw /\ pipe'.vectors = pipe.vectors
        /\ pipe'.undecoded = pipe.undecoded /\ pipe'.pending = pipe.pending
        /\ pipe'.ticks = pipe.ticks
    <2> DEFINE none == <<>>
    <2>1. none \in Seq(Instrs)
      BY EmptySeq
    <2>2. error \in Errs
      OBVIOUS
    <2>3. pipe' = [pipe EXCEPT !.pc = "closed", !.rest = none, !.error = error]
      OBVIOUS
    <2> HIDE DEF none
    <2>4. /\ pipe' \in Pipes /\ pipe'.pc = "closed" /\ pipe'.rest = none /\ pipe'.error = error
          /\ pipe'.raw = pipe.raw /\ pipe'.vectors = pipe.vectors
          /\ pipe'.undecoded = pipe.undecoded /\ pipe'.pending = pipe.pending
          /\ pipe'.ticks = pipe.ticks
      BY <1>1, <2>1, <2>2, <2>3 DEF PipeTypeOK, Pipes
    <2> QED
      BY <2>4 DEF none
  <1>3. UNCHANGED <<talk, tripRegion>>
    BY DEF sessionVars
  <1>4. PipeTypeOK'
    BY <1>1, <1>2, <1>3 DEF PipeTypeOK
  <1>5. Left' = {}
    BY <1>2 DEF Left, Range
  <1>6. \A x \in Left : x.do = "work" /\ x.of \in {"exit", "leave"}
    BY SimpleInstrs
  <1>7. pipe.pending = {}
    BY <1>6 DEF PipeInv, EndInv, TasksAreWaitedFor
  <1>8. Going' => Going
    BY <1>2, <1>6 DEF Going
  <1>9. EndInv'
    <2>1. RestFits'
      BY <1>2, <1>5 DEF RestFits, Running
    <2>2. LeftUnentered'
      BY <1>5 DEF LeftUnentered
    <2>3. TasksAreWaitedFor'
      <3>1. TasksStop'
        BY <1>2, <1>3, <1>8, TasksKept DEF PipeInv, EndInv, TasksAreWaitedFor
      <3> QED
        BY <1>2, <1>7, <3>1 DEF TasksAreWaitedFor
    <2>4. ThreadsEnd'
      BY <1>2 DEF PipeInv, EndInv, ThreadsEnd
    <2> QED
      BY <2>1, <2>2, <2>3, <2>4 DEF EndInv
  <1>10. InOrder(pipe.rest, pipe.ticks)'
    BY <1>2 DEF InOrder
  <1>11. OrderInv'
    BY <1>2, <1>5, <1>10 DEF PipeInv, OrderInv, ProgressFollows
  <1>12. LastIsShown' /\ pipe'.error # "bug"
    <2>1. Report(7, N) \notin Left
      <3>1. Report(7, N).do = "report"
        BY DEF Report, Instr
      <3> QED
        BY <1>6, <3>1
    <2> QED
      BY <1>2, <1>8, <2>1 DEF PipeInv, DataInv, LastIsShown
  <1>13. DataInv'
    <2>1. \A what \in {"load", "decoded", "fetch", "upsert"} :
              \A x : IsWork(x, what) => (x \in Left' <=> x \in Left)
      BY <1>5, <1>6 DEF IsWork
    <2> QED
      BY <1>2, <1>5, <1>8, <1>12, <2>1, DataKept DEF PipeInv
  <1>14. ErrorsCount'
    BY <1>2 DEF PipeInv, ErrorsCount
  <1>15. Forward
    BY <1>1, ProgressType, BeforeSame DEF Forward, Before
  <1> QED
    BY <1>4, <1>9, <1>11, <1>13, <1>14, <1>15 DEF PipeInv

\* The thread joins its heartbeat and takes over its error.
LEMMA JoinHeartbeatInv ==
    ASSUME PipeInv, JoinHeartbeat
    PROVE  PipeInv' /\ Forward
  <1>1. /\ PipeTypeOK /\ pipe.pc = "join" /\ beat.pc = "ended"
        /\ UNCHANGED <<sessionVars, input, beat, report, job, lead>>
    BY DEF JoinHeartbeat, PipeInv
  <1> DEFINE error == IF pipe.error = "none" THEN report.error ELSE pipe.error
  <1>2. pipe' = [pipe EXCEPT !.pc = "closed", !.rest = <<>>, !.error = error]
    BY <1>1 DEF JoinHeartbeat, PipeTypeOK, Pipes
  <1>3. error \in Errs \ {"bug"}
    <2>1. pipe.error \in Errs /\ pipe.error # "bug" /\ report.error \in CallErrors
      BY <1>1 DEF PipeInv, DataInv, OnlyOutsideFailures, PipeTypeOK, Pipes
    <2> QED
      BY <2>1 DEF Errs, CallErrors
  <1>4. Left = {Exit}
    BY <1>1 DEF PipeInv, EndInv, RestFits
  <1>5. error = "none" => pipe.error = "none" /\ report.error = "none"
    OBVIOUS
  <1>6. PICK e \in Errs \ {"bug"} : e = error
    BY <1>3
  <1> HIDE DEF error
  <1> QED
    BY <1>1, <1>2, <1>4, <1>5, <1>6, Closing

\* The thread ends before the reporter is entered.
LEMMA LeaveEarlyInv ==
    ASSUME PipeInv, LeaveEarly
    PROVE  PipeInv' /\ Forward
  <1>1. /\ PipeTypeOK /\ pipe.pc = "run" /\ Now.do = "work" /\ Now.of = "leave"
        /\ UNCHANGED <<sessionVars, input, beat, report, job, lead>>
    BY DEF LeaveEarly, Does, PipeInv
  <1>2. Now \in Left /\ Now = Leave
    <2>1. Now \in Instrs /\ Now \in Left
      BY <1>1, RunsOn, RestFacts DEF PipeInv, EndInv, Running
    <2> QED
      BY <1>1, <2>1, OnlyEnds
  <1>3. pipe.rest = <<Leave>> /\ beat.pc = "off" /\ pipe.error # "none"
    BY <1>2 DEF PipeInv, EndInv, LeftUnentered
  <1>4. Left = {Leave}
    BY <1>3, OneLeft DEF Left
  <1>5. PICK e \in Errs \ {"bug"} : e = pipe.error
    BY <1>1 DEF PipeInv, DataInv, OnlyOutsideFailures, PipeTypeOK, Pipes
  <1>6. pipe' = [pipe EXCEPT !.pc = "closed", !.rest = <<>>, !.error = e]
    BY <1>1, <1>5 DEF LeaveEarly, PipeTypeOK, Pipes
  <1> QED
    BY <1>1, <1>3, <1>4, <1>5, <1>6, Closing

\* Steps that leave the thread alone.
LEMMA ThreadAlone ==
    ASSUME PipeInv, UNCHANGED <<pipe, input>>, PipeTypeOK', Before(job.shown, job'.shown)
    PROVE  /\ DataInv' /\ Forward /\ InOrder(pipe.rest, pipe.ticks)' /\ RestFits'
           /\ Left' = Left /\ Now' = Now
  <1>1. Left' = Left /\ Now' = Now /\ (Going' <=> Going)
    BY DEF Left, Now, Going
  <1>2. LastIsShown'
    BY <1>1, LastStillShown, ProgressType DEF PipeTypeOK
  <1>3. pipe'.error # "bug"
    BY DEF PipeInv, DataInv, OnlyOutsideFailures
  <1>4. DataInv'
    BY <1>1, <1>2, <1>3, DataKept DEF PipeInv
  <1>5. Forward
    BY DEF Forward, Before
  <1>6. InOrder(pipe.rest, pipe.ticks)'
    BY DEF PipeInv, OrderInv
  <1>7. RestFits'
    BY <1>1 DEF PipeInv, EndInv, RestFits
  <1> QED
    BY <1>1, <1>4, <1>5, <1>6, <1>7

\* Steps of the heartbeat: the thread is at work, and has no report under way
\* if the heartbeat has or takes the lock.
LEMMA Beating ==
    ASSUME PipeInv, UNCHANGED <<sessionVars, input, pipe, lead>>, PipeTypeOK',
           beat.pc \in {"wait", "call"}, beat'.pc \in {"wait", "call", "ended"},
           report'.current = report.current,
           Before(job.shown, job'.shown), Before(job'.shown, report.current),
           beat'.pc = "call" => report'.lock = "beat" /\ beat'.sends = report.current,
           \/ report'.lock = report.lock
           \/ report.lock \in {"free", "beat"}
    PROVE  PipeInv' /\ Forward
  <1>1. pipe.pc \notin {"off", "closed"} /\ Leave \notin Left
    BY DEF PipeInv, EndInv, ThreadsEnd, LeftUnentered
  <1>2. UNCHANGED <<talk, tripRegion>>
    BY DEF sessionVars
  <1>3. /\ DataInv' /\ Forward /\ InOrder(pipe.rest, pipe.ticks)' /\ RestFits'
        /\ Left' = Left /\ Now' = Now
    BY ThreadAlone
  <1>4. EndInv'
    <2>1. LeftUnentered'
      BY <1>1, <1>3 DEF LeftUnentered
    <2>2. TasksAreWaitedFor'
      <3>1. TasksStop'
        BY <1>2, <1>3, TasksKept DEF PipeInv, EndInv, TasksAreWaitedFor, Going
      <3> QED
        BY <1>3, <3>1 DEF PipeInv, EndInv, TasksAreWaitedFor
    <2>3. ThreadsEnd'
      BY <1>1 DEF PipeInv, EndInv, ThreadsEnd
    <2> QED
      BY <1>3, <2>1, <2>2, <2>3 DEF EndInv
  <1>5. OrderInv'
    <2>1. pipe.pc = "call" /\ Now.do = "report"
          => report'.lock = "pipe" /\ report.current = Shows(Now)
      BY DEF PipeInv, OrderInv, ProgressFollows
    <2>2. ProgressFollows'
      BY <1>3, <2>1 DEF PipeInv, OrderInv, ProgressFollows
    <2> QED
      BY <1>3, <2>2 DEF OrderInv
  <1>6. ErrorsCount'
    BY <1>1 DEF PipeInv, ErrorsCount
  <1> QED
    BY <1>3, <1>4, <1>5, <1>6 DEF PipeInv

\* A heartbeat that ends keeps the types and the progress.
LEMMA BeatEndsType ==
    ASSUME PipeTypeOK, NEW error \in CallErrors, BeatEnds(error)
    PROVE  /\ beat' \in [pc : {"off", "wait", "call", "ended"}, sends : Progress]
           /\ beat'.pc = "ended"
           /\ report' \in [lock : {"free", "pipe", "beat"}, current : Progress,
                           error : CallErrors, stop : BOOLEAN]
           /\ report'.current = report.current
  <1>1. NoProgress \in Progress
    BY NType DEF NoProgress, Progress
  <1>2. beat' = [pc |-> "ended", sends |-> NoProgress]
    BY DEF BeatEnds
  <1>3. /\ beat' \in [pc : {"off", "wait", "call", "ended"}, sends : Progress]
        /\ beat'.pc = "ended"
    BY <1>1, <1>2
  <1>4. /\ report' \in [lock : {"free", "pipe", "beat"}, current : Progress,
                        error : CallErrors, stop : BOOLEAN]
        /\ report'.current = report.current
    BY DEF BeatEnds, PipeTypeOK
  <1> QED
    BY <1>3, <1>4

\* The heartbeat wakes, takes the lock and repeats the progress.
LEMMA HeartbeatWakesInv ==
    ASSUME PipeInv, HeartbeatWakes
    PROVE  PipeInv' /\ Forward
  <1>1. /\ PipeTypeOK /\ beat.pc = "wait" /\ report.lock = "free"
        /\ UNCHANGED <<sessionVars, input, pipe, job, lead>>
        /\ UNCHANGED <<talk, tripRegion>>
    BY DEF HeartbeatWakes, PipeInv, sessionVars
  <1>2. /\ Before(job.shown, job.shown) /\ Before(job.shown, report.current)
        /\ report.current \in Progress
    BY <1>1, ProgressType, BeforeSame DEF PipeInv, OrderInv, ProgressFollows
  <1>3. CASE BeatEnds("canceled")
    <2>1. "canceled" \in CallErrors
      BY DEF CallErrors
    <2>2. PipeTypeOK' /\ beat'.pc = "ended" /\ report'.current = report.current
      BY <1>1, <1>3, <2>1, BeatEndsType DEF PipeTypeOK
    <2> QED
      BY <1>1, <1>2, <2>2, Beating
  <1>4. CASE /\ beat' = [pc |-> "call", sends |-> report.current]
             /\ report' = [report EXCEPT !.lock = "beat"]
    <2>1. /\ beat' \in [pc : {"off", "wait", "call", "ended"}, sends : Progress]
          /\ beat'.pc = "call" /\ beat'.sends = report.current
      BY <1>2, <1>4
    <2>2. /\ report' \in [lock : {"free", "pipe", "beat"}, current : Progress,
                          error : CallErrors, stop : BOOLEAN]
          /\ report'.current = report.current /\ report'.lock = "beat"
      BY <1>1, <1>4 DEF PipeTypeOK
    <2>3. PipeTypeOK'
      BY <1>1, <2>1, <2>2 DEF PipeTypeOK
    <2> QED
      BY <1>1, <1>2, <2>1, <2>2, <2>3, Beating
  <1> QED
    BY <1>3, <1>4 DEF HeartbeatWakes

\* The store answers the heartbeat.
LEMMA HeartbeatAnsweredInv ==
    ASSUME PipeInv, HeartbeatAnswered
    PROVE  PipeInv' /\ Forward
  <1>1. /\ PipeTypeOK /\ beat.pc = "call" /\ UNCHANGED <<sessionVars, input, pipe, lead>>
        /\ UNCHANGED <<talk, tripRegion>>
    BY DEF HeartbeatAnswered, PipeInv, sessionVars
  <1>2. /\ Before(job.shown, job.shown) /\ Before(job.shown, report.current)
        /\ report.current \in Progress /\ Before(report.current, report.current)
        /\ report.lock = "beat" /\ beat.sends = report.current
    BY <1>1, ProgressType, BeforeSame DEF PipeInv, OrderInv, ProgressFollows
  <1>3. CASE BeatEnds("canceled") /\ UNCHANGED job
    <2>1. "canceled" \in CallErrors
      BY DEF CallErrors
    <2>2. PipeTypeOK' /\ beat'.pc = "ended" /\ report'.current = report.current
      BY <1>1, <1>3, <2>1, BeatEndsType DEF PipeTypeOK
    <2> QED
      BY <1>1, <1>2, <1>3, <2>2, Beating
  <1>4. CASE /\ beat' = [pc |-> "wait", sends |-> NoProgress]
             /\ report' = [report EXCEPT !.lock = "free"]
             /\ job' = [job EXCEPT !.shown = beat.sends]
    <2>1. NoProgress \in Progress
      BY NType DEF NoProgress, Progress
    <2>2. /\ beat' \in [pc : {"off", "wait", "call", "ended"}, sends : Progress]
          /\ beat'.pc = "wait"
      BY <1>4, <2>1
    <2>3. /\ report' \in [lock : {"free", "pipe", "beat"}, current : Progress,
                          error : CallErrors, stop : BOOLEAN]
          /\ report'.current = report.current
      BY <1>1, <1>4 DEF PipeTypeOK
    <2>4. /\ job' \in [shown : Progress, cancelRequested : BOOLEAN, owned : BOOLEAN]
          /\ job'.shown = report.current
      BY <1>1, <1>2, <1>4 DEF PipeTypeOK
    <2>5. PipeTypeOK'
      BY <1>1, <2>2, <2>3, <2>4 DEF PipeTypeOK
    <2>6. Before(job.shown, job'.shown) /\ Before(job'.shown, report.current)
      BY <1>2, <2>4
    <2> QED
      BY <1>1, <1>2, <2>2, <2>3, <2>5, <2>6, Beating
  <1> QED
    BY <1>3, <1>4 DEF HeartbeatAnswered

\* The call of the heartbeat fails.
LEMMA HeartbeatFailsInv ==
    ASSUME PipeInv, HeartbeatFails
    PROVE  PipeInv' /\ Forward
  <1>1. /\ PipeTypeOK /\ beat.pc = "call" /\ UNCHANGED <<sessionVars, input, pipe, lead>>
        /\ UNCHANGED <<talk, tripRegion>>
    BY DEF HeartbeatFails, PipeInv, sessionVars
  <1>2. /\ Before(job.shown, job.shown) /\ Before(job.shown, report.current)
        /\ report.current \in Progress /\ Before(report.current, report.current)
        /\ report.lock = "beat" /\ beat.sends = report.current
    BY <1>1, ProgressType, BeforeSame DEF PipeInv, OrderInv, ProgressFollows
  <1>3. PICK error \in CallErrors : BeatEnds(error)
    BY DEF HeartbeatFails, CallErrors
  <1>4. /\ beat' \in [pc : {"off", "wait", "call", "ended"}, sends : Progress]
        /\ beat'.pc = "ended"
        /\ report' \in [lock : {"free", "pipe", "beat"}, current : Progress,
                        error : CallErrors, stop : BOOLEAN]
        /\ report'.current = report.current
    BY <1>1, <1>3, BeatEndsType
  <1>5. /\ job' \in [shown : Progress, cancelRequested : BOOLEAN, owned : BOOLEAN]
        /\ job'.shown = job.shown \/ job'.shown = report.current
    <2>1. <<beat.sends[1], beat.sends[2]>> = beat.sends
      BY <1>2 DEF Progress
    <2>2. job' = job \/ job' = [job EXCEPT !.shown = beat.sends]
      BY <2>1 DEF HeartbeatFails, Written
    <2> QED
      BY <1>1, <1>2, <2>2 DEF PipeTypeOK
  <1>6. PipeTypeOK'
    BY <1>1, <1>4, <1>5 DEF PipeTypeOK
  <1>7. Before(job.shown, job'.shown) /\ Before(job'.shown, report.current)
    BY <1>2, <1>5
  <1> QED
    BY <1>1, <1>2, <1>4, <1>6, <1>7, Beating

\* The heartbeat sees that it is asked to stop.
LEMMA HeartbeatStopsInv ==
    ASSUME PipeInv, HeartbeatStops
    PROVE  PipeInv' /\ Forward
  <1>1. /\ PipeTypeOK /\ beat.pc = "wait"
        /\ UNCHANGED <<sessionVars, input, pipe, report, job, lead>>
        /\ UNCHANGED <<talk, tripRegion>>
    BY DEF HeartbeatStops, PipeInv, sessionVars
  <1>2. Before(job.shown, job.shown) /\ Before(job.shown, report.current)
    BY <1>1, ProgressType, BeforeSame DEF PipeInv, OrderInv, ProgressFollows
  <1>3. /\ beat' \in [pc : {"off", "wait", "call", "ended"}, sends : Progress]
        /\ beat'.pc = "ended"
    BY <1>1 DEF HeartbeatStops, PipeTypeOK
  <1>4. PipeTypeOK'
    BY <1>1, <1>3 DEF PipeTypeOK
  <1> QED
    BY <1>1, <1>2, <1>3, <1>4, Beating

-----------------------------------------------------------------------------
(* The handler, the store and the tasks.                                   *)

\* Steps of the handler and of its surroundings.
LEMMA LeadOnly ==
    ASSUME PipeInv, UNCHANGED <<sessionVars, input, pipe, beat, report>>,
           job'.shown = job.shown, PipeTypeOK', ThreadsEnd',
           lead'.result = "COMPLETED" => pipe.pc = "closed" /\ pipe.error = "none"
    PROVE  PipeInv' /\ Forward
  <1>1. Before(job.shown, job'.shown)
    BY ProgressType, BeforeSame DEF PipeInv
  <1>2. UNCHANGED <<talk, tripRegion>>
    BY DEF sessionVars
  <1>3. /\ DataInv' /\ Forward /\ InOrder(pipe.rest, pipe.ticks)' /\ RestFits'
        /\ Left' = Left /\ Now' = Now
    BY <1>1, ThreadAlone
  <1>4. EndInv'
    <2>1. TasksStop'
      BY <1>2, <1>3, TasksKept DEF PipeInv, EndInv, TasksAreWaitedFor, Going
    <2> QED
      BY <1>3, <2>1 DEF PipeInv, EndInv, LeftUnentered, TasksAreWaitedFor
  <1>5. OrderInv'
    BY <1>3 DEF PipeInv, OrderInv, ProgressFollows
  <1>6. ErrorsCount'
    BY DEF PipeInv, ErrorsCount
  <1> QED
    BY <1>3, <1>4, <1>5, <1>6 DEF PipeInv

\* The handler checks, waits for the thread, is canceled, or ends, and its
\* child exits.
LEMMA LeadStepInv ==
    ASSUME PipeInv, RequestInvalid \/ HandlerChecks \/ HandlerCheckFails \/ AgentUnconfigured
                    \/ LeadEnds \/ GuardCancels \/ ChildExits
    PROVE  PipeInv' /\ Forward
  <1>1. /\ PipeTypeOK /\ lead \in LeadStates
        /\ UNCHANGED <<sessionVars, input, pipe, beat, report, job>>
        /\ UNCHANGED <<talk, tripRegion>>
    BY DEF RequestInvalid, HandlerChecks, HandlerCheckFails, AgentUnconfigured, LeadEnds,
           GuardCancels, ChildExits, PipeInv, sessionVars, PipeTypeOK, LeadStates
  <1>2. \A result \in {"CANCELED", "MODEL_NOT_READY", "INTERNAL_ERROR", "INVALID_REQUEST",
                       "ABORTED", "COMPLETED", "DECODE_FAILED", "DOWNLOAD_FAILED", "TIMEOUT"} :
            /\ EndedWith(result) \in LeadStates /\ EndedWith(result).pc = "ended"
            /\ EndedWith(result).result = result
    BY <1>1 DEF EndedWith, LeadStates
  <1>3. ASSUME NEW result \in {"CANCELED", "MODEL_NOT_READY", "INTERNAL_ERROR",
                               "INVALID_REQUEST", "ABORTED", "COMPLETED", "DECODE_FAILED",
                               "DOWNLOAD_FAILED", "TIMEOUT"},
               lead' = EndedWith(result), pipe.pc \in {"off", "closed"},
               result = "COMPLETED" => pipe.pc = "closed" /\ pipe.error = "none"
        PROVE  PipeInv' /\ Forward
    <2>1. lead' \in LeadStates /\ lead'.pc = "ended" /\ lead'.result = result
      BY <1>2, <1>3
    <2>2. PipeTypeOK'
      BY <1>1, <2>1 DEF PipeTypeOK, LeadStates
    <2>3. ThreadsEnd'
      BY <1>1, <1>3, <2>1 DEF PipeInv, EndInv, ThreadsEnd
    <2> QED
      BY <1>1, <1>3, <2>1, <2>2, <2>3, LeadOnly
  <1>4. ASSUME lead' = [lead EXCEPT !.pc = "open"], lead.pc = "check"
        PROVE  PipeInv' /\ Forward
    <2>1. lead' \in LeadStates /\ lead'.pc = "open" /\ lead'.result = lead.result
      BY <1>1, <1>4 DEF LeadStates
    <2>2. PipeTypeOK'
      BY <1>1, <2>1 DEF PipeTypeOK, LeadStates
    <2>3. ThreadsEnd'
      BY <1>1, <1>4, <2>1 DEF PipeInv, EndInv, ThreadsEnd
    <2>4. lead'.result = "COMPLETED" => pipe.pc = "closed" /\ pipe.error = "none"
      BY <2>1 DEF PipeInv, ErrorsCount
    <2> QED
      BY <1>1, <2>2, <2>3, <2>4, LeadOnly
  <1>5. ASSUME lead' = [lead EXCEPT !.pc = "drain", !.stopped = TRUE], lead.pc = "await"
        PROVE  PipeInv' /\ Forward
    <2>1. lead' \in LeadStates /\ lead'.pc = "drain" /\ lead'.result = lead.result
      BY <1>1, <1>5 DEF LeadStates
    <2>2. PipeTypeOK'
      BY <1>1, <2>1 DEF PipeTypeOK, LeadStates
    <2>3. ThreadsEnd'
      BY <1>1, <2>1 DEF PipeInv, EndInv, ThreadsEnd
    <2>4. lead'.result = "COMPLETED" => pipe.pc = "closed" /\ pipe.error = "none"
      BY <2>1 DEF PipeInv, ErrorsCount
    <2> QED
      BY <1>1, <2>2, <2>3, <2>4, LeadOnly
  <1>6. lead.pc \in {"check", "open"} => pipe.pc = "off"
    BY DEF PipeInv, EndInv, ThreadsEnd
  <1>7. CASE RequestInvalid
    BY <1>3, <1>6, <1>7 DEF RequestInvalid
  <1>8. CASE HandlerChecks
    BY <1>3, <1>4, <1>6, <1>8 DEF HandlerChecks
  <1>9. CASE HandlerCheckFails
    BY <1>3, <1>6, <1>9 DEF HandlerCheckFails
  <1>10. CASE AgentUnconfigured
    BY <1>3, <1>6, <1>10 DEF AgentUnconfigured
  <1>11. CASE LeadEnds
    <2>1. /\ pipe.pc = "closed"
          /\ lead' = EndedWith(IF lead.pc = "drain" THEN "ABORTED" ELSE ResultOf(pipe.error))
      BY <1>11 DEF LeadEnds
    <2>2. /\ ResultOf(pipe.error) \in {"COMPLETED", "CANCELED", "DECODE_FAILED",
                 "DOWNLOAD_FAILED", "TIMEOUT", "MODEL_NOT_READY", "INTERNAL_ERROR"}
          /\ ResultOf(pipe.error) = "COMPLETED" => pipe.error = "none"
      BY DEF ResultOf
    <2>3. PICK result \in {"ABORTED", "COMPLETED", "CANCELED", "DECODE_FAILED",
                 "DOWNLOAD_FAILED", "TIMEOUT", "MODEL_NOT_READY", "INTERNAL_ERROR"} :
              result = IF lead.pc = "drain" THEN "ABORTED" ELSE ResultOf(pipe.error)
      BY <2>2
    <2>4. result = "COMPLETED" => pipe.error = "none"
      BY <2>2, <2>3
    <2> QED
      BY <1>3, <2>1, <2>3, <2>4
  <1>12. CASE GuardCancels
    BY <1>3, <1>5, <1>6, <1>12 DEF GuardCancels
  <1>13. CASE ChildExits
    <2>1. lead' = [lead EXCEPT !.pc = "gone"] /\ pipe.pc \in {"off", "closed"}
      BY <1>13 DEF ChildExits
    <2>2. lead' \in LeadStates /\ lead'.pc = "gone" /\ lead'.result = lead.result
      BY <1>1, <2>1 DEF LeadStates
    <2>3. PipeTypeOK'
      BY <1>1, <2>2 DEF PipeTypeOK, LeadStates
    <2>4. ThreadsEnd'
      BY <1>1, <2>1, <2>2 DEF PipeInv, EndInv, ThreadsEnd
    <2>5. lead'.result = "COMPLETED" => pipe.pc = "closed" /\ pipe.error = "none"
      BY <2>2 DEF PipeInv, ErrorsCount
    <2> QED
      BY <1>1, <2>3, <2>4, <2>5, LeadOnly
  <1> QED
    BY <1>7, <1>8, <1>9, <1>10, <1>11, <1>12, <1>13

\* Others cancel the job or take it over.
LEMMA JobDisturbedInv ==
    ASSUME PipeInv, JobDisturbed
    PROVE  PipeInv' /\ Forward
  <1>1. /\ PipeTypeOK /\ UNCHANGED <<sessionVars, input, pipe, beat, report, lead>>
        /\ UNCHANGED <<talk, tripRegion>>
    BY DEF JobDisturbed, PipeInv, sessionVars
  <1>2. /\ job' \in [shown : Progress, cancelRequested : BOOLEAN, owned : BOOLEAN]
        /\ job'.shown = job.shown
    BY <1>1 DEF JobDisturbed, PipeTypeOK
  <1>3. PipeTypeOK'
    BY <1>1, <1>2 DEF PipeTypeOK
  <1>4. ThreadsEnd' /\ (lead'.result = "COMPLETED" => pipe.pc = "closed" /\ pipe.error = "none")
    BY <1>1 DEF PipeInv, EndInv, ThreadsEnd, ErrorsCount
  <1> QED
    BY <1>1, <1>2, <1>3, <1>4, LeadOnly

\* The handler starts the thread of the pipeline.
LEMMA StartThreadInv ==
    ASSUME PipeInv, StartThread
    PROVE  PipeInv' /\ Forward
  <1>1. /\ PipeTypeOK /\ lead.pc = "open" /\ UNCHANGED <<input, beat, report, job>>
        /\ UNCHANGED <<talk, tripRegion>> /\ pipe.pc = "off" /\ beat.pc = "off"
    BY DEF StartThread, PipeInv, sessionVars, EndInv, ThreadsEnd
  <1>2. /\ pipe' \in Pipes /\ pipe'.pc = "run" /\ pipe'.rest = pipe.rest
        /\ pipe'.error = pipe.error /\ pipe'.raw = pipe.raw /\ pipe'.vectors = pipe.vectors
        /\ pipe'.undecoded = pipe.undecoded /\ pipe'.pending = pipe.pending
        /\ pipe'.ticks = pipe.ticks
    BY <1>1 DEF StartThread, PipeTypeOK, Pipes
  <1>3. lead' \in LeadStates /\ lead'.pc = "await" /\ lead'.result = lead.result
    BY <1>1 DEF StartThread, PipeTypeOK, LeadStates
  <1>4. PipeTypeOK'
    BY <1>1, <1>2, <1>3 DEF PipeTypeOK, LeadStates
  <1>5. Left' = Left /\ Now' = Now /\ (Going' <=> Going)
    BY <1>2 DEF Left, Now, Going
  <1>6. PICK i \in Inputs : i = input
    BY <1>1 DEF PipeTypeOK
  <1>7. Exit \in Left
    <2>1. pipe.rest = Program(i)
      BY <1>1, <1>6 DEF PipeInv, EndInv, RestFits
    <2> QED
      BY <2>1, ProgramSound DEF Left
  <1>8. EndInv'
    <2>1. RestFits'
      BY <1>1, <1>2, <1>5, <1>7 DEF PipeInv, EndInv, RestFits, Finishes
    <2>2. LeftUnentered'
      BY <1>1, <1>2, <1>5 DEF PipeInv, EndInv, LeftUnentered
    <2>3. TasksAreWaitedFor'
      <3>1. TasksStop'
        BY <1>1, <1>2, <1>5, TasksKept DEF PipeInv, EndInv, TasksAreWaitedFor
      <3> QED
        BY <1>1, <1>2, <1>5, <3>1 DEF PipeInv, EndInv, TasksAreWaitedFor, Running
    <2>4. ThreadsEnd'
      BY <1>1, <1>2, <1>3 DEF ThreadsEnd
    <2> QED
      BY <2>1, <2>2, <2>3, <2>4 DEF EndInv
  <1>9. OrderInv'
    BY <1>1, <1>2, <1>5 DEF PipeInv, OrderInv, ProgressFollows
  <1>10. LastIsShown' /\ pipe'.error # "bug"
    BY <1>1, <1>2, <1>5 DEF PipeInv, DataInv, LastIsShown, OnlyOutsideFailures
  <1>11. DataInv'
    BY <1>1, <1>2, <1>5, <1>10, DataKept DEF PipeInv
  <1>12. ErrorsCount'
    BY <1>1, <1>2, <1>3 DEF PipeInv, ErrorsCount
  <1>13. Forward
    BY <1>1, ProgressType, BeforeSame DEF Forward, Before
  <1> QED
    BY <1>4, <1>8, <1>9, <1>11, <1>12, <1>13 DEF PipeInv


\* What a step may make of a conversation that is not settled: it is asked to
\* stop by nothing but the thread, and a failure is final.
TalkGoes(t, u) ==
    /\ ~Settled(t)
    /\ TalkFits(u)
    /\ (u.canceled <=> t.canceled) \/ (u.at \in {"answered", "failed"} /\ ~u.canceled)
    /\ t.at = "failed" => u.at = "failed"

\* A conversation that is over has nothing of its own but its proposal.
LEMMA TalkEnds ==
    ASSUME NEW t
    PROVE  /\ \A at : TalkIs(Ends(at), at, FALSE, FALSE)
           /\ \A spot, confidence :
                  TalkIs(Proposed(t, spot, confidence), "answered", FALSE, FALSE)
           /\ \A x : TalkIs([Ends("failed") EXCEPT !.thread = x], "failed", x, FALSE)
           /\ \A at, x : TalkIs(Canceled(at, x), at, x, TRUE)
  <1>1. ASSUME NEW at PROVE TalkIs(Ends(at), at, FALSE, FALSE)
    <2>1. TalkIs(Silent, "off", FALSE, FALSE)
      BY DEF TalkIs, Silent
    <2> QED
      BY <2>1, OneField DEF Ends
  <1>2. ASSUME NEW spot, NEW confidence
        PROVE  TalkIs(Proposed(t, spot, confidence), "answered", FALSE, FALSE)
    <2>1. PICK u : u = [Ends("answered") EXCEPT !.found = t.found \cap {spot}]
      OBVIOUS
    <2>2. PICK v : v = [u EXCEPT !.spot = spot]
      OBVIOUS
    <2>3. TalkIs(u, "answered", FALSE, FALSE)
      BY <1>1, <2>1, OneField
    <2>4. TalkIs(v, "answered", FALSE, FALSE)
      BY <2>2, <2>3, OneField
    <2>5. TalkIs([v EXCEPT !.confidence = confidence], "answered", FALSE, FALSE)
      BY <2>4, OneField
    <2> QED
      BY <2>1, <2>2, <2>5 DEF Proposed
  <1>3. ASSUME NEW x PROVE TalkIs([Ends("failed") EXCEPT !.thread = x], "failed", x, FALSE)
    BY <1>1, OneField
  <1>4. ASSUME NEW at, NEW x PROVE TalkIs(Canceled(at, x), at, x, TRUE)
    <2>1. PICK u : u = [Ends(at) EXCEPT !.canceled = TRUE]
      OBVIOUS
    <2>2. TalkIs(u, at, FALSE, TRUE)
      BY <1>1, <2>1, OneField
    <2>3. TalkIs([u EXCEPT !.thread = x], at, x, TRUE)
      BY <2>2, OneField
    <2> QED
      BY <2>1, <2>3 DEF Canceled
  <1> QED
    BY <1>1, <1>2, <1>3, <1>4

\* Where a step may lead a conversation that is not over.
LEMMA TalkLeads ==
    ASSUME NEW t, ~Settled(t), t.at # "failed",
           NEW u, NEW at, NEW thread, NEW canceled, TalkIs(u, at, thread, canceled),
           \/ at = "failed" /\ ~canceled
           \/ at = "answered" /\ ~thread /\ ~canceled
           \/ at \in {"queue", "chat", "tools", "search", "kakao", "region"}
              /\ canceled = t.canceled
           \/ at \in {"releasing", "stopped"} /\ canceled /\ t.canceled
    PROVE  TalkGoes(t, u)
  BY DEF TalkGoes, TalkFits, TalkIs

\* The next round, and the next tool, of a conversation.
LEMMA TalkTurns ==
    ASSUME NEW t, ~Settled(t), t.at # "failed",
           NEW u, NEW at, NEW thread, TalkIs(u, at, thread, t.canceled)
    PROVE  TalkGoes(t, NextTurn(u)) /\ TalkGoes(t, Done(u))
  <1>1. TalkGoes(t, Proposed(u, None, "low"))
    BY TalkEnds, TalkLeads
  <1>2. TalkGoes(t, [u EXCEPT !.at = "queue", !.turn = u.turn + 1, !.calls = <<>>])
    <2>1. PICK v : v = [u EXCEPT !.at = "queue"]
      OBVIOUS
    <2>2. PICK w : w = [v EXCEPT !.turn = u.turn + 1]
      OBVIOUS
    <2>3. TalkIs(v, "queue", thread, t.canceled)
      BY <2>1, OneField
    <2>4. TalkIs(w, "queue", thread, t.canceled)
      BY <2>2, <2>3, OneField
    <2>5. TalkIs([w EXCEPT !.calls = <<>>], "queue", thread, t.canceled)
      BY <2>4, OneField
    <2>6. TalkGoes(t, [w EXCEPT !.calls = <<>>])
      BY <2>5, TalkLeads
    <2> QED
      BY <2>1, <2>2, <2>6
  <1>3. TalkGoes(t, [u EXCEPT !.at = "tools", !.calls = Tail(u.calls)])
    <2>1. PICK v : v = [u EXCEPT !.at = "tools"]
      OBVIOUS
    <2>2. TalkIs(v, "tools", thread, t.canceled)
      BY <2>1, OneField
    <2>3. TalkIs([v EXCEPT !.calls = Tail(u.calls)], "tools", thread, t.canceled)
      BY <2>2, OneField
    <2>4. TalkGoes(t, [v EXCEPT !.calls = Tail(u.calls)])
      BY <2>3, TalkLeads
    <2> QED
      BY <2>1, <2>4
  <1>4. [u EXCEPT !.at = "queue", !.turn = @ + 1, !.calls = <<>>]
        = [u EXCEPT !.at = "queue", !.turn = u.turn + 1, !.calls = <<>>]
    BY DEF TalkIs
  <1>5. TalkGoes(t, NextTurn(u))
    BY <1>1, <1>2, <1>4 DEF NextTurn
  <1>6. [u EXCEPT !.at = "tools", !.calls = Tail(@)]
        = [u EXCEPT !.at = "tools", !.calls = Tail(u.calls)]
    BY DEF TalkIs
  <1> QED
    BY <1>3, <1>5, <1>6 DEF Done

\* What the steps before the end make of a conversation.
LEMMA TalkMoves ==
    ASSUME NEW t, TalkFits(t), ~Settled(t), t.at # "failed"
    PROVE  /\ TalkGoes(t, NextTurn(t)) /\ TalkGoes(t, Done(t))
           /\ \A x : TalkGoes(t, Done([t EXCEPT !.images = x]))
           /\ \A x : TalkGoes(t, Done([t EXCEPT !.found = x]))
           /\ \A x : TalkGoes(t, Done([t EXCEPT !.thread = FALSE, !.found = x]))
           /\ \A at \in {"chat", "kakao", "region"} : TalkGoes(t, [t EXCEPT !.at = at])
           /\ \A x : TalkGoes(t, [t EXCEPT !.at = "tools", !.calls = x])
           /\ TalkGoes(t, [t EXCEPT !.at = "search", !.thread = TRUE])
  <1>1. TalkIs(t, t.at, t.thread, t.canceled)
    BY DEF TalkFits
  <1>2. TalkGoes(t, NextTurn(t)) /\ TalkGoes(t, Done(t))
    BY <1>1, TalkTurns
  <1>3. ASSUME NEW x
        PROVE  TalkGoes(t, Done([t EXCEPT !.images = x])) /\ TalkGoes(t, Done([t EXCEPT !.found = x]))
    <2>1. /\ TalkIs([t EXCEPT !.images = x], t.at, t.thread, t.canceled)
          /\ TalkIs([t EXCEPT !.found = x], t.at, t.thread, t.canceled)
      BY <1>1, OneField
    <2> QED
      BY <2>1, TalkTurns
  <1>4. ASSUME NEW x PROVE TalkGoes(t, Done([t EXCEPT !.thread = FALSE, !.found = x]))
    <2>1. PICK u : u = [t EXCEPT !.thread = FALSE]
      OBVIOUS
    <2>2. TalkIs(u, t.at, FALSE, t.canceled)
      BY <1>1, <2>1, OneField
    <2>3. TalkIs([u EXCEPT !.found = x], t.at, FALSE, t.canceled)
      BY <2>2, OneField
    <2>4. TalkGoes(t, Done([u EXCEPT !.found = x]))
      BY <2>3, TalkTurns
    <2> QED
      BY <2>1, <2>4
  <1>5. ASSUME NEW at \in {"chat", "kakao", "region"} PROVE TalkGoes(t, [t EXCEPT !.at = at])
    <2>1. TalkIs([t EXCEPT !.at = at], at, t.thread, t.canceled)
      BY <1>1, OneField
    <2> QED
      BY <2>1, TalkLeads
  <1>6. ASSUME NEW x PROVE TalkGoes(t, [t EXCEPT !.at = "tools", !.calls = x])
    <2>1. PICK u : u = [t EXCEPT !.at = "tools"]
      OBVIOUS
    <2>2. TalkIs(u, "tools", t.thread, t.canceled)
      BY <1>1, <2>1, OneField
    <2>3. TalkIs([u EXCEPT !.calls = x], "tools", t.thread, t.canceled)
      BY <2>2, OneField
    <2>4. TalkGoes(t, [u EXCEPT !.calls = x])
      BY <2>3, TalkLeads
    <2> QED
      BY <2>1, <2>4
  <1>7. TalkGoes(t, [t EXCEPT !.at = "search", !.thread = TRUE])
    <2>1. PICK u : u = [t EXCEPT !.at = "search"]
      OBVIOUS
    <2>2. TalkIs(u, "search", t.thread, t.canceled)
      BY <1>1, <2>1, OneField
    <2>3. TalkIs([u EXCEPT !.thread = TRUE], "search", TRUE, t.canceled)
      BY <2>2, OneField
    <2>4. TalkGoes(t, [u EXCEPT !.thread = TRUE])
      BY <2>3, TalkLeads
    <2> QED
      BY <2>1, <2>4
  <1> QED
    BY <1>2, <1>3, <1>4, <1>5, <1>6, <1>7

\* What ends a conversation.
LEMMA TalkStops ==
    ASSUME NEW t, ~Settled(t), t.at # "failed"
    PROVE  /\ \A spot, confidence : TalkGoes(t, Proposed(t, spot, confidence))
           /\ TalkGoes(t, Ends("failed"))
           /\ \A x : TalkGoes(t, [Ends("failed") EXCEPT !.thread = x])
           /\ t.canceled => /\ TalkGoes(t, Canceled("releasing", FALSE))
                                   /\ \A x : TalkGoes(t, Canceled("stopped", x))
  <1>1. /\ \A spot, confidence : TalkGoes(t, Proposed(t, spot, confidence))
        /\ TalkGoes(t, Ends("failed"))
        /\ \A x : TalkGoes(t, [Ends("failed") EXCEPT !.thread = x])
    BY TalkEnds, TalkLeads
  <1>2. ASSUME t.canceled, NEW at \in {"releasing", "stopped"}, NEW x
        PROVE  TalkGoes(t, Canceled(at, x))
    <2>1. TalkIs(Canceled(at, x), at, x, TRUE)
      BY TalkEnds
    <2> QED
      BY <1>2, <2>1, TalkLeads
  <1> QED
    BY <1>1, <1>2

\* A step of a conversation changes nothing but that conversation and what
\* Kakao has answered.
LEMMA TalkStepIs ==
    ASSUME NEW c \in Talks, talk = [d \in Talks |-> talk[d]], TalkFits(talk[c]),
           NEW replies, TalkStep(c, replies)
    PROVE  /\ TalkGoes(talk[c], talk'[c]) /\ UNCHANGED tripRegion
           /\ talk' = [d \in Talks |-> talk'[d]]
           /\ \A d \in Talks \ {c} : talk'[d] = talk[d]
  <1> DEFINE t == talk[c]
             Goes(u) == talk' = [talk EXCEPT ![c] = u] /\ TalkGoes(t, u) /\ UNCHANGED tripRegion
  <1>1. ASSUME NEW u, Goes(u)
        PROVE  /\ TalkGoes(talk[c], talk'[c]) /\ UNCHANGED tripRegion
               /\ talk' = [d \in Talks |-> talk'[d]]
               /\ \A d \in Talks \ {c} : talk'[d] = talk[d]
    BY <1>1
  <1>2. ASSUME NEW u, TalkOnly(c, u)
        PROVE  talk' = [talk EXCEPT ![c] = u] /\ UNCHANGED tripRegion
    BY <1>2 DEF TalkOnly
  <1>3. CASE ThreadEnds(c)
    <2>1. TalkOnly(c, [t EXCEPT !.thread = FALSE]) /\ t.thread
      BY <1>3 DEF ThreadEnds
    <2>2. /\ t.at \in {"releasing", "stopped"} => t.canceled
          /\ ~Settled(t) /\ TalkIs(t, t.at, t.thread, t.canceled)
      BY <2>1 DEF TalkFits, Settled
    <2>3. TalkIs([t EXCEPT !.thread = FALSE], t.at, FALSE, t.canceled)
      BY <2>2, OneField
    <2>4. TalkGoes(t, [t EXCEPT !.thread = FALSE])
      BY <2>2, <2>3 DEF TalkGoes, TalkFits, TalkIs
    <2> QED
      BY <1>1, <1>2, <2>1, <2>4
  <1>4. ASSUME ~ThreadEnds(c) PROVE ~Settled(t) /\ t.at # "failed"
    <2>1. Enter(c) \/ Reply(c, replies) \/ ChatFails(c)
          => t.at \in {"queue", "chat"}
      BY DEF Enter, Reply, ChatFails
    <2>2. ReadPhotos(c) \/ StartSearch(c) \/ KakaoUnsent(c) \/ KakaoSent(c) \/ Decide(c)
          \/ RegionUnsent(c) \/ RegionSent(c)
          => t.at = "tools"
      BY DEF ReadPhotos, StartSearch, KakaoUnsent, KakaoSent, Decide, RegionUnsent, RegionSent,
             Waits, AsksRegion
    <2>3. SearchAnswers(c) \/ SimilarFails(c) \/ KakaoAnswers(c) \/ KakaoFails(c)
          \/ RegionAnswers(c)
          => t.at \in {"search", "kakao", "region"}
      BY DEF SearchAnswers, SimilarFails, KakaoAnswers, KakaoFails, RegionAnswers
    <2>4. SlotReleased(c) => t.at = "releasing"
      BY DEF SlotReleased
    <2>5. CancelArrives(c) => t.at \notin {"off", "answered", "failed"}
      BY DEF CancelArrives, Over, TalkFits
    <2> QED
      BY <1>4, <2>1, <2>2, <2>3, <2>4, <2>5 DEF TalkStep, Settled
  <1> DEFINE Moving == ~Settled(t) /\ t.at # "failed"
  <1>5. CASE Moving /\ (Enter(c) \/ ReadPhotos(c) \/ StartSearch(c) \/ KakaoUnsent(c)
                        \/ KakaoFails(c))
    <2>1. CASE Enter(c)
      BY <1>1, <1>2, <1>5, <2>1, TalkMoves DEF Enter
    <2>2. CASE ReadPhotos(c)
      <3>1. PICK x : TalkOnly(c, Done([t EXCEPT !.images = x]))
        <4>1. \A n : [t EXCEPT !.images = @ + n] = [t EXCEPT !.images = t.images + n]
          BY DEF TalkFits, TalkIs
        <4> QED
          BY <2>2, <4>1 DEF ReadPhotos
      <3>2. TalkGoes(t, Done([t EXCEPT !.images = x]))
        BY <1>5, TalkMoves
      <3> QED
        BY <1>1, <1>2, <3>1, <3>2
    <2>3. CASE StartSearch(c)
      BY <1>1, <1>2, <1>5, <2>3, TalkMoves DEF StartSearch
    <2>4. CASE KakaoUnsent(c)
      <3>1. PICK x : TalkOnly(c, Done([t EXCEPT !.found = x]))
        <4>1. \A n : [t EXCEPT !.found = @ \cup n] = [t EXCEPT !.found = t.found \cup n]
          BY DEF TalkFits, TalkIs
        <4> QED
          BY <2>4, <4>1 DEF KakaoUnsent
      <3>2. TalkGoes(t, Done([t EXCEPT !.found = x]))
        BY <1>5, TalkMoves
      <3> QED
        BY <1>1, <1>2, <3>1, <3>2
    <2>5. CASE KakaoFails(c)
      BY <1>1, <1>2, <1>5, <2>5, TalkMoves DEF KakaoFails
    <2> QED
      BY <1>5, <2>1, <2>2, <2>3, <2>4, <2>5
  <1>6. CASE Moving /\ (Reply(c, replies) \/ ChatFails(c) \/ SearchAnswers(c) \/ SimilarFails(c))
    <2>1. CASE Reply(c, replies)
      <3>1. PICK r : TalkOnly(c, IF r = <<>> THEN NextTurn(t)
                                 ELSE [t EXCEPT !.at = "tools", !.calls = r])
        BY <2>1 DEF Reply
      <3>2. TalkGoes(t, NextTurn(t)) /\ TalkGoes(t, [t EXCEPT !.at = "tools", !.calls = r])
        BY <1>6, TalkMoves
      <3> QED
        BY <1>1, <1>2, <3>1, <3>2
    <2>2. CASE ChatFails(c)
      <3>1. PICK x \in BOOLEAN : TalkOnly(c, [Ends("failed") EXCEPT !.thread = x])
        BY <2>2 DEF ChatFails
      <3> QED
        BY <1>1, <1>2, <1>6, <3>1, TalkStops
    <2>3. CASE SearchAnswers(c)
      <3>1. PICK x : TalkOnly(c, Done([t EXCEPT !.thread = FALSE, !.found = x]))
        <4>1. \A n : [t EXCEPT !.thread = FALSE, !.found = @ \cup n]
                     = [t EXCEPT !.thread = FALSE, !.found = t.found \cup n]
          BY DEF TalkFits, TalkIs
        <4> QED
          BY <2>3, <4>1 DEF SearchAnswers
      <3> QED
        BY <1>1, <1>2, <1>6, <3>1, TalkMoves
    <2>4. CASE SimilarFails(c)
      BY <1>1, <1>2, <1>6, <2>4, TalkStops DEF SimilarFails
    <2> QED
      BY <1>6, <2>1, <2>2, <2>3, <2>4
  <1>7. CASE Moving /\ (KakaoSent(c) \/ KakaoAnswers(c) \/ RegionUnsent(c) \/ RegionSent(c)
                        \/ RegionAnswers(c))
    <2>1. ASSUME NEW at \in {"kakao", "region"}, talk' = [talk EXCEPT ![c].at = at]
          PROVE  talk' = [talk EXCEPT ![c] = [t EXCEPT !.at = at]]
      BY <2>1
    <2>2. CASE KakaoSent(c)
      BY <1>1, <1>7, <2>1, <2>2, TalkMoves DEF KakaoSent
    <2>3. CASE RegionSent(c)
      BY <1>1, <1>7, <2>1, <2>3, TalkMoves DEF RegionSent
    <2>4. CASE KakaoAnswers(c)
      <3>1. PICK x : /\ talk' = [talk EXCEPT ![c] = Done([t EXCEPT !.found = x])]
                     /\ UNCHANGED tripRegion
        <4>1. \A n : [t EXCEPT !.found = @ \cup n] = [t EXCEPT !.found = t.found \cup n]
          BY DEF TalkFits, TalkIs
        <4> QED
          BY <2>4, <4>1 DEF KakaoAnswers
      <3>2. TalkGoes(t, Done([t EXCEPT !.found = x]))
        BY <1>7, TalkMoves
      <3> QED
        BY <1>1, <3>1, <3>2
    <2>5. CASE RegionUnsent(c) \/ RegionAnswers(c)
      <3>1. PICK spot, confidence :
                /\ talk' = [talk EXCEPT ![c] = Proposed(t, spot, confidence)]
                /\ UNCHANGED tripRegion
        BY <2>5 DEF RegionUnsent, RegionAnswers, Checked
      <3> QED
        BY <1>1, <1>7, <3>1, TalkStops
    <2> QED
      BY <1>7, <2>2, <2>3, <2>4, <2>5
  <1>8. CASE Moving /\ (Decide(c) \/ CancelArrives(c) \/ SlotReleased(c))
    <2>1. CASE Decide(c)
      <3>1. PICK spot, confidence : TalkOnly(c, Proposed(t, spot, confidence))
        BY <2>1 DEF Decide
      <3> QED
        BY <1>1, <1>2, <1>8, <3>1, TalkStops
    <2>2. CASE CancelArrives(c)
      <3>1. /\ t.canceled
            /\ \/ TalkOnly(c, Canceled("releasing", FALSE))
               \/ \E x : TalkOnly(c, Canceled("stopped", x))
        BY <2>2 DEF CancelArrives, LeftOf
      <3> QED
        BY <1>1, <1>2, <1>8, <3>1, TalkStops
    <2>3. CASE SlotReleased(c)
      <3>1. t.canceled /\ TalkOnly(c, Canceled("stopped", FALSE))
        BY <2>3 DEF SlotReleased, TalkFits
      <3> QED
        BY <1>1, <1>2, <1>8, <3>1, TalkStops
    <2> QED
      BY <1>8, <2>1, <2>2, <2>3
  <1> QED
    BY <1>3, <1>4, <1>5, <1>6, <1>7, <1>8 DEF TalkStep

\* The thread leaves its tasks alone while they go on as they may.
LEMMA TasksOnly ==
    ASSUME PipeInv, UNCHANGED pipeVars, talk' = [d \in Talks |-> talk'[d]],
           \A c \in Talks : talk'[c] = talk[c] \/ TalkGoes(talk[c], talk'[c]),
           \/ UNCHANGED tripRegion
           \/ /\ tripRegion' \in {"submitted", "asked"} => tripRegion \in {"submitted", "asked"}
              /\ tripRegion' # "canceled"
    PROVE  PipeInv' /\ Forward
  <1>1. UNCHANGED <<input, pipe, beat, report, job, lead>>
    BY DEF pipeVars
  <1>2. PipeTypeOK'
    BY <1>1 DEF PipeInv, PipeTypeOK
  <1>3. Before(job.shown, job'.shown)
    BY <1>1, ProgressType, BeforeSame DEF PipeInv
  <1>4. /\ DataInv' /\ Forward /\ InOrder(pipe.rest, pipe.ticks)' /\ RestFits'
        /\ Left' = Left /\ Now' = Now /\ (Going' <=> Going)
    BY <1>1, <1>2, <1>3, ThreadAlone DEF Going
  <1>5. TasksStop'
    <2>1. TasksStop
      BY DEF PipeInv, EndInv, TasksAreWaitedFor
    <2>2. ASSUME NEW c \in Talks
          PROVE  /\ TalkFits(talk'[c])
                 /\ Settled(talk'[c]) \/ Stopping(talk'[c]) \/ c \in pipe.pending
                 /\ talk'[c].canceled => ~Going
                 /\ talk'[c].at = "failed" => c \in pipe.pending \/ ~Going
      <3>1. /\ TalkFits(talk[c])
            /\ Settled(talk[c]) \/ Stopping(talk[c]) \/ c \in pipe.pending
            /\ talk[c].canceled => ~Going
            /\ talk[c].at = "failed" => c \in pipe.pending \/ ~Going
        BY <2>1 DEF TasksStop
      <3>2. CASE talk'[c] = talk[c]
        BY <3>1, <3>2
      <3>3. CASE TalkGoes(talk[c], talk'[c])
        BY <3>1, <3>3 DEF TalkGoes, Settled, Stopping
      <3> QED
        BY <3>2, <3>3
    <2>3. /\ tripRegion' \in {"submitted", "asked"} => None \in pipe.pending
          /\ tripRegion' = "canceled" => ~Going
      BY <2>1 DEF TasksStop
    <2> QED
      BY <1>1, <1>4, <2>2, <2>3 DEF TasksStop
  <1>6. EndInv'
    <2>1. LeftUnentered' /\ ThreadsEnd'
      BY <1>1, <1>4 DEF PipeInv, EndInv, LeftUnentered, ThreadsEnd
    <2>2. TasksAreWaitedFor'
      BY <1>1, <1>4, <1>5 DEF PipeInv, EndInv, TasksAreWaitedFor
    <2> QED
      BY <1>4, <2>1, <2>2 DEF EndInv
  <1>7. OrderInv'
    BY <1>1, <1>4 DEF PipeInv, OrderInv, ProgressFollows
  <1>8. ErrorsCount'
    BY <1>1 DEF PipeInv, ErrorsCount
  <1> QED
    BY <1>2, <1>4, <1>6, <1>7, <1>8 DEF PipeInv

\* A conversation of the agent takes a step, waited for or not.
LEMMA TalkStepInv ==
    ASSUME PipeInv, NEW c \in Talks, TalkStep(c, input.replies), UNCHANGED pipeVars
    PROVE  PipeInv' /\ Forward
  <1>1. PICK replies : replies = input.replies
    OBVIOUS
  <1>2. /\ TalkGoes(talk[c], talk'[c]) /\ UNCHANGED tripRegion
        /\ talk' = [d \in Talks |-> talk'[d]]
        /\ \A d \in Talks \ {c} : talk'[d] = talk[d]
    <2>1. TalkStep(c, replies) /\ talk = [d \in Talks |-> talk[d]] /\ TalkFits(talk[c])
      BY <1>1 DEF PipeInv, PipeTypeOK, EndInv, TasksAreWaitedFor, TasksStop
    <2> QED
      BY <2>1, TalkStepIs
  <1> QED
    BY <1>2, TasksOnly

\* The task that asks for the regions takes a step.
LEMMA RegionsStepInv ==
    ASSUME PipeInv, RegionsStep, UNCHANGED pipeVars
    PROVE  PipeInv' /\ Forward
  <1>1. /\ UNCHANGED talk /\ tripRegion' # "canceled"
        /\ tripRegion' \in {"submitted", "asked"} => tripRegion \in {"submitted", "asked"}
    BY DEF RegionsStep, LoadRegions, RegionsLoaded, RegionsStopped
  <1>2. talk' = [d \in Talks |-> talk'[d]]
    BY <1>1 DEF PipeInv, PipeTypeOK
  <1> QED
    BY <1>1, <1>2, TasksOnly

\* A stutter keeps the invariant.
LEMMA NothingChanges ==
    ASSUME PipeInv, UNCHANGED vars
    PROVE  PipeInv' /\ Forward
  <1>1. UNCHANGED pipeVars /\ UNCHANGED <<talk, tripRegion>>
    BY DEF vars, sessionVars
  <1>2. talk' = [d \in Talks |-> talk'[d]]
    BY <1>1 DEF PipeInv, PipeTypeOK
  <1> QED
    BY <1>1, <1>2, TasksOnly

\* The invariant holds at the start, with the whole program still to run.
LEMMA PipeStart == Init => PipeInv
  <1> SUFFICES ASSUME Init PROVE PipeInv
    OBVIOUS
  <1>1. PICK i \in Inputs : i = input
    BY DEF Init
  <1> DEFINE all == Range(Program(i))
  <1>2. /\ Program(i) \in Seq(Instrs) /\ InOrder(Program(i), 0)
        /\ Exit \in all /\ Leave \notin all
        /\ \A x \in all : x.do # "raise"
        /\ \A x \in all : IsWork(x, "encode") => x.photos \subseteq Pending(i)
        /\ Has(all, "decoded") /\ (i.reuse => Has(all, "fetch"))
        /\ Downloads(i) \subseteq Gives(all, "load")
        /\ Pending(i) \subseteq Gives(all, "upsert")
        /\ Report(7, N) \in all
    BY ProgramSound
  <1> DEFINE rest == Program(i)
  <1> HIDE DEF all, rest
  <1>3. /\ pipe = [pc |-> "off", rest |-> rest, error |-> "none", raw |-> {},
                   vectors |-> {}, undecoded |-> FALSE, pending |-> {}, ticks |-> 0]
        /\ rest = Program(i)
    BY <1>1 DEF Init, rest
  <1>4. Left = all /\ Going
    BY <1>2, <1>3 DEF Left, Going, all
  <1>5. NoProgress \in Progress /\ Before(NoProgress, NoProgress) /\ NoProgress = <<0, 0>>
    BY NType DEF NoProgress, Progress, Before
  <1>6. PipeTypeOK
    <2>1. pipe \in Pipes
      BY <1>2, <1>3 DEF Pipes, Errs, CallErrors
    <2>2. beat \in [pc : {"off", "wait", "call", "ended"}, sends : Progress]
      BY <1>5 DEF Init
    <2>3. report \in [lock : {"free", "pipe", "beat"}, current : Progress,
                      error : CallErrors, stop : BOOLEAN]
      BY <1>5 DEF Init, CallErrors
    <2>4. job \in [shown : Progress, cancelRequested : BOOLEAN, owned : BOOLEAN]
      BY <1>5 DEF Init
    <2>5. lead \in LeadStates
      BY DEF Init, LeadStates
    <2>6. talk = [c \in Talks |-> talk[c]] /\ input \in Inputs
      BY DEF Init, SessionInit
    <2> QED
      BY <2>1, <2>2, <2>3, <2>4, <2>5, <2>6 DEF PipeTypeOK
  <1>7. EndInv
    <2>1. RestFits
      BY <1>1, <1>2, <1>3, <1>4 DEF RestFits, Running
    <2>2. LeftUnentered
      BY <1>2, <1>4 DEF LeftUnentered
    <2>3. TasksAreWaitedFor
      <3>1. ASSUME NEW c \in Talks
            PROVE  TalkFits(talk[c]) /\ talk[c].at = "off" /\ talk[c].canceled = FALSE
        <4>1. talk[c] = Silent
          BY DEF Init, SessionInit
        <4>2. TalkIs(Silent, "off", FALSE, FALSE)
          BY DEF Silent, TalkIs
        <4> QED
          BY <4>1, <4>2 DEF TalkFits, TalkIs
      <3>2. tripRegion = "off"
        BY DEF Init, SessionInit
      <3>3. TasksStop
        BY <3>1, <3>2 DEF TasksStop, Settled
      <3> QED
        BY <1>3, <3>3 DEF TasksAreWaitedFor
    <2>4. ThreadsEnd
      BY <1>3 DEF ThreadsEnd, Init
    <2> QED
      BY <2>1, <2>2, <2>3, <2>4 DEF EndInv
  <1>8. OrderInv
    <2>1. InOrder(pipe.rest, pipe.ticks)
      BY <1>2, <1>3
    <2>2. /\ report.current = NoProgress /\ job.shown = NoProgress /\ beat.pc = "off"
      BY DEF Init
    <2>3. \A p \in Points : Before(NoProgress, p)
      BY <1>5 DEF Points, Before
    <2>4. Left \subseteq Instrs
      BY <1>6, RestFacts
    <2>5. \A x \in Left : x.do = "report" => Before(report.current, Shows(x))
      BY <2>2, <2>3, <2>4, PlacesArePoints
    <2>6. Before(report.current, Ticked(pipe.ticks))
      <3>1. Ticked(0) \in Points
        BY NoTicks, PlacesArePoints
      <3> QED
        BY <1>3, <2>2, <2>3, <3>1
    <2> QED
      BY <1>3, <1>5, <2>1, <2>2, <2>5, <2>6 DEF OrderInv, ProgressFollows
  <1>9. DataInv
    <2>1. ImagesSuffice
      BY <1>1, <1>2, <1>4 DEF ImagesSuffice
    <2>2. VectorsSuffice
      <3>1. Photos \subseteq (IF i.reuse THEN i.stored ELSE {}) \cup Pending(i)
        BY DEF Pending
      <3>2. pipe.vectors = {}
        BY <1>3
      <3> QED
        BY <1>1, <1>2, <1>4, <3>1, <3>2 DEF VectorsSuffice
    <2>3. EncodesPending
      BY <1>1, <1>2, <1>4 DEF EncodesPending
    <2>4. LastIsShown /\ OnlyOutsideFailures
      BY <1>2, <1>3, <1>4 DEF LastIsShown, OnlyOutsideFailures
    <2> QED
      BY <2>1, <2>2, <2>3, <2>4 DEF DataInv
  <1>10. ErrorsCount
    BY <1>3 DEF ErrorsCount, Init
  <1> QED
    BY <1>6, <1>7, <1>8, <1>9, <1>10 DEF PipeInv

-----------------------------------------------------------------------------
(* The theorems.                                                           *)

\* Every step keeps the invariant and moves the progress forward or not at
\* all.
LEMMA PipeNext == PipeInv /\ [Next]_vars => PipeInv' /\ (Forward \/ UNCHANGED vars)
  <1> SUFFICES ASSUME PipeInv, [Next]_vars PROVE PipeInv' /\ (Forward \/ UNCHANGED vars)
    OBVIOUS
  <1>1. CASE PipeStep
    BY <1>1, StartCheckInv, CheckAnsweredInv, StartReportInv, ReportAnsweredInv, CallFailsInv,
       WorkFailsInv, WorkDoneInv, EnterReporterInv, FetchInv, LoadInv, ComputeInv, UpsertInv,
       SubmitInv, TalksDoneInv, PollInv, RaiseErrorInv, ExitReporterInv, JoinHeartbeatInv,
       LeaveEarlyInv DEF PipeStep
  <1>2. CASE BeatStep
    BY <1>2, HeartbeatWakesInv, HeartbeatAnsweredInv, HeartbeatFailsInv, HeartbeatStopsInv
       DEF BeatStep
  <1>3. CASE LeadStep \/ GuardCancels
    BY <1>3, LeadStepInv, StartThreadInv DEF LeadStep
  <1>4. CASE JobDisturbed
    BY <1>4, JobDisturbedInv
  <1>5. CASE \E c \in Talks : TalkStep(c, input.replies) /\ UNCHANGED pipeVars
    BY <1>5, TalkStepInv
  <1>6. CASE RegionsStep /\ UNCHANGED pipeVars
    BY <1>6, RegionsStepInv
  <1>7. CASE UNCHANGED vars
    BY <1>7, NothingChanges
  <1> QED
    BY <1>1, <1>2, <1>3, <1>4, <1>5, <1>6, <1>7 DEF Next, Ended

\* The invariant of run, ProgressReporter and process_handler, of which the
\* other theorems are consequences.
THEOREM PipeInvariant == Spec => []PipeInv
  <1>1. PipeInv /\ [Next]_vars => PipeInv'
    BY PipeNext
  <1> QED
    BY <1>1, PipeStart, PTL DEF Spec

\* The handler of process_handler.py outlives its pipeline thread and the
\* heartbeat, but not the conversations of the agent: run_sync does not wait
\* for them, and the CancelledError of future.cancel in graph.py reaches no
\* thread.  Those that are left when the clients are closed have failed or are
\* asked to stop, and there are none if the job is completed.
THEOREM OnlyStoppingIsLeft == Spec => []OnlyStoppingOutlives
  <1>1. PipeInv => OnlyStoppingOutlives
    <2> SUFFICES ASSUME PipeInv PROVE OnlyStoppingOutlives
      OBVIOUS
    <2>1. /\ TasksStop /\ ThreadsEnd /\ (pipe.pc = "closed" => pipe.rest = <<>>)
          /\ pipe.pc = "closed" => pipe.pending = {}
      BY DEF PipeInv, EndInv, TasksAreWaitedFor, RestFits, Running
    <2>2. /\ lead.pc \in {"ended", "gone"} => pipe.pc \in {"off", "closed"}
                                              /\ beat.pc \in {"off", "ended"}
      BY <2>1 DEF ThreadsEnd
    <2>3. ASSUME pipe.pc = "closed", NEW c \in Talks
          PROVE  IsQuiet(c) \/ talk[c].canceled \/ talk[c].at = "failed"
      BY <2>1, <2>3 DEF TasksStop, TalkFits, Settled, Stopping, IsQuiet, Over
    <2>4. pipe.pc = "closed" => tripRegion \notin {"submitted", "asked"}
      BY <2>1 DEF TasksStop
    <2>5. ASSUME lead.result = "COMPLETED" PROVE AgentIsQuiet
      <3>1. pipe.pc = "closed" /\ pipe.error = "none"
        BY <2>5 DEF PipeInv, ErrorsCount
      <3>2. Going /\ pipe.pending = {}
        BY <2>1, <3>1 DEF Going, Left, Range
      <3>3. /\ \A c \in Talks : Settled(talk[c]) /\ ~talk[c].thread
            /\ tripRegion \notin {"submitted", "asked", "canceled"}
        BY <2>1, <3>2, TasksSettled
      <3> QED
        BY <3>3 DEF AgentIsQuiet, IsQuiet, Settled, Over
    <2> QED
      BY <2>2, <2>3, <2>4, <2>5 DEF OnlyStoppingOutlives
  <1> QED
    BY <1>1, PipeInvariant, PTL

\* The progress that ProgressReporter and its heartbeat show never goes back,
\* however their calls are interleaved and whichever fail.
THEOREM ProgressGrows == Spec => ProgressNeverBack
  <1>1. PipeInv /\ [Next]_vars => [Forward]_vars
    BY PipeNext
  <1> QED
    BY <1>1, PipeInvariant, PTL DEF Spec, ProgressNeverBack

\* Whatever Qdrant and Redis hold when run starts, its stages find the images,
\* vectors and metrics that they need, and it reports no progress beyond the
\* number of photos.
THEOREM OnlyOutside == Spec => []OnlyOutsideFailures
  <1>1. PipeInv => OnlyOutsideFailures
    BY DEF PipeInv, DataInv
  <1> QED
    BY <1>1, PipeInvariant, PTL

\* A job for which process_handler reports COMPLETED has a vector for every
\* photo, has shown its last progress, and its heartbeat has met no error.
THEOREM CompletedHasAll == Spec => []CompletedIsComplete
  <1>1. PipeInv => CompletedIsComplete
    <2> SUFFICES ASSUME PipeInv, lead.result = "COMPLETED"
                 PROVE  pipe.vectors = Photos /\ job.shown = <<7, N>> /\ report.error = "none"
      BY DEF CompletedIsComplete
    <2>1. pipe.pc = "closed" /\ pipe.error = "none" /\ report.error = "none" /\ pipe.rest = <<>>
      BY DEF PipeInv, ErrorsCount, EndInv, RestFits
    <2>2. Left = {} /\ Going
      BY <2>1 DEF Left, Going, Range
    <2>3. ~Has(Left, "fetch") /\ Gives(Left, "upsert") = {}
      BY <2>2 DEF Has, Gives
    <2>4. Photos \subseteq pipe.vectors
      BY <2>2, <2>3 DEF PipeInv, DataInv, VectorsSuffice
    <2>5. pipe.vectors \subseteq Photos
      BY DEF PipeInv, PipeTypeOK, Pipes
    <2>6. pipe.vectors = Photos
      BY <2>4, <2>5
    <2>7. job.shown = <<7, N>>
      BY <2>2 DEF PipeInv, DataInv, LastIsShown
    <2> QED
      BY <2>1, <2>6, <2>7
  <1> QED
    BY <1>1, PipeInvariant, PTL
=============================================================================
