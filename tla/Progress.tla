------------------------------ MODULE Progress ------------------------------
(***************************************************************************)
(* Progress spans (common/monitor/progress.go) under the task that nests   *)
(* them deepest, the training of the collaborative filtering model: the    *)
(* root span, a child "Fit" whose own child counts the epochs, and a child *)
(* "Index".  The dashboard lists the spans at any time, without a lock: a  *)
(* listing visits the children of a span, then reads the fields of the     *)
(* span one by one, while the task goes on; it writes the error of a child *)
(* into its parents, and End reads a status and writes it back in two      *)
(* steps.  There is one listing at a time.                                 *)
(***************************************************************************)
EXTENDS Naturals, FiniteSets, FiniteSetsExt

CONSTANTS NEpochs,    \* total of the span of the fit
          NIndexed    \* total of the span of the index

Spans == {"root", "fit", "epochs", "index"}
Parent == [fit |-> "root", epochs |-> "fit", index |-> "root"]
Total == [root |-> 2, fit |-> 1, epochs |-> NEpochs, index |-> NIndexed]

VARIABLES span,     \* the spans: status, count, err; "none" before Start
          step,     \* where the task stands
          ending,   \* End has read a running status of the root
          raced,    \* ghost: a listing wrote the root between that read and the write
          failing,  \* ghost: the task has failed a span
          listing,  \* the listing under way
          reply     \* what the last listing said of the root

progressVars == <<span, step, ending, raced, failing, listing, reply>>

Status == {"none", "Running", "Complete", "Failed"}
Absent == [status |-> "none", count |-> 0, err |-> FALSE]
Running == [status |-> "Running", count |-> 0, err |-> FALSE]
Unlisted == [status |-> "none", err |-> FALSE, count |-> 0, total |-> 0]

\* A listing is at a span; it has to visit the spans due, which were there when it
\* began with their parent; taken holds what it was told of those it has visited,
\* looked the fields of its span as it begins to read them.  Ghosts: the root or a
\* child of it ended meanwhile (moved), the task had failed a span before (since).
NoListing == [at |-> "none", due |-> {}, taken |-> [s \in Spans |-> Unlisted], looked |-> Absent,
              moved |-> FALSE, since |-> FALSE]
NoReply == [status |-> "none", count |-> 0, total |-> 0, moved |-> FALSE, since |-> FALSE]

ProgressInit ==
    /\ span = [s \in Spans |-> Absent]
    /\ step = "idle" /\ ending = FALSE /\ raced = FALSE /\ failing = FALSE
    /\ listing = NoListing /\ reply = NoReply

-----------------------------------------------------------------------------
(* Span.                                                                   *)

\* Start and Monitor.Start: a new span replaces the one of its name, and with
\* it that one's children.
Started(s) == [t \in Spans |-> IF t = s THEN Running
                               ELSE IF s = "root" \/ (s = "fit" /\ t = "epochs") THEN Absent
                               ELSE span[t]]

Add(sp, n, s) == [sp EXCEPT ![s].count = IF @ + n < Total[s] THEN @ + n ELSE Total[s]]

End(sp, s) == IF sp[s].status = "Running"
              THEN [sp EXCEPT ![s].status = "Complete", ![s].count = Total[s]]
              ELSE sp

Fail(sp, s) == [sp EXCEPT ![s].status = "Failed", ![s].err = TRUE]

Children(s) == {t \in DOMAIN Parent : Parent[t] = s /\ span[t].status # "none"}

-----------------------------------------------------------------------------
(* Progress, step by step.                                                 *)

\* A span's count and total, scaled by its running children, each of which is
\* given as [count, total].
Scaled(count, total, children) ==
    LET largest    == Max({c.total : c \in children})
        childTotal == IF largest = 0 THEN 1 ELSE largest
        Done(c)    == IF c.total = 0 THEN childTotal ELSE (childTotal * c.count) \div c.total
    IN  IF children = {} THEN [count |-> count, total |-> total]
        ELSE [count |-> count * childTotal + MapThenSumSet(Done, children), total |-> total * childTotal]

\* What is said of a span with these fields, after its children.
Told(s, fields, taken) ==
    LET running == {t \in DOMAIN Parent : Parent[t] = s /\ taken[t].status = "Running"}
        scaled  == Scaled(fields.count, Total[s],
                          {[span |-> t, count |-> taken[t].count, total |-> taken[t].total] : t \in running})
    IN  [status |-> fields.status, err |-> fields.err, count |-> scaled.count, total |-> scaled.total]

\* Mutant of HandsOn: only a child still running hands its error on.
HandsOnRunning(told) == told.err /\ told.status = "Running"

\* A child has an error for its parent.
HandsOn(told) == told.err

\* Monitor.List, by the dashboard's getProgress or the worker's PushProgress.
List ==
    /\ listing.at = "none" /\ span["root"].status # "none"
    /\ listing' = [NoListing EXCEPT !.at = "root", !.due = Children("root"), !.since = failing]
    /\ UNCHANGED <<span, step, ending, raced, failing, reply>>

\* It goes on to a child; one that is started meanwhile may be seen or not.
Visit(s) ==
    /\ listing.at = Parent[s] /\ listing.looked = Absent
    /\ span[s].status # "none" /\ listing.taken[s] = Unlisted
    /\ listing' = [listing EXCEPT !.at = s, !.due = @ \cup Children(s)]
    /\ UNCHANGED <<span, step, ending, raced, failing, reply>>

\* All children are visited: it begins to read the span itself ...
Look ==
    /\ listing.at # "none" /\ listing.looked = Absent
    /\ \A t \in listing.due : Parent[t] = listing.at => listing.taken[t] # Unlisted
    /\ listing' = [listing EXCEPT !.looked = span[listing.at]]
    /\ UNCHANGED <<span, step, ending, raced, failing, reply>>

\* ... and ends, each field as it was then or is now.
Fields == {[status |-> x.status, count |-> y.count, err |-> z.err] :
              x, y, z \in {listing.looked, span[listing.at]}}

\* The parent is told, and takes an error if it has none.
TellParent ==
    /\ listing.at \in DOMAIN Parent /\ listing.looked # Absent
    /\ LET s == listing.at
           p == Parent[s] IN
       \E fields \in Fields :
          LET told  == Told(s, fields, listing.taken)
              takes == ~span[p].err /\ HandsOn(told) IN
          /\ listing' = [listing EXCEPT !.at = p, !.looked = Absent, !.taken[s] = told]
          /\ span' = IF takes THEN Fail(span, p) ELSE span
          /\ raced' = (raced \/ (takes /\ p = "root" /\ ending))
    /\ UNCHANGED <<step, ending, failing, reply>>

Reply ==
    /\ listing.at = "root" /\ listing.looked # Absent
    /\ \E fields \in Fields :
          LET told == Told("root", fields, listing.taken) IN
          reply' = [status |-> told.status, count |-> told.count, total |-> told.total,
                    moved |-> listing.moved, since |-> listing.since]
    /\ listing' = NoListing
    /\ UNCHANGED <<span, step, ending, raced, failing>>

-----------------------------------------------------------------------------
(* The task.                                                               *)

\* A new root replaces the old.  A listing of the old is left out: its spans no
\* longer change, so it ends as one that ended before.
StartTask ==
    /\ step = "idle"
    /\ span' = Started("root") /\ step' = "counts"
    /\ ending' = FALSE /\ raced' = FALSE /\ failing' = FALSE
    /\ listing' = NoListing /\ reply' = NoReply

\* No user, item or feedback.
NothingFound ==
    /\ step = "counts" /\ span' = Fail(span, "root") /\ failing' = TRUE /\ step' = "end"
    /\ UNCHANGED <<ending, raced, listing, reply>>

\* As much feedback as last time: no model is trained.
NothingNew ==
    /\ step = "counts" /\ step' = "end"
    /\ UNCHANGED <<span, ending, raced, failing, listing, reply>>

StartFit ==
    /\ step = "counts" /\ span' = Started("fit") /\ step' = "fit"
    /\ UNCHANGED <<ending, raced, failing, listing, reply>>

StartEpochs ==
    /\ step = "fit" /\ span' = Started("epochs") /\ step' = "epochs"
    /\ UNCHANGED <<ending, raced, failing, listing, reply>>

Epoch ==
    /\ step = "epochs" /\ span["epochs"].count < NEpochs
    /\ span' = Add(span, 1, "epochs")
    /\ UNCHANGED <<step, ending, raced, failing, listing, reply>>

\* Fit returns, early or not, and ends its span.
EndEpochs ==
    /\ step = "epochs" /\ span' = End(span, "epochs") /\ step' = "fitted"
    /\ UNCHANGED <<ending, raced, failing, listing, reply>>

\* The root is counted before the child ends.
CountFit ==
    /\ step = "fitted" /\ span' = Add(span, 1, "root") /\ step' = "endFit"
    /\ UNCHANGED <<ending, raced, failing, listing, reply>>

\* A child of the root or the root itself ends: a listing under way may have read
\* the one as it was and the other as it is.
Ends == listing' = IF listing.at = "none" THEN listing ELSE [listing EXCEPT !.moved = TRUE]

EndFit ==
    /\ step = "endFit" /\ span' = End(span, "fit") /\ step' = "startIndex"
    /\ Ends
    /\ UNCHANGED <<ending, raced, failing, reply>>

StartIndex ==
    /\ step = "startIndex" /\ span' = Started("index") /\ step' = "index"
    /\ UNCHANGED <<ending, raced, failing, listing, reply>>

Index ==
    /\ step = "index" /\ span["index"].count < NIndexed
    /\ span' = Add(span, 1, "index")
    /\ UNCHANGED <<step, ending, raced, failing, listing, reply>>

\* The vector store refuses: the child fails, the root only ends.
IndexFails ==
    /\ step = "index" /\ span' = Fail(span, "index") /\ failing' = TRUE /\ step' = "end"
    /\ UNCHANGED <<ending, raced, listing, reply>>

EndIndex ==
    /\ step = "index" /\ span["index"].count = NIndexed
    /\ span' = End(span, "index") /\ step' = "countIndex"
    /\ Ends
    /\ UNCHANGED <<ending, raced, failing, reply>>

CountIndex ==
    /\ step = "countIndex" /\ span' = Add(span, 1, "root") /\ step' = "end"
    /\ UNCHANGED <<ending, raced, failing, listing, reply>>

\* The deferred End of the root reads the status ...
EndTask ==
    /\ step = "end" /\ ending' = (span["root"].status = "Running") /\ step' = "ended"
    /\ UNCHANGED <<span, raced, failing, listing, reply>>

\* ... and completes the span.
CompleteTask ==
    /\ step = "ended" /\ step' = "idle" /\ ending' = FALSE
    /\ span' = IF ending THEN [span EXCEPT !["root"].status = "Complete", !["root"].count = Total["root"]]
               ELSE span
    /\ Ends
    /\ UNCHANGED <<raced, failing, reply>>

ProgressNext ==
    \/ StartTask \/ NothingFound \/ NothingNew \/ StartFit \/ StartEpochs \/ Epoch \/ EndEpochs
    \/ CountFit \/ EndFit \/ StartIndex \/ Index \/ IndexFails \/ EndIndex \/ CountIndex \/ EndTask \/ CompleteTask
    \/ List \/ (\E s \in DOMAIN Parent : Visit(s)) \/ Look \/ TellParent \/ Reply

ProgressSpec == ProgressInit /\ [][ProgressNext]_progressVars

-----------------------------------------------------------------------------

\* A listing shows no more done than there is to do, wherever the task goes on
\* meanwhile, unless the root or a child of it ended during the listing: then it may
\* add the done part of a child to a root already counted for it.
CountWithinTotal == ~reply.moved => reply.count <= reply.total

\* A task that failed in a child span before the listing began is listed as failed,
\* also when the root span has been ended as complete, unless the error reached the
\* root inside that End.
FailureIsReported == reply.since /\ ~raced => reply.status = "Failed"
=============================================================================
