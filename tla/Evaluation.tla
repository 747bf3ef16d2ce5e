----------------------------- MODULE Evaluation -----------------------------
(***************************************************************************)
(* One configuration of the evaluation matrix, run and run again until it  *)
(* is done (scripts/run_matrix.py, eval/runner.py, eval/scoring.py).       *)
(*                                                                         *)
(* The program answers the questions of a set under a semaphore, appends   *)
(* each finished one to a checkpoint, writes the report, has it judged and *)
(* writes the scores.  It can be killed anywhere: files stay, a file being *)
(* written stays torn.  A checkpoint torn inside a character is no UTF-8   *)
(* any more, and no run can read it.  Between runs the operator may switch *)
(* to another question set in the same directory; sets may reuse ids.      *)
(*                                                                         *)
(* min_interval_s, which only delays starts, is left out.  MaxCrashes      *)
(* bounds the crashes, MaxLines the lines of a checkpoint after which no   *)
(* question fails any more.                                                *)
(***************************************************************************)
EXTENDS Integers, Sequences, FiniteSets, SequencesExt

CONSTANTS
  Sets,         \* the question sets: a sequence of functions from ids to texts
  Answers,      \* what the model may answer
  Split,        \* answers with a character at which splitlines() cuts a line
  Concurrency,  \* questions in flight at once
  MaxCrashes,
  MaxLines,     \* bounds the failed questions: none beyond so many lines
  Absent, Torn  \* a file that is not there, one that was being written

ASSUME SetsAssumption == Sets # <<>> /\ \A s \in DOMAIN Sets : Sets[s] # <<>>
ASSUME AnswersAssumption == Split \subseteq Answers
ASSUME BoundsAssumption ==
  /\ Concurrency \in Nat \ {0}
  /\ MaxCrashes \in Nat /\ MaxLines \in Nat

VARIABLES
  set,        \* the question set of the next, or of the current, run
  ckpt,       \* the checkpoint of each set, by line
  report,     \* Absent, Torn, or a run of each question
  scored,     \* Absent, Torn, or a score of each question
  pc,         \* what the program is doing
  task,       \* what became of each question in this run
  runs,       \* the runs this process holds
  merged,     \* the scores it is about to write
  crashes,
  recorded    \* history: whose answers, of each set, were written down

vars == <<set, ckpt, report, scored, pc, task, runs, merged, crashes, recorded>>
memory == <<task, runs, merged>>

Failed == "failed"

Ids == UNION {DOMAIN Sets[s] : s \in DOMAIN Sets}
Texts == UNION {{Sets[s][q] : q \in DOMAIN Sets[s]} : s \in DOMAIN Sets}
Wanted == DOMAIN Sets[set]

(* A run of a question, a score of one, and files that hold one for each.  *)
RunSet == [text : Texts, answer : Answers \cup {Failed}]
ScoreSet == [text : Texts, answer : Answers \cup {Failed}, judged : BOOLEAN]
Partial(S) == UNION {[ids -> S] : ids \in SUBSET Ids}

ASSUME FilesAssumption ==
  Absent # Torn /\ {Absent, Torn} \cap (Partial(RunSet) \cup Partial(ScoreSet)) = {}

Run(q, a) == [text |-> Sets[set][q], answer |-> a]

(* A line that is there gives its answer back to a later run, unless it    *)
(* tells of an error or is several lines to the reader: model_dump_json    *)
(* writes U+2028, U+2029 and U+0085 as they are.                           *)
GivesBack(a) == a \notin Split \cup {Failed}

(* A plausible mistake, for a mutant. *)
LineUnended(q, a, whole, ended, cut) ==
  [id |-> q, run |-> Run(q, a), whole |-> whole /\ a \notin Split,
   ended |-> FALSE, cut |-> cut]

(* A line is a run of a question.  It can be parsed if it is whole; it is  *)
(* ended or not, and may be cut inside a character.                        *)
LineSet == [id : Ids, run : RunSet, whole : BOOLEAN, ended : BOOLEAN, cut : BOOLEAN]
Line(q, a, whole, ended, cut) ==
  [id |-> q, run |-> Run(q, a), whole |-> whole /\ a \notin Split,
   ended |-> ended, cut |-> cut]

(* write after an unterminated line makes one unparsable line of both. *)
AppendLine(lines, line) ==
  IF lines # <<>> /\ ~Last(lines).ended
  THEN Append(Front(lines),
              [line EXCEPT !.whole = FALSE, !.cut = @ \/ Last(lines).cut])
  ELSE Append(lines, line)

(* read_text decodes the whole file, outside the try of the lines. *)
Readable(lines) == \A i \in DOMAIN lines : ~lines[i].cut

(* A plausible mistake, for a mutant. *)
LoadWithErrors(lines, wanted) ==
  LET last(q) == {i \in DOMAIN lines :
                    /\ lines[i].id = q /\ lines[i].whole
                    /\ \A j \in i + 1 .. Len(lines) : lines[j].id = q => ~lines[j].whole}
      good == {q \in wanted : last(q) # {}}
  IN [q \in good |-> lines[CHOOSE i \in last(q) : TRUE].run]

(* _load_checkpoint, of a file that is Readable: lines that cannot be      *)
(* parsed are skipped, later ones win, a failed run undoes an earlier one. *)
LoadCheckpoint(lines, wanted) ==
  LET last(q) == {i \in DOMAIN lines :
                    /\ lines[i].id = q /\ lines[i].whole
                    /\ \A j \in i + 1 .. Len(lines) : lines[j].id = q => ~lines[j].whole}
      good == {q \in wanted : \E i \in last(q) : lines[i].run.answer # Failed}
  IN [q \in good |-> lines[CHOOSE i \in last(q) : TRUE].run]

Covers(r) == DOMAIN r = Wanted
HasErrors(r) == \E q \in DOMAIN r : r[q].answer = Failed
Reusable(r) == r \notin {Absent, Torn} /\ Covers(r) /\ ~HasErrors(r)

(* A plausible mistake, for a mutant. *)
StaleByJudge(r, s) == {q \in DOMAIN r : q \notin DOMAIN s \/ ~s[q].judged}

(* stale_question_ids: never judged, judged in vain, or another answer. *)
Stale(r, s) == {q \in DOMAIN r : \/ q \notin DOMAIN s
                                 \/ s[q].answer # r[q].answer
                                 \/ ~s[q].judged}

-----------------------------------------------------------------------------
Init ==
  /\ set \in DOMAIN Sets
  /\ ckpt = [s \in DOMAIN Sets |-> <<>>]
  /\ report = Absent /\ scored = Absent
  /\ pc = "idle"
  /\ task = <<>> /\ runs = <<>> /\ merged = <<>>
  /\ crashes = 0
  /\ recorded = [s \in DOMAIN Sets |-> {}]

(* Another questions file, or edited questions, before the next run. *)
SwitchSet(s) ==
  /\ pc \in {"idle", "done"} /\ s # set
  /\ set' = s /\ pc' = "idle"
  /\ task' = <<>> /\ runs' = <<>> /\ merged' = <<>>
  /\ UNCHANGED <<ckpt, report, scored, crashes, recorded>>

(* _report_for, with a report of these very ids and no error: reused. *)
Reuse ==
  /\ pc \in {"idle", "done"}
  /\ Reusable(report)
  /\ pc' = "scoring"
  /\ runs' = report
  /\ task' = [q \in Wanted |-> "kept"] /\ merged' = <<>>
  /\ UNCHANGED <<set, ckpt, report, scored, crashes, recorded>>

(* Otherwise run_evaluation, from the checkpoint on.  With a torn report,  *)
(* or a checkpoint that is not Readable, the command ends there, whenever  *)
(* it is run.                                                              *)
RunEvaluation ==
  LET done == LoadCheckpoint(ckpt[set], Wanted)
  IN /\ pc \in {"idle", "done"}
     /\ report # Torn
     /\ ~Reusable(report)
     /\ Readable(ckpt[set])
     /\ pc' = "running"
     /\ runs' = done
     /\ task' = [q \in Wanted |-> IF q \in DOMAIN done THEN "kept" ELSE "queued"]
     /\ merged' = <<>>
     /\ UNCHANGED <<set, ckpt, report, scored, crashes, recorded>>

In(state) == {q \in DOMAIN task : task[q] = state}

(* _run_one enters the semaphore and the question starts. *)
StartQuestion(q) ==
  /\ pc = "running"
  /\ task[q] = "queued" /\ \A p \in In("queued") : q <= p
  /\ Cardinality(In("running")) < Concurrency
  /\ task' = [task EXCEPT ![q] = "running"]
  /\ UNCHANGED <<set, ckpt, report, scored, pc, runs, merged, crashes, recorded>>

(* The answer, or the error of this one question, and its line. *)
FinishQuestion(q, a) ==
  /\ pc = "running" /\ task[q] = "running"
  /\ a = Failed => Len(ckpt[set]) < MaxLines
  /\ task' = [task EXCEPT ![q] = "finished"]
  /\ runs' = [p \in DOMAIN runs \cup {q} |-> IF p = q THEN Run(q, a) ELSE runs[p]]
  /\ ckpt' = [ckpt EXCEPT ![set] = AppendLine(@, Line(q, a, TRUE, TRUE, FALSE))]
  /\ recorded' = [recorded EXCEPT ![set] = IF GivesBack(a) THEN @ \cup {q} ELSE @]
  /\ UNCHANGED <<set, report, scored, pc, merged, crashes>>

(* A plausible mistake, for a mutant. *)
AllFinishedNow == \A q \in DOMAIN task : task[q] = "finished"

AllFinished == \A q \in DOMAIN task : task[q] \in {"kept", "finished"}

(* write_report opens the file, which empties it, and then writes it. *)
OpenReport ==
  /\ pc = "running" /\ AllFinished
  /\ report' = Torn
  /\ pc' = "writing"
  /\ UNCHANGED <<set, ckpt, scored, memory, crashes, recorded>>

CloseReport ==
  /\ pc = "writing"
  /\ report' = runs
  /\ pc' = "written"
  /\ UNCHANGED <<set, ckpt, scored, memory, crashes, recorded>>

(* With a failed question the checkpoint stays: the next run retries it. *)
UnlinkCheckpoint ==
  /\ pc = "written"
  /\ pc' = "scoring"
  /\ IF HasErrors(runs) THEN UNCHANGED <<ckpt, recorded>>
     ELSE /\ ckpt' = [ckpt EXCEPT ![set] = <<>>]
          /\ recorded' = [recorded EXCEPT ![set] = {}]
  /\ UNCHANGED <<set, report, scored, memory, crashes>>

(* _scored_for: score_report or rescore_stale.  The judge may fail on any  *)
(* question; scores of unchanged answers are kept.                         *)
Judge(ok) ==
  LET old == IF scored = Absent THEN <<>> ELSE scored
      stale == Stale(runs, old)
  IN /\ pc = "scoring" /\ scored # Torn
     /\ ok \subseteq stale
     /\ IF scored # Absent /\ stale = {}
        THEN pc' = "done" /\ UNCHANGED <<scored, merged>>
        ELSE /\ pc' = "writing_scores" /\ scored' = Torn
             /\ merged' = [q \in DOMAIN runs |->
                  IF q \in stale
                  THEN [text |-> runs[q].text, answer |-> runs[q].answer, judged |-> q \in ok]
                  ELSE old[q]]
     /\ UNCHANGED <<set, ckpt, report, task, runs, crashes, recorded>>

CloseScores ==
  /\ pc = "writing_scores"
  /\ scored' = merged
  /\ pc' = "done" /\ merged' = <<>>
  /\ UNCHANGED <<set, ckpt, report, task, runs, crashes, recorded>>

(* A torn scored report ends the command too. *)
CannotReadScores ==
  /\ pc = "scoring" /\ scored = Torn
  /\ pc' = "idle"
  /\ task' = <<>> /\ runs' = <<>> /\ merged' = <<>>
  /\ UNCHANGED <<set, ckpt, report, scored, crashes, recorded>>

-----------------------------------------------------------------------------
Die ==
  /\ crashes < MaxCrashes /\ crashes' = crashes + 1
  /\ pc' = "idle"
  /\ task' = <<>> /\ runs' = <<>> /\ merged' = <<>>
  /\ UNCHANGED <<set, report, scored>>

Crash == pc \notin {"idle", "done"} /\ Die /\ UNCHANGED <<ckpt, recorded>>

(* Killed in the middle of an append: a part of the line is there, maybe   *)
(* to the middle of a character, or all of it but the line's end.          *)
CrashInAppend(q, a, whole, cut) ==
  /\ pc = "running" /\ task[q] = "running"
  /\ ~(whole /\ cut)
  /\ Die
  /\ ckpt' = [ckpt EXCEPT ![set] = AppendLine(@, Line(q, a, whole, FALSE, cut))]
  /\ recorded' = [recorded EXCEPT ![set] = IF GivesBack(a) THEN @ \cup {q} ELSE @]

Work ==
  \/ Reuse \/ RunEvaluation
  \/ \E q \in DOMAIN task : \/ StartQuestion(q)
                            \/ \E a \in Answers \cup {Failed} : FinishQuestion(q, a)
  \/ OpenReport \/ CloseReport \/ UnlinkCheckpoint
  \/ \E ok \in SUBSET Ids : Judge(ok)
  \/ CloseScores \/ CannotReadScores

Next ==
  \/ Work
  \/ \E s \in DOMAIN Sets : SwitchSet(s)
  \/ Crash
  \/ \E q \in DOMAIN task, a \in Answers \cup {Failed}, whole, cut \in BOOLEAN :
       CrashInAppend(q, a, whole, cut)

Spec == Init /\ [][Next]_vars

(* The operator runs the same command again until it is done, and leaves   *)
(* the questions alone while it is not.                                    *)
FairSpec == Spec /\ WF_vars(Work)

-----------------------------------------------------------------------------
TypeOK ==
  /\ set \in DOMAIN Sets
  /\ ckpt \in [DOMAIN Sets -> Seq(LineSet)]
  /\ report \in {Absent, Torn} \/ report \in Partial(RunSet)
  /\ scored \in {Absent, Torn} \/ scored \in Partial(ScoreSet)
  /\ pc \in {"idle", "running", "writing", "written", "scoring", "writing_scores", "done"}
  /\ task \in Partial({"queued", "running", "kept", "finished"})
  /\ runs \in Partial(RunSet)
  /\ merged \in Partial(ScoreSet)
  /\ crashes \in 0..MaxCrashes
  /\ recorded \in [DOMAIN Sets -> SUBSET Ids]

(* The report is told from another set's by its ids alone.                 *)
SetsAreToldApart ==
  \A s, t \in DOMAIN Sets : DOMAIN Sets[s] = DOMAIN Sets[t] => Sets[s] = Sets[t]

(* A finished command has a report of exactly the current questions, under *)
(* their current texts, and scores of exactly the answers in it            *)
(* (run_matrix.py:133, runner.py:49, scoring.py:202), where no two         *)
(* question sets have the same ids.                                        *)
DoneIsWhole ==
  pc = "done" =>
    /\ report \notin {Absent, Torn} /\ scored \notin {Absent, Torn}
    /\ DOMAIN report = Wanted /\ Wanted \subseteq DOMAIN scored
    /\ \A q \in Wanted : /\ report[q].text = Sets[set][q]
                         /\ scored[q].answer = report[q].answer

(* A question counts as failed only after it was asked in this very run:   *)
(* no error of an earlier one is carried over (runner.py:67-72,            *)
(* run_matrix.py:151).                                                     *)
ErrorsAreRetried ==
  pc = "done" => \A q \in Wanted : report[q].answer = Failed => task[q] = "finished"

(* A checkpoint whose last line was cut inside a character, once somebody  *)
(* has removed that line by hand.                                          *)
Repaired(lines) == IF Readable(lines) THEN lines ELSE Front(lines)

(* However often and wherever the program is killed, each kill costs at    *)
(* most two of the answers already paid for: the one being written, and    *)
(* the next one, which lands on the unterminated line (runner.py:91-94).   *)
(* A kill inside a character puts all of them out of reach until that line *)
(* is removed (runner.py:75); nothing else keeps a checkpoint from being   *)
(* read, and then it has cost no more.                                     *)
CrashCostsAtMostTwo ==
  \A s \in DOMAIN Sets :
    LET lines == Repaired(ckpt[s])
    IN /\ Readable(lines)
       /\ Cardinality(recorded[s] \ DOMAIN LoadCheckpoint(lines, Ids)) <= 2 * crashes

(* Run again and again, the command finishes again and again, or ends      *)
(* again and again at a checkpoint of its set that cannot be read, or from *)
(* some point on there is a torn report or torn scores.  Being written     *)
(* does not count: that is over soon.                                      *)
EventuallyDone ==
  \/ []<>(pc = "done" \/ ~Readable(ckpt[set]))
  \/ <>[](report = Torn \/ scored = Torn)

(* run_matrix.py:37 "Just run the same command again after a crash".       *)
RunAgainAfterCrash == []<>(pc = "done")
=============================================================================
