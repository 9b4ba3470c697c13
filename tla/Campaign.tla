------------------------------ MODULE Campaign ------------------------------
(***************************************************************************)
(* src/evals/research_campaign.py and the experiments it runs: inputs are  *)
(* frozen before the first call (src/evals/experiment_protocol.py), every  *)
(* row is saved as it is measured, a complete report is analysed, and each *)
(* study ends in a terminal file.  Several hosts may be started on one     *)
(* directory, and may die at any step.                                     *)
(***************************************************************************)
EXTENDS Integers, Sequences, SequencesExt, FiniteSets

CONSTANTS Hosts, Nobody,
          Order,      \* study_order, the shuffled studies
          Kind,       \* study |-> meta, claim or evidence
          Rows,       \* rows of a study: tasks, repeats and arms (and models)
          Extra,      \* an evidence study's calibrations, then comparisons
          MaxEdits    \* bound: edits of the sources

ASSUME CampaignAssumption ==
  /\ Nobody \notin Hosts
  /\ Order \in Seq(ToSet(Order)) /\ IsInjective(Order)
  /\ {"archive", "campaign"} \cap ToSet(Order) = {}
  /\ Kind \in [ToSet(Order) -> {"meta", "claim", "evidence"}]
  /\ Rows \in Nat \ {0} /\ Extra \in Nat

Studies == ToSet(Order)
VARIABLES
  pc,        \* host |-> its step
  at,        \* host |-> its study, an index of Order
  mem,       \* host |-> the report of its study, in memory
  by,        \* file |-> the host that created it, or Nobody
  torn,      \* files whose last write was cut off
  report,    \* study |-> its saved report
  analysed,  \* study |-> the report its analysis is bound to
  ending,    \* study |-> what its terminal file says, or "none"
  status,    \* study |-> status of its row in campaign.json, or "none"
  source,    \* the source files, as a version
  frozen     \* the version in the archive and in each protocol

files == <<by, torn, report, analysed, ending, status>>
campaignVars == <<pc, at, mem, files, source, frozen>>

(* What a report holds: calibrated judges, measured rows, comparisons. *)
Fresh == [calibrated |-> 0, rows |-> 0, compared |-> 0]
Files == {<<n, "campaign">> : n \in {"archive", "protocol", "report"}}
           \cup ({"protocol", "report", "analysis", "terminal"} \X Studies)
Exists(f) == by[f] # Nobody
Study(h) == Order[at[h]]

CampaignInit ==
  /\ pc = [h \in Hosts |-> "look"]
  /\ at = [h \in Hosts |-> 0]
  /\ mem = [h \in Hosts |-> Fresh]
  /\ by = [f \in Files |-> Nobody]
  /\ torn = {}
  /\ report = [s \in Studies |-> Fresh]
  /\ analysed = [s \in Studies |-> Fresh]
  /\ ending = [s \in Studies |-> "none"]
  /\ status = [s \in Studies |-> "none"]
  /\ source = 0
  /\ frozen = [k \in Studies \cup {"archive", "campaign"} |-> 0]

Goto(h, step) == pc' = [pc EXCEPT ![h] = step]
ByNow(h, f) == by' = [by EXCEPT ![f] = h]

(* open("x") creates f for the host, or raises if there is one. *)
Free_Overwrites(f) == TRUE
Free(f) == ~Exists(f)
Create(h, f, next, otherwise) ==
  \/ Free(f) /\ ByNow(h, f) /\ Goto(h, next)
  \/ ~Free(f) /\ UNCHANGED by /\ Goto(h, otherwise)

(* run() refuses a directory with any of its files. *)
Look(h) ==
  /\ pc[h] = "look"
  /\ Goto(h, IF \E f \in Files \ {<<"archive", "campaign">>} : Exists(f)
             THEN "raised" ELSE "archive")
  /\ UNCHANGED <<at, mem, files, source, frozen>>

(* archive_sources, then freeze_protocol of the campaign; a study's own    *)
(* freeze_protocol is the same, within the study.                          *)
Archive(h) ==
  LET f == <<"archive", "campaign">> IN
  /\ pc[h] = "archive"
  /\ Create(h, f, "declare", "raised")
  /\ frozen' = IF Free(f) THEN [frozen EXCEPT !["archive"] = source] ELSE frozen
  /\ UNCHANGED <<at, mem, torn, report, analysed, ending, status, source>>
Protocol(h) == CASE pc[h] = "declare" -> "campaign"
                 [] pc[h] = "declareStudy" -> Study(h)
FreezeProtocol(h) ==
  /\ pc[h] \in {"declare", "declareStudy"}
  /\ LET k == Protocol(h)
         study == k # "campaign"
         used == Exists(<<"report", k>>) \/ Exists(<<"protocol", k>>)
     IN \/ /\ used
           /\ Goto(h, IF study THEN "failed" ELSE "raised")
           /\ UNCHANGED <<by, frozen>>
        \/ /\ ~used
           /\ Create(h, <<"protocol", k>>, IF study THEN "openStudy" ELSE "open",
                     IF study THEN "failed" ELSE "raised")
           /\ frozen' = [frozen EXCEPT ![k] = source]
  /\ UNCHANGED <<at, mem, torn, report, analysed, ending, status, source>>
OpenReport(h) ==
  /\ \/ pc[h] = "open" /\ Create(h, <<"report", "campaign">>, "next", "raised")
     \/ /\ pc[h] = "openStudy"
        /\ Create(h, <<"report", Study(h)>>, "generate", "failed")
  /\ UNCHANGED <<at, mem, torn, report, analysed, ending, status, source,
                 frozen>>

(* The row of the next study is saved before anything is done for it. *)
NextStudy(h) ==
  /\ pc[h] = "next"
  /\ \/ /\ at[h] = Len(Order) /\ Goto(h, "returned")
        /\ UNCHANGED <<at, mem, status>>
     \/ /\ at[h] < Len(Order) /\ Goto(h, "verify")
        /\ at' = [at EXCEPT ![h] = @ + 1]
        /\ mem' = [mem EXCEPT ![h] = Fresh]
        /\ status' = [status EXCEPT ![Order[at[h] + 1]] = "running"]
  /\ UNCHANGED <<by, torn, report, analysed, ending, source, frozen>>

(* verify_campaign: the sources are those declared and archived.  After    *)
(* generation verify_child asks the same of the study's protocol, after    *)
(* the analysis its bindings are compared.                                 *)
SameSources == source = frozen["campaign"] /\ frozen["archive"] = source
SameChild_Skipped(s) == TRUE
SameChild(s) == frozen[s] = frozen["campaign"]
Verify(h) ==
  LET goes(step, ok, next) ==
        pc[h] = step /\ Goto(h, IF SameSources /\ ok THEN next ELSE "failed")
  IN
  /\ pc[h] \in {"verify", "close", "bind"}
  /\ \/ goes("verify", TRUE, "declareStudy")
     \/ goes("close", SameChild(Study(h)), "analyse")
     \/ goes("bind", analysed[Study(h)] = report[Study(h)], "finish")
  /\ UNCHANGED <<at, mem, files, source, frozen>>

(* The runners: whatever is measured is appended and the report saved.     *)
Saves(h, r) ==
  /\ mem' = [mem EXCEPT ![h] = r]
  /\ report' = [report EXCEPT ![Study(h)] = r]
  /\ UNCHANGED <<pc, at, by, torn, analysed, ending, status, source, frozen>>
Row(h) == mem[h].rows < Rows /\ Saves(h, [mem[h] EXCEPT !.rows = @ + 1])
Generates(h, kind) == pc[h] = "generate" /\ Kind[Study(h)] = kind
MetaRow(h) == Generates(h, "meta") /\ Row(h)
ClaimRow(h) == Generates(h, "claim") /\ Row(h)
EvidenceRow(h) ==
  /\ Generates(h, "evidence")
  /\ \/ /\ mem[h].calibrated < Extra
        /\ Saves(h, [mem[h] EXCEPT !.calibrated = @ + 1])
     \/ mem[h].calibrated = Extra /\ Row(h)
     \/ /\ mem[h].rows = Rows /\ mem[h].compared < Extra
        /\ Saves(h, [mem[h] EXCEPT !.compared = @ + 1])

(* What analyze() accepts: every expected trial and comparison, once.  It  *)
(* does not count the calibrations, which the runner makes before any row. *)
Complete(s, r) ==
  r.rows = Rows /\ (Kind[s] = "evidence" => r.compared = Extra)
EndGeneration(h) ==
  /\ pc[h] = "generate" /\ Complete(Study(h), mem[h])
  /\ Goto(h, "close")
  /\ UNCHANGED <<at, mem, files, source, frozen>>

(* The analysis process loads the frozen report: any drift of the sources  *)
(* or a report that is not complete ends it without a file.                *)
Analyse(h) ==
  LET s == Study(h)
      accepted == /\ frozen[s] = source /\ <<"report", s>> \notin torn
                  /\ Complete(s, report[s])
  IN
  /\ pc[h] = "analyse"
  /\ \/ /\ accepted /\ Create(h, <<"analysis", s>>, "bind", "failed")
        /\ analysed' = [analysed EXCEPT ![s] = report[s]]
     \/ ~accepted /\ Goto(h, "failed") /\ UNCHANGED <<by, analysed>>
  /\ UNCHANGED <<at, mem, torn, report, ending, status, source, frozen>>

(* The terminal file, then the row: after success, or in the handler, where*)
(* a terminal file that exists raises before the row is saved.             *)
WriteTerminal(h) ==
  LET f == <<"terminal", Study(h)>> IN
  /\ pc[h] \in {"finish", "failed", "cancelled"}
  /\ Create(h, f, "save", IF pc[h] = "finish" THEN "failed" ELSE "raised")
  /\ ending' = IF ~Free(f) THEN ending
               ELSE [ending EXCEPT ![Study(h)] =
                       IF pc[h] = "finish" THEN "complete" ELSE pc[h]]
  /\ UNCHANGED <<at, mem, torn, report, analysed, status, source, frozen>>
SaveRow(h) ==
  /\ pc[h] = "save"
  /\ status' = [status EXCEPT ![Study(h)] = ending[Study(h)]]
  /\ Goto(h, IF ending[Study(h)] = "complete" THEN "next" ELSE "raised")
  /\ UNCHANGED <<at, mem, by, torn, report, analysed, ending, source, frozen>>

(* A step of a study raises or is cancelled; the write of the terminal     *)
(* file may fail after the file was created.  (The analysis process of a   *)
(* cancelled study runs on, as its thread is not cancelled, and may still  *)
(* write its file: the study is over, no one reads it any more, and that   *)
(* write is left out.)                                                     *)
StudyFails(h, how) ==
  /\ pc[h] \in {"verify", "declareStudy", "openStudy", "generate", "close",
                "analyse", "bind", "finish"}
  /\ Goto(h, how)
  /\ LET f == <<"terminal", Study(h)>> IN
     \/ UNCHANGED <<by, torn>>
     \/ /\ pc[h] = "finish" /\ Free(f)
        /\ ByNow(h, f) /\ torn' = torn \cup {f}
  /\ UNCHANGED <<at, mem, report, analysed, ending, status, source, frozen>>

(* The host dies; the file its step writes may be left cut off. *)
Writes(h) ==
  CASE pc[h] = "archive" -> {<<"archive", "campaign">>}
    [] pc[h] = "declare" -> {<<"protocol", "campaign">>}
    [] pc[h] \in {"open", "next", "save"} -> {<<"report", "campaign">>}
    [] pc[h] = "declareStudy" -> {<<"protocol", Study(h)>>}
    [] pc[h] \in {"openStudy", "generate"} -> {<<"report", Study(h)>>}
    [] pc[h] = "analyse" -> {<<"analysis", Study(h)>>}
    [] pc[h] \in {"finish", "failed", "cancelled"} -> {<<"terminal", Study(h)>>}
    [] OTHER -> {}
Crash(h) ==
  /\ pc[h] \notin {"look", "returned", "raised", "dead"}
  /\ Goto(h, "dead")
  /\ \/ UNCHANGED <<by, torn>>
     \/ \E f \in Writes(h) : /\ by[f] \in {Nobody, h}
                             /\ ByNow(h, f) /\ torn' = torn \cup {f}
  /\ UNCHANGED <<at, mem, report, analysed, ending, status, source, frozen>>

EditSource ==
  /\ \E v \in 0..MaxEdits : source' = v
  /\ UNCHANGED <<pc, at, mem, files, frozen>>

CampaignNext ==
  \/ \E h \in Hosts :
       \/ Look(h) \/ Archive(h) \/ FreezeProtocol(h) \/ OpenReport(h)
       \/ NextStudy(h) \/ Verify(h)
       \/ MetaRow(h) \/ ClaimRow(h) \/ EvidenceRow(h) \/ EndGeneration(h)
       \/ Analyse(h) \/ WriteTerminal(h) \/ SaveRow(h)
       \/ StudyFails(h, "failed") \/ StudyFails(h, "cancelled")
       \/ Crash(h)
  \/ EditSource

-----------------------------------------------------------------------------
(* However many hosts are started on a directory, whenever they look and   *)
(* die, all its files are the work of one of them.  About run,             *)
(* archive_sources and freeze_protocol.                                    *)
OneAuthor ==
  \A f, g \in Files : Exists(f) /\ Exists(g) => by[f] = by[g]

(* A study counts as complete only if its terminal file says so; then its  *)
(* whole report was complete, its analysis is bound to that report, and    *)
(* it was generated under the sources of the archive.  A terminal file     *)
(* that says otherwise is the last: no later study was begun.  About run,  *)
(* verify_campaign, verify_child and load_frozen_report.                   *)
TerminalHonest ==
  \A i \in DOMAIN Order :
    LET s == Order[i] IN
    /\ status[s] = "complete" => ending[s] = "complete"
    /\ ending[s] = "complete" =>
         /\ Complete(s, report[s]) /\ <<"report", s>> \notin torn
         /\ analysed[s] = report[s]
         /\ frozen[s] = frozen["archive"]
    /\ ending[s] \in {"failed", "cancelled"} =>
         \A j \in (i + 1)..Len(Order) :
           status[Order[j]] = "none" /\ ~Exists(<<"protocol", Order[j]>>)
=============================================================================
