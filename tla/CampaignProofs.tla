---------------------------- MODULE CampaignProofs ----------------------------
(***************************************************************************)
(* Module Campaign, for any number of hosts, studies, rows and edits: the  *)
(* files of a campaign have one author, and its terminal files are honest. *)
(***************************************************************************)
EXTENDS Campaign, TLAPS

CampaignSpec == CampaignInit /\ [][CampaignNext]_campaignVars

ArchiveFile == <<"archive", "campaign">>
Steps == {"look", "archive", "declare", "open", "next", "verify", "declareStudy",
          "openStudy", "generate", "close", "analyse", "bind", "finish", "save",
          "failed", "cancelled", "raised", "returned", "dead"}

(* The steps a host reaches only by creating the archive. *)
Inside == Steps \ {"look", "archive", "raised", "returned", "dead"}

(* Who has created the archive creates every file: a host that looked      *)
(* before it was there is stopped by it.                                   *)
AInv ==
  /\ pc \in [Hosts -> Steps]
  /\ DOMAIN by = Files /\ by = [f \in Files |-> by[f]]
  /\ \A f \in Files : by[f] # Nobody => by[f] = by[ArchiveFile]
  /\ \A h \in Hosts : pc[h] \in Inside => by[ArchiveFile] = h

LEMMA ArchiveIsFile == ArchiveFile \in Files
BY DEF ArchiveFile, Files

LEMMA AuthorStart == CampaignInit => AInv
BY ArchiveIsFile DEF CampaignInit, AInv, Inside, Steps

-----------------------------------------------------------------------------
(* Steps that create no file. *)
LEMMA Quiet ==
  ASSUME AInv, NEW h \in Hosts, NEW step \in Steps, UNCHANGED by,
         pc' = [pc EXCEPT ![h] = step],
         step \in Inside => pc[h] \in Inside
  PROVE  AInv'
<1>1. \A g \in Hosts : pc'[g] = IF g = h THEN step ELSE pc[g]
  BY DEF AInv
<1>2. pc' \in [Hosts -> Steps]
  BY DEF AInv
<1> QED BY <1>1, <1>2 DEF AInv

(* A host inside creates a file, or its crash leaves one. *)
LEMMA Inner ==
  ASSUME AInv, NEW h \in Hosts, NEW step \in Steps, NEW f,
         pc[h] \in Inside, by' = [by EXCEPT ![f] = h],
         pc' = [pc EXCEPT ![h] = step]
  PROVE  AInv'
<1>1. \A g \in Hosts : pc'[g] = IF g = h THEN step ELSE pc[g]
  BY DEF AInv
<1>2. pc' \in [Hosts -> Steps]
  BY DEF AInv
<1>3. by[ArchiveFile] = h
  BY DEF AInv
<1>4. by' = [g \in Files |-> IF g = f THEN h ELSE by[g]]
  BY DEF AInv
<1>5. by'[ArchiveFile] = h /\ \A g \in Files : by'[g] \in {h, by[g]}
  BY <1>3, <1>4, ArchiveIsFile
<1> QED BY <1>1, <1>2, <1>3, <1>4, <1>5 DEF AInv

(* The archive is created: nobody had created anything. *)
LEMMA First ==
  ASSUME AInv, NEW h \in Hosts, NEW step \in Steps, by[ArchiveFile] = Nobody,
         by' = [by EXCEPT ![ArchiveFile] = h], pc' = [pc EXCEPT ![h] = step]
  PROVE  AInv'
<1>1. \A g \in Hosts : pc'[g] = IF g = h THEN step ELSE pc[g]
  BY DEF AInv
<1>2. pc' \in [Hosts -> Steps]
  BY DEF AInv
<1>3. \A g \in Hosts : pc[g] \notin Inside
  BY CampaignAssumption DEF AInv
<1>4. \A f \in Files : by[f] = Nobody
  BY DEF AInv
<1>5. by' = [g \in Files |-> IF g = ArchiveFile THEN h ELSE by[g]]
  BY DEF AInv
<1>6. by'[ArchiveFile] = h /\ \A g \in Files : by'[g] \in {h, Nobody}
  BY <1>4, <1>5, ArchiveIsFile
<1> QED BY <1>1, <1>2, <1>3, <1>5, <1>6 DEF AInv

(* open("x"), by a host inside. *)
LEMMA Created ==
  ASSUME AInv, NEW h \in Hosts, NEW f, NEW next \in Steps,
         NEW otherwise \in Steps, pc[h] \in Inside,
         Create(h, f, next, otherwise)
  PROVE  AInv'
<1>1. CASE ByNow(h, f) /\ Goto(h, next)
  BY <1>1, Inner DEF ByNow, Goto
<1>2. CASE UNCHANGED by /\ Goto(h, otherwise)
  BY <1>2, Quiet DEF Goto
<1> QED BY <1>1, <1>2 DEF Create

-----------------------------------------------------------------------------
(* The actions. *)
LEMMA CrashStep ==
  ASSUME AInv, NEW h \in Hosts, Crash(h) PROVE AInv'
<1>0. pc' = [pc EXCEPT ![h] = "dead"] /\ pc[h] \in Steps
  BY DEF Crash, Goto, AInv
<1>1. CASE UNCHANGED <<by, torn>>
  BY <1>0, <1>1, Quiet DEF Steps, Inside
<1>2. ASSUME NEW f \in Writes(h), by[f] \in {Nobody, h}, ByNow(h, f) PROVE AInv'
  <2>0. by' = [by EXCEPT ![f] = h]
    BY <1>2 DEF ByNow
  <2>1. CASE pc[h] = "archive"
    <3>1. f = ArchiveFile
      BY <1>2, <2>1 DEF Writes, ArchiveFile
    <3>2. CASE by[f] = Nobody
      BY <1>0, <2>0, <3>1, <3>2, First DEF Steps
    <3>3. CASE by[f] = h
      <4>1. by' = by
        BY <2>0, <3>1, <3>3, ArchiveIsFile DEF AInv
      <4> QED BY <1>0, <4>1, Quiet DEF Steps, Inside
    <3> QED BY <1>2, <3>2, <3>3
  <2>2. CASE pc[h] # "archive"
    <3>1. pc[h] \in Inside
      BY <1>0, <2>2 DEF Crash, Inside
    <3> QED BY <1>0, <2>0, <3>1, Inner DEF Steps
  <2> QED BY <2>1, <2>2
<1> QED BY <1>1, <1>2 DEF Crash

LEMMA FailStep ==
  ASSUME AInv, NEW h \in Hosts, NEW how \in {"failed", "cancelled"},
         StudyFails(h, how)
  PROVE  AInv'
<1>0. pc[h] \in Inside /\ how \in Steps /\ pc' = [pc EXCEPT ![h] = how]
  BY DEF StudyFails, Inside, Steps, Goto
<1>1. CASE UNCHANGED <<by, torn>>
  BY <1>0, <1>1, Quiet
<1>2. CASE ByNow(h, <<"terminal", Study(h)>>)
  BY <1>0, <1>2, Inner DEF ByNow
<1> QED BY <1>1, <1>2 DEF StudyFails

LEMMA ArchiveStep ==
  ASSUME AInv, NEW h \in Hosts, Archive(h) PROVE AInv'
<1>1. CASE Free(ArchiveFile) /\ ByNow(h, ArchiveFile) /\ Goto(h, "declare")
  BY <1>1, First DEF Free, Exists, ByNow, Goto, Steps
<1>2. CASE UNCHANGED by /\ Goto(h, "raised")
  BY <1>2, Quiet DEF Goto, Steps, Inside
<1> QED BY <1>1, <1>2 DEF Archive, Create, ArchiveFile

LEMMA FreezeStep ==
  ASSUME AInv, NEW h \in Hosts, FreezeProtocol(h) PROVE AInv'
<1>0. pc[h] \in Inside
  BY DEF FreezeProtocol, Inside, Steps
<1> DEFINE f == <<"protocol", Protocol(h)>>
<1> DEFINE study == Protocol(h) # "campaign"
<1> DEFINE next == IF study THEN "openStudy" ELSE "open"
<1> DEFINE other == IF study THEN "failed" ELSE "raised"
<1>1. \/ UNCHANGED by /\ Goto(h, other)
      \/ Create(h, f, next, other)
  BY Zenon DEF FreezeProtocol
<1>2. next \in Steps /\ other \in Steps \ {"look", "archive"}
  BY DEF Steps
<1> HIDE DEF f, next, other
<1>3. CASE UNCHANGED by /\ Goto(h, other)
  BY <1>0, <1>2, <1>3, Quiet DEF Goto, Steps
<1>4. CASE Create(h, f, next, other)
  BY <1>0, <1>2, <1>4, Created
<1> QED BY <1>1, <1>3, <1>4

LEMMA CampaignStep == AInv /\ [CampaignNext]_campaignVars => AInv'
<1> SUFFICES ASSUME AInv, [CampaignNext]_campaignVars PROVE AInv'
  OBVIOUS
<1>1. ASSUME NEW h \in Hosts, Look(h) PROVE AInv'
  <2>0. PICK seen \in BOOLEAN : Goto(h, IF seen THEN "raised" ELSE "archive")
    <3> DEFINE seen == \E f \in Files \ {<<"archive", "campaign">>} : Exists(f)
    <3>1. Goto(h, IF seen THEN "raised" ELSE "archive")
      BY <1>1 DEF Look
    <3>2. seen \in BOOLEAN
      OBVIOUS
    <3> HIDE DEF seen
    <3> QED BY <3>1, <3>2
  <2>1. PICK step \in {"raised", "archive"} : pc' = [pc EXCEPT ![h] = step]
    BY <2>0 DEF Goto
  <2>2. UNCHANGED by
    BY <1>1 DEF Look, files
  <2> QED BY <2>1, <2>2, Quiet DEF Steps, Inside
<1>2. ASSUME NEW h \in Hosts, OpenReport(h) PROVE AInv'
  <2>1. \/ Create(h, <<"report", "campaign">>, "next", "raised")
        \/ Create(h, <<"report", Study(h)>>, "generate", "failed")
    BY <1>2 DEF OpenReport
  <2>2. pc[h] \in Inside
    BY <1>2 DEF OpenReport, Inside, Steps
  <2> QED BY <2>1, <2>2, Created DEF Steps
<1>3. ASSUME NEW h \in Hosts, NextStudy(h) PROVE AInv'
  <2>1. pc[h] \in Inside /\ UNCHANGED by
    BY <1>3 DEF NextStudy, Inside, Steps
  <2>2. PICK step \in {"returned", "verify"} : pc' = [pc EXCEPT ![h] = step]
    BY <1>3 DEF NextStudy, Goto
  <2> QED BY <2>1, <2>2, Quiet DEF Steps
<1>4. ASSUME NEW h \in Hosts, Verify(h) PROVE AInv'
  <2>1. pc[h] \in Inside /\ UNCHANGED by
    BY <1>4 DEF Verify, Inside, Steps, files
  <2>2. PICK step \in {"failed", "declareStudy", "analyse", "finish"} :
          pc' = [pc EXCEPT ![h] = step]
    BY <1>4 DEF Verify, Goto
  <2> QED BY <2>1, <2>2, Quiet DEF Steps
<1>5. ASSUME NEW h \in Hosts, MetaRow(h) \/ ClaimRow(h) \/ EvidenceRow(h)
      PROVE  AInv'
  <2>1. UNCHANGED <<pc, by>>
    BY <1>5 DEF MetaRow, ClaimRow, EvidenceRow, Row, Saves
  <2> QED BY <2>1 DEF AInv
<1>6. ASSUME NEW h \in Hosts, EndGeneration(h) PROVE AInv'
  <2>1. /\ pc[h] \in Inside /\ UNCHANGED by
        /\ pc' = [pc EXCEPT ![h] = "close"]
    BY <1>6 DEF EndGeneration, Inside, Steps, files, Goto
  <2> QED BY <2>1, Quiet DEF Steps
<1>7. ASSUME NEW h \in Hosts, Analyse(h) PROVE AInv'
  <2>1. pc[h] \in Inside
    BY <1>7 DEF Analyse, Inside, Steps
  <2>2. \/ Create(h, <<"analysis", Study(h)>>, "bind", "failed")
        \/ Goto(h, "failed") /\ UNCHANGED by
    BY <1>7 DEF Analyse
  <2> QED BY <2>1, <2>2, Created, Quiet DEF Steps, Goto
<1>8. ASSUME NEW h \in Hosts, WriteTerminal(h) PROVE AInv'
  <2>1. pc[h] \in Inside
    BY <1>8 DEF WriteTerminal, Inside, Steps
  <2>2. PICK other \in {"failed", "raised"} :
          Create(h, <<"terminal", Study(h)>>, "save", other)
    BY <1>8 DEF WriteTerminal
  <2> QED BY <2>1, <2>2, Created DEF Steps
<1>9. ASSUME NEW h \in Hosts, SaveRow(h) PROVE AInv'
  <2>1. pc[h] \in Inside /\ UNCHANGED by
    BY <1>9 DEF SaveRow, Inside, Steps
  <2>2. PICK step \in {"next", "raised"} : pc' = [pc EXCEPT ![h] = step]
    BY <1>9 DEF SaveRow, Goto
  <2> QED BY <2>1, <2>2, Quiet DEF Steps
<1>10. CASE EditSource \/ UNCHANGED campaignVars
  <2>1. UNCHANGED <<pc, by>>
    BY <1>10 DEF EditSource, campaignVars, files
  <2> QED BY <2>1 DEF AInv
<1> QED
  BY <1>1, <1>2, <1>3, <1>4, <1>5, <1>6, <1>7, <1>8, <1>9, <1>10, ArchiveStep,
     FreezeStep, FailStep, CrashStep
  DEF CampaignNext

(* Any number of hosts may be started on a directory and die at any step,  *)
(* even while they create a file: its files have one author.               *)
THEOREM FilesHaveOneAuthor == CampaignSpec => []OneAuthor
<1>1. AInv => OneAuthor
  BY DEF AInv, OneAuthor, Exists
<1> QED BY <1>1, AuthorStart, CampaignStep, PTL DEF CampaignSpec

-----------------------------------------------------------------------------
(* Terminal files.  Only one host is ever inside, so what the invariant    *)
(* needs to know is how far that host is.                                  *)

(* Nothing was done for a study. *)
Clean(s) ==
  /\ status[s] = "none" /\ ending[s] = "none" /\ ~Exists(<<"protocol", s>>)

(* A study that ended well did. *)
Sound(s) ==
  /\ Complete(s, report[s]) /\ <<"report", s>> \notin torn
  /\ analysed[s] = report[s] /\ frozen[s] = frozen["archive"]

Shapes ==
  /\ \A s \in Studies : ending[s] \in {"none", "complete", "failed", "cancelled"}
  /\ DOMAIN ending = Studies /\ DOMAIN status = Studies
  /\ DOMAIN report = Studies /\ DOMAIN analysed = Studies
  /\ DOMAIN frozen = Studies \cup {"archive", "campaign"}
  /\ DOMAIN at = Hosts

(* What the files say, whoever is at work. *)
Ends ==
  /\ by[ArchiveFile] = Nobody => \A s \in Studies : Clean(s)
  /\ \A s \in Studies : status[s] = "complete" => ending[s] = "complete"
  /\ \A s \in Studies : ending[s] = "complete" => Sound(s)
  /\ \A i \in 1..Len(Order) : ending[Order[i]] \in {"failed", "cancelled"} =>
       \A j \in (i + 1)..Len(Order) :
         status[Order[j]] = "none" /\ ~Exists(<<"protocol", Order[j]>>)

Early == {"declare", "open"}  \* no study is begun
Between == Early \cup {"next", "save"}

(* How far a host is. *)
Progress(h) ==
  /\ at[h] \in 0..Len(Order)
  /\ pc[h] \in {"look", "archive"} \cup Early => at[h] = 0
  /\ pc[h] \in Inside =>
       /\ \A j \in (at[h] + 1)..Len(Order) : Clean(Order[j])
       /\ \A i \in 1..at[h] : i < at[h] \/ pc[h] = "next" =>
            ending[Order[i]] = "complete"
       /\ pc[h] \notin Early \cup {"next"} => at[h] # 0
       /\ pc[h] \notin Between => ending[Study(h)] = "none"
       /\ pc[h] \in {"analyse", "bind", "finish"} =>
            frozen[Study(h)] = frozen["archive"]
       /\ pc[h] \in {"bind", "finish"} =>
            Complete(Study(h), report[Study(h)]) /\ <<"report", Study(h)>> \notin torn
       /\ pc[h] = "finish" => analysed[Study(h)] = report[Study(h)]

TInv == AInv /\ Shapes /\ Ends /\ \A h \in Hosts : Progress(h)

LEMMA OrderFacts ==
  /\ Len(Order) \in Nat
  /\ \A i \in 1..Len(Order) : Order[i] \in Studies
  /\ \A i, j \in 1..Len(Order) : Order[i] = Order[j] => i = j
  /\ \A s \in Studies : \E i \in 1..Len(Order) : s = Order[i]
  /\ "archive" \notin Studies /\ "campaign" \notin Studies
  /\ \A s \in Studies : <<"protocol", s>> \in Files
<1>1. DOMAIN Order = 1..Len(Order) /\ Len(Order) \in Nat
  BY CampaignAssumption
<1>2. \A s \in Studies : <<"protocol", s>> \in Files
  BY DEF Files
<1> QED BY <1>1, <1>2, CampaignAssumption DEF Studies, ToSet, IsInjective

LEMMA HonestStart == CampaignInit => TInv
<1> SUFFICES ASSUME CampaignInit PROVE TInv
  OBVIOUS
<1>1. Shapes
  BY DEF CampaignInit, Shapes
<1>2. \A s \in Studies : Clean(s)
  BY OrderFacts DEF CampaignInit, Clean, Exists
<1>3. \A s \in Studies : status[s] = "none" /\ ending[s] = "none"
  BY DEF CampaignInit
<1>4. Ends
  BY <1>2, <1>3, OrderFacts DEF Ends
<1>5. \A h \in Hosts : Progress(h)
  BY OrderFacts DEF CampaignInit, Progress, Inside
<1> QED BY <1>1, <1>4, <1>5, AuthorStart DEF TInv

(* Only the host that acts has moved, and no other is inside. *)
LEMMA Alone ==
  ASSUME TInv, AInv', NEW h \in Hosts, pc[h] \in Inside,
         \A g \in Hosts \ {h} : pc'[g] = pc[g] /\ at'[g] = at[g],
         Shapes', Ends', Progress(h)'
  PROVE  TInv'
<1>1. \A g \in Hosts \ {h} : pc[g] \notin Inside
  BY DEF TInv, AInv
<1>2. ASSUME NEW g \in Hosts \ {h} PROVE Progress(g)'
  <2>1. pc'[g] = pc[g] /\ at'[g] = at[g] /\ pc'[g] \notin Inside /\ Progress(g)
    BY <1>1 DEF TInv
  <2> QED BY <2>1 DEF Progress, Inside, Early, Steps
<1> QED BY <1>2 DEF TInv

(* A host steps and nothing but its step changes. *)
LEMMA Steps_Only ==
  ASSUME TInv, AInv', NEW h \in Hosts, NEW step \in Steps,
         pc' = [pc EXCEPT ![h] = step],
         UNCHANGED <<at, files, frozen>>, Progress(h)'
  PROVE  TInv'
<1>1. \A g \in Hosts \ {h} : pc'[g] = pc[g]
  BY DEF TInv, AInv
<1>2. ASSUME NEW g \in Hosts \ {h} PROVE Progress(g)'
  <2>1. pc'[g] = pc[g] /\ Progress(g)
    BY <1>1 DEF TInv
  <2> QED BY <2>1 DEF Progress, Study, Clean, Exists, Complete, files
<1>3. Shapes' /\ Ends'
  BY DEF TInv, Shapes, Ends, Clean, Exists, Sound, Complete, files
<1> QED BY <1>2, <1>3 DEF TInv

(* What h creates. *)
LEMMA Makes ==
  ASSUME AInv, NEW h \in Hosts, NEW f, by[ArchiveFile] = h,
         by' = by \/ by' = [by EXCEPT ![f] = h]
  PROVE  /\ \A g \in Files : Exists(g)' => g = f \/ Exists(g)
         /\ by'[ArchiveFile] = h /\ h # Nobody
<1>1. \A g \in Files : by'[g] = by[g] \/ (g = f /\ by'[g] = h)
  BY DEF AInv
<1>2. by'[ArchiveFile] = h
  BY <1>1, ArchiveIsFile
<1> QED BY <1>1, <1>2, CampaignAssumption DEF Exists

(* The endings while h is inside. *)
LEMMA EndsInside ==
  ASSUME TInv, NEW h \in Hosts, pc[h] \in Inside
  PROVE  /\ at[h] \in 0..Len(Order) /\ by[ArchiveFile] = h /\ h # Nobody
         /\ \A i \in 1..Len(Order) : ending[Order[i]] \in {"failed", "cancelled"}
              => i = at[h] /\ pc[h] = "save"
         /\ at[h] # 0 => at[h] \in 1..Len(Order) /\ Study(h) \in Studies
<1>1. Progress(h) /\ by[ArchiveFile] = h /\ h # Nobody
  BY CampaignAssumption DEF TInv, AInv
<1>2. at[h] \in 0..Len(Order)
  BY <1>1 DEF Progress
<1>3. at[h] # 0 => at[h] \in 1..Len(Order) /\ Study(h) \in Studies
  BY <1>2, OrderFacts DEF Study
<1>4. ASSUME NEW i \in 1..Len(Order), ending[Order[i]] \in {"failed", "cancelled"}
      PROVE  i = at[h] /\ pc[h] = "save"
  <2>1. ~(i < at[h])
    BY <1>1, <1>2, <1>4, OrderFacts DEF Progress
  <2>a. \A j \in (at[h] + 1)..Len(Order) : Clean(Order[j])
    BY <1>1 DEF Progress
  <2>2. ~(i > at[h])
    <3> SUFFICES ASSUME i > at[h] PROVE FALSE
      OBVIOUS
    <3>1. i \in (at[h] + 1)..Len(Order)
      BY <1>2, OrderFacts
    <3>2. ending[Order[i]] = "none"
      BY <2>a, <3>1 DEF Clean
    <3> QED BY <1>4, <3>2
  <2>3. i = at[h]
    BY <1>2, <2>1, <2>2, OrderFacts
  <2>4. pc[h] \notin Early
    BY <1>1, <2>3 DEF Progress
  <2>5. pc[h] # "next"
    BY <1>1, <1>4, <2>3 DEF Progress
  <2>6. pc[h] \in Between
    BY <1>1, <1>4, <2>3 DEF Progress, Study
  <2> QED BY <2>3, <2>4, <2>5, <2>6 DEF Between
<1> QED BY <1>1, <1>2, <1>3, <1>4

(* What a step leaves of the studies that ended well. *)
Untouched ==
  /\ frozen'["archive"] = frozen["archive"]
  /\ \A s \in Studies : ending[s] = "complete" =>
       /\ report'[s] = report[s] /\ analysed'[s] = analysed[s]
       /\ frozen'[s] = frozen[s]

(* A step of a host inside that ends no study, and creates no protocol but *)
(* that of its study.                                                      *)
LEMMA Keeps ==
  ASSUME TInv, NEW h \in Hosts, pc[h] \in Inside, Shapes', Untouched,
         UNCHANGED <<at, ending, status>>,
         by'[ArchiveFile] = h,
         \A s \in Studies : Exists(<<"protocol", s>>)' =>
           Exists(<<"protocol", s>>) \/ (at[h] # 0 /\ s = Study(h)),
         \A s \in Studies : <<"report", s>> \in torn' =>
           <<"report", s>> \in torn \/ ending[s] # "complete"
  PROVE  /\ Ends'
         /\ \A j \in (at[h] + 1)..Len(Order) : Clean(Order[j])'
<1>0. /\ at[h] \in 0..Len(Order) /\ h # Nobody
      /\ at[h] # 0 => at[h] \in 1..Len(Order) /\ Study(h) \in Studies
      /\ \A i \in 1..Len(Order) : ending[Order[i]] \in {"failed", "cancelled"}
              => i = at[h] /\ pc[h] = "save"
  BY EndsInside
<1>2. \A j \in (at[h] + 1)..Len(Order) :
        Order[j] \in Studies /\ (at[h] # 0 => Order[j] # Study(h))
  BY <1>0, OrderFacts DEF Study
<1>3. ASSUME NEW j \in (at[h] + 1)..Len(Order) PROVE Clean(Order[j])'
  <2>1. Clean(Order[j])
    BY DEF TInv, Progress
  <2> QED BY <1>2, <2>1 DEF Clean
<1>4. Ends'
  <2>1. \A s \in Studies : ending'[s] = "complete" => Sound(s)'
    BY DEF TInv, Ends, Sound, Complete, Untouched
  <2>2. \A s \in Studies : status'[s] = "complete" => ending'[s] = "complete"
    BY DEF TInv, Ends
  <2>3. ASSUME NEW i \in 1..Len(Order),
               ending'[Order[i]] \in {"failed", "cancelled"},
               NEW j \in (i + 1)..Len(Order)
        PROVE  status'[Order[j]] = "none" /\ ~Exists(<<"protocol", Order[j]>>)'
    <3>1. i = at[h]
      BY <1>0, <2>3
    <3> QED BY <1>3, <3>1 DEF Clean
  <2> QED BY <1>0, <2>1, <2>2, <2>3 DEF Ends
<1> QED BY <1>3, <1>4

-----------------------------------------------------------------------------
(* The actions again.  Each keeps AInv by CampaignStep. *)
LEMMA LookHonest ==
  ASSUME TInv, AInv', NEW h \in Hosts, Look(h) PROVE TInv'
<1> DEFINE seen == \E f \in Files \ {<<"archive", "campaign">>} : Exists(f)
<1> DEFINE step == IF seen THEN "raised" ELSE "archive"
<1>1. pc[h] = "look" /\ Goto(h, step) /\ UNCHANGED <<at, files, frozen>>
  BY DEF Look
<1>2. step \in {"raised", "archive"}
  OBVIOUS
<1> HIDE DEF step
<1>3. pc' = [pc EXCEPT ![h] = step] /\ pc'[h] = step
  BY <1>1 DEF Goto, TInv, AInv
<1>4. at[h] \in 0..Len(Order) /\ at[h] = 0
  BY <1>1 DEF TInv, Progress
<1>5. Progress(h)'
  BY <1>1, <1>2, <1>3, <1>4 DEF Progress, Inside
<1> QED BY <1>1, <1>2, <1>3, <1>5, Steps_Only DEF Steps

LEMMA ArchiveHonest ==
  ASSUME TInv, AInv', NEW h \in Hosts, Archive(h) PROVE TInv'
<1>0. /\ pc[h] = "archive" /\ at[h] = 0
      /\ UNCHANGED <<at, torn, report, analysed, ending, status>>
  BY DEF Archive, TInv, Progress
<1>1. CASE ~Free(ArchiveFile)
  <2>1. UNCHANGED <<by, frozen>> /\ Goto(h, "raised")
    BY <1>1 DEF Archive, Create, ArchiveFile
  <2>2. pc' = [pc EXCEPT ![h] = "raised"] /\ pc'[h] = "raised"
    BY <2>1 DEF Goto, TInv, AInv
  <2>3. Progress(h)'
    BY <1>0, <2>2, OrderFacts DEF Progress, Inside, Early
  <2> QED BY <1>0, <2>1, <2>2, <2>3, Steps_Only DEF Steps, files
<1>2. CASE Free(ArchiveFile)
  <2>1. /\ by' = [by EXCEPT ![ArchiveFile] = h] /\ pc' = [pc EXCEPT ![h] = "declare"]
        /\ frozen' = [frozen EXCEPT !["archive"] = source]
    BY <1>2 DEF Archive, Create, ArchiveFile, ByNow, Goto
  <2>2. by[ArchiveFile] = Nobody /\ h # Nobody
    BY <1>2, CampaignAssumption DEF Free, Exists
  <2>3. \A g \in Hosts : pc[g] \notin Inside
    BY <2>2, CampaignAssumption DEF TInv, AInv
  <2>4. \A s \in Studies : Clean(s)
    BY <2>2 DEF TInv, Ends
  <2>5. \A s \in Studies : Clean(s)'
    <3>1. \A s \in Studies : by'[<<"protocol", s>>] = by[<<"protocol", s>>]
      BY <2>1, OrderFacts DEF TInv, AInv, ArchiveFile
    <3> QED BY <1>0, <2>4, <3>1 DEF Clean, Exists
  <2>6. \A s \in Studies : ending'[s] = "none" /\ status'[s] = "none"
    BY <2>5 DEF Clean
  <2>7. Shapes' /\ Ends'
    <3>1. by'[ArchiveFile] = h
      BY <2>1, ArchiveIsFile DEF TInv, AInv
    <3>2. Ends'
      BY <2>2, <2>5, <2>6, <3>1, OrderFacts DEF Ends
    <3> QED BY <1>0, <2>1, <3>2 DEF TInv, Shapes
  <2>8. ASSUME NEW g \in Hosts PROVE Progress(g)'
    <3>1. CASE g = h
      <4>1. pc'[h] = "declare" /\ at'[h] = 0
        BY <1>0, <2>1 DEF TInv, AInv
      <4> QED BY <2>5, <3>1, <4>1, OrderFacts DEF Progress, Early, Between
    <3>2. CASE g # h
      <4>1. pc'[g] = pc[g] /\ at'[g] = at[g] /\ Progress(g)
        BY <1>0, <2>1, <3>2 DEF TInv, AInv
      <4> QED BY <2>3, <4>1 DEF Progress
    <3> QED BY <3>1, <3>2
  <2> QED BY <2>7, <2>8 DEF TInv
<1> QED BY <1>1, <1>2

(* A host inside goes to a step that needs no more than the last one knew. *)
LEMMA Goes ==
  ASSUME TInv, AInv', NEW h \in Hosts, NEW step \in Steps, pc[h] \in Inside,
         pc' = [pc EXCEPT ![h] = step], Shapes', Untouched,
         UNCHANGED <<at, ending, status>>,
         by'[ArchiveFile] = h,
         \A s \in Studies : Exists(<<"protocol", s>>)' =>
           Exists(<<"protocol", s>>) \/ (at[h] # 0 /\ s = Study(h)),
         \A s \in Studies : <<"report", s>> \in torn' =>
           <<"report", s>> \in torn \/ ending[s] # "complete",
         step \notin {"look", "archive", "declare"}, step = "open" => at[h] = 0,
         step = "next" => \A i \in 1..at[h] : ending[Order[i]] = "complete",
         step \in Inside \ {"next", "open"} =>
           at[h] # 0 /\ ending[Study(h)] = "none",
         step \in {"analyse", "bind", "finish"} =>
           frozen'[Study(h)] = frozen["archive"],
         step \in {"bind", "finish"} =>
           Complete(Study(h), report'[Study(h)]) /\ <<"report", Study(h)>> \notin torn',
         step = "finish" => analysed'[Study(h)] = report'[Study(h)]
  PROVE  TInv'
<1>1. /\ Ends'
      /\ \A j \in (at[h] + 1)..Len(Order) : Clean(Order[j])'
  BY Keeps
<1>2. /\ pc'[h] = step /\ at'[h] = at[h] /\ Study(h)' = Study(h)
      /\ \A g \in Hosts \ {h} : pc'[g] = pc[g] /\ at'[g] = at[g]
  BY DEF TInv, AInv, Study
<1>3. Progress(h)'
  <2>1. at[h] \in 0..Len(Order)
    BY EndsInside
  <2>2. \A i \in 1..at[h] : i < at[h] => ending[Order[i]] = "complete"
    BY DEF TInv, Progress
  <2>3. /\ step \notin Early \cup {"next"} /\ step \in Inside => at[h] # 0
        /\ step \in {"look", "archive"} \cup Early => at[h] = 0
    BY DEF Early
  <2>4. /\ \A i \in 1..at[h] : i < at[h] \/ step = "next" => ending'[Order[i]] = "complete"
        /\ \A j \in (at'[h] + 1)..Len(Order) : Clean(Order[j])'
    BY <1>1, <1>2, <2>2
  <2>5. /\ step \in Inside \ Between => ending'[Study(h)'] = "none"
        /\ step \in {"analyse", "bind", "finish"} =>
             frozen'[Study(h)'] = frozen'["archive"]
        /\ step \in {"bind", "finish"} =>
             /\ Complete(Study(h), report[Study(h)])'
             /\ <<"report", Study(h)'>> \notin torn'
        /\ step = "finish" => analysed'[Study(h)'] = report'[Study(h)']
    BY <1>2 DEF Between, Early, Complete, Untouched
  <2> QED BY <1>2, <2>1, <2>3, <2>4, <2>5 DEF Progress
<1> QED BY <1>1, <1>2, <1>3, Alone

(* What is known of a host that works on a study. *)
LEMMA Working ==
  ASSUME TInv, NEW h \in Hosts, pc[h] \in Inside, pc[h] \notin Between
  PROVE  /\ at[h] # 0 /\ Study(h) \in Studies /\ ending[Study(h)] = "none"
         /\ by[ArchiveFile] = h
         /\ pc[h] \in {"analyse", "bind", "finish"} =>
              frozen[Study(h)] = frozen["archive"]
         /\ pc[h] \in {"bind", "finish"} =>
              /\ Complete(Study(h), report[Study(h)])
              /\ <<"report", Study(h)>> \notin torn
         /\ pc[h] = "finish" => analysed[Study(h)] = report[Study(h)]
<1>1. Progress(h)
  BY DEF TInv
<1>2. at[h] # 0
  BY <1>1 DEF Progress, Between
<1> QED BY <1>1, <1>2, EndsInside DEF Progress

LEMMA RowHonest ==
  ASSUME TInv, AInv', NEW h \in Hosts, NEW r, pc[h] = "generate", Saves(h, r)
  PROVE  TInv'
<1>1. /\ at[h] # 0 /\ Study(h) \in Studies /\ ending[Study(h)] = "none"
      /\ by[ArchiveFile] = h
  BY Working DEF Inside, Steps, Between, Early
<1>2. /\ UNCHANGED <<pc, at, by, torn, analysed, ending, status, frozen>>
      /\ report' = [report EXCEPT ![Study(h)] = r]
  BY DEF Saves
<1>3. Shapes' /\ Untouched
  BY <1>1, <1>2 DEF TInv, Shapes, Untouched
<1>4. pc' = [pc EXCEPT ![h] = "generate"]
  BY <1>2 DEF TInv, AInv
<1> QED BY <1>1, <1>2, <1>3, <1>4, Goes DEF Inside, Steps, Exists

LEMMA OpenHonest ==
  ASSUME TInv, AInv', NEW h \in Hosts, OpenReport(h) PROVE TInv'
<1>0. /\ UNCHANGED <<at, torn, report, analysed, ending, status, frozen>>
      /\ pc[h] \in {"open", "openStudy"} /\ by[ArchiveFile] = h
      /\ pc[h] \in Inside
  BY DEF OpenReport, TInv, AInv, Inside, Steps
<1>1. Shapes' /\ Untouched
  BY <1>0 DEF TInv, Shapes, Untouched
<1>2. PICK x \in Studies \cup {"campaign"}, step \in {"next", "generate", "failed", "raised"} :
        /\ by' = by \/ by' = [by EXCEPT ![<<"report", x>>] = h]
        /\ pc' = [pc EXCEPT ![h] = step]
        /\ pc[h] = "open" => step \in {"next", "raised"}
        /\ pc[h] = "openStudy" => step \in {"generate", "failed"}
  <2>1. CASE pc[h] = "open"
    BY <2>1 DEF OpenReport, Create, ByNow, Goto
  <2>2. CASE pc[h] = "openStudy"
    <3>1. Study(h) \in Studies
      BY <1>0, <2>2, Working DEF Between, Early
    <3>2. Create(h, <<"report", Study(h)>>, "generate", "failed")
      BY <2>2 DEF OpenReport
    <3>3. PICK step \in {"generate", "failed"} :
            /\ by' = by \/ by' = [by EXCEPT ![<<"report", Study(h)>>] = h]
            /\ pc' = [pc EXCEPT ![h] = step]
      BY <3>2 DEF Create, ByNow, Goto
    <3> QED BY <2>2, <3>1, <3>3
  <2> QED BY <1>0, <2>1, <2>2
<1>3. /\ \A g \in Files : Exists(g)' => g = <<"report", x>> \/ Exists(g)
      /\ by'[ArchiveFile] = h
  BY <1>0, <1>2, Makes DEF TInv
<1>4. \A s \in Studies : Exists(<<"protocol", s>>)' => Exists(<<"protocol", s>>)
  BY <1>3, OrderFacts
<1>5. CASE pc[h] = "open"
  <2>1. at[h] = 0
    BY <1>5 DEF TInv, Progress, Early
  <2>2. step \in {"next", "raised"} /\ \A i \in 1..at[h] : FALSE
    BY <1>2, <1>5, <2>1
  <2>3. /\ step \in Steps /\ step \notin {"look", "archive", "declare", "open"}
        /\ step \notin Inside \ {"next", "open"}
        /\ step \notin {"analyse", "bind", "finish"}
    BY <2>2 DEF Inside, Steps
  <2> QED BY <1>0, <1>1, <1>2, <1>3, <1>4, <2>2, <2>3, Goes
<1>6. CASE pc[h] = "openStudy"
  <2>1. at[h] # 0 /\ ending[Study(h)] = "none"
    BY <1>0, <1>6, Working DEF Between, Early
  <2> QED BY <1>0, <1>1, <1>2, <1>3, <1>4, <1>6, <2>1, Goes DEF Steps
<1> QED BY <1>0, <1>5, <1>6

LEMMA FreezeHonest ==
  ASSUME TInv, AInv', NEW h \in Hosts, FreezeProtocol(h) PROVE TInv'
<1> DEFINE k == Protocol(h)
<1> DEFINE f == <<"protocol", k>>
<1> DEFINE next == IF k # "campaign" THEN "openStudy" ELSE "open"
<1> DEFINE other == IF k # "campaign" THEN "failed" ELSE "raised"
<1>0. /\ UNCHANGED <<at, torn, report, analysed, ending, status>>
      /\ pc[h] \in {"declare", "declareStudy"} /\ by[ArchiveFile] = h
      /\ pc[h] \in Inside
  BY DEF FreezeProtocol, TInv, AInv, Inside, Steps
<1>1. /\ pc[h] = "declare" => k = "campaign" /\ at[h] = 0
      /\ pc[h] = "declareStudy" =>
           k = Study(h) /\ at[h] # 0 /\ k \in Studies /\ ending[k] = "none"
  <2>1. pc[h] = "declare" => at[h] = 0
    BY DEF TInv, Progress, Early
  <2>2. pc[h] = "declareStudy" =>
          at[h] # 0 /\ Study(h) \in Studies /\ ending[Study(h)] = "none"
    BY <1>0, Working DEF Between, Early
  <2> QED BY <2>1, <2>2 DEF Protocol
<1>2. /\ by' = by \/ by' = [by EXCEPT ![f] = h]
      /\ frozen' = frozen \/ frozen' = [frozen EXCEPT ![k] = source]
      /\ Goto(h, next) \/ Goto(h, other)
  BY Zenon DEF FreezeProtocol, Create, ByNow
<1>3. PICK step \in {next, other} : pc' = [pc EXCEPT ![h] = step]
  BY <1>2 DEF Goto
<1>4. /\ \A g \in Files : Exists(g)' => g = f \/ Exists(g)
      /\ by'[ArchiveFile] = h
  BY <1>0, <1>2, Makes DEF TInv
<1>5. \A s \in Studies : Exists(<<"protocol", s>>)' =>
        Exists(<<"protocol", s>>) \/ s = k
  BY <1>4, OrderFacts
<1>6. k # "archive"
  BY <1>0, <1>1, OrderFacts
<1>7. Shapes' /\ Untouched
  <2>1. /\ DOMAIN frozen' = Studies \cup {"archive", "campaign"}
        /\ \A s \in Studies \cup {"archive"} : s # k => frozen'[s] = frozen[s]
    BY <1>2 DEF TInv, Shapes
  <2>2. \A s \in Studies : ending[s] = "complete" => s # k
    BY <1>0, <1>1, OrderFacts
  <2> QED BY <1>0, <1>6, <2>1, <2>2 DEF TInv, Shapes, Untouched
<1>8. CASE pc[h] = "declare"
  <2>1. step \in {"open", "raised"} /\ at[h] = 0
    BY <1>1, <1>8
  <2>2. \A s \in Studies : Exists(<<"protocol", s>>)' => Exists(<<"protocol", s>>)
    BY <1>1, <1>5, <1>8, OrderFacts
  <2> QED BY <1>0, <1>3, <1>4, <1>7, <2>1, <2>2, Goes DEF Inside, Steps
<1>9. CASE pc[h] = "declareStudy"
  <2>1. /\ step \in {"openStudy", "failed"} /\ k = Study(h)
        /\ at[h] # 0 /\ ending[Study(h)] = "none"
    BY <1>1, <1>9, OrderFacts
  <2> HIDE DEF k
  <2> QED BY <1>0, <1>3, <1>4, <1>5, <1>7, <2>1, Goes DEF Steps
<1> QED BY <1>0, <1>8, <1>9

LEMMA VerifyHonest ==
  ASSUME TInv, AInv', NEW h \in Hosts, Verify(h) PROVE TInv'
<1>0. /\ UNCHANGED <<at, by, torn, report, analysed, ending, status, frozen>>
      /\ pc[h] \in {"verify", "close", "bind"} /\ pc[h] \in Inside
      /\ pc[h] \notin Between
  BY DEF Verify, files, Inside, Steps, Between, Early
<1>1. Shapes' /\ Untouched
  BY <1>0 DEF TInv, Shapes, Untouched
<1>2. /\ at[h] # 0 /\ ending[Study(h)] = "none" /\ by'[ArchiveFile] = h
      /\ pc[h] = "bind" =>
           /\ frozen[Study(h)] = frozen["archive"]
           /\ Complete(Study(h), report[Study(h)])
           /\ <<"report", Study(h)>> \notin torn
  BY <1>0, Working
<1>3. PICK step \in {"failed", "declareStudy", "analyse", "finish"} :
        /\ pc' = [pc EXCEPT ![h] = step]
        /\ step = "analyse" => frozen[Study(h)] = frozen["archive"]
        /\ step = "finish" =>
             pc[h] = "bind" /\ analysed[Study(h)] = report[Study(h)]
  <2>1. CASE pc[h] = "verify"
    BY <2>1 DEF Verify, Goto
  <2>2. CASE pc[h] = "close"
    BY <2>2 DEF Verify, Goto, SameSources, SameChild
  <2>3. CASE pc[h] = "bind"
    BY <2>3 DEF Verify, Goto
  <2> QED BY <1>0, <2>1, <2>2, <2>3
<1> QED BY <1>0, <1>1, <1>2, <1>3, Goes DEF Exists, Steps

LEMMA GenerationHonest ==
  ASSUME TInv, AInv', NEW h \in Hosts, EndGeneration(h) PROVE TInv'
<1>0. /\ UNCHANGED <<at, by, torn, report, analysed, ending, status, frozen>>
      /\ pc[h] \in Inside /\ pc[h] \notin Between
      /\ pc' = [pc EXCEPT ![h] = "close"]
  BY DEF EndGeneration, files, Inside, Steps, Between, Early, Goto
<1>1. Shapes' /\ Untouched
  BY <1>0 DEF TInv, Shapes, Untouched
<1>2. at[h] # 0 /\ ending[Study(h)] = "none" /\ by'[ArchiveFile] = h
  BY <1>0, Working
<1> QED BY <1>0, <1>1, <1>2, Goes DEF Exists, Steps

LEMMA AnalyseHonest ==
  ASSUME TInv, AInv', NEW h \in Hosts, Analyse(h) PROVE TInv'
<1> DEFINE f == <<"analysis", Study(h)>>
<1>0. /\ UNCHANGED <<at, torn, report, ending, status, frozen>>
      /\ pc[h] = "analyse" /\ pc[h] \in Inside /\ pc[h] \notin Between
  BY DEF Analyse, Inside, Steps, Between, Early
<1>1. /\ at[h] # 0 /\ Study(h) \in Studies /\ ending[Study(h)] = "none"
      /\ by[ArchiveFile] = h /\ frozen[Study(h)] = frozen["archive"]
  BY <1>0, Working
<1>2. PICK step \in {"bind", "failed"} :
        /\ by' = by \/ by' = [by EXCEPT ![f] = h]
        /\ pc' = [pc EXCEPT ![h] = step]
        /\ step = "bind" =>
             /\ Complete(Study(h), report[Study(h)])
             /\ <<"report", Study(h)>> \notin torn
  <2>1. CASE Goto(h, "failed") /\ UNCHANGED by
    BY <2>1 DEF Goto
  <2>2. CASE /\ Complete(Study(h), report[Study(h)])
             /\ <<"report", Study(h)>> \notin torn
             /\ Create(h, f, "bind", "failed")
    <3>1. \/ by' = [by EXCEPT ![f] = h] /\ pc' = [pc EXCEPT ![h] = "bind"]
          \/ by' = by /\ pc' = [pc EXCEPT ![h] = "failed"]
      BY <2>2 DEF Create, ByNow, Goto
    <3> QED BY <2>2, <3>1
  <2> QED BY <2>1, <2>2 DEF Analyse
<1>3. /\ \A g \in Files : Exists(g)' => g = f \/ Exists(g)
      /\ by'[ArchiveFile] = h
  BY <1>1, <1>2, Makes DEF TInv
<1>4. \A s \in Studies : Exists(<<"protocol", s>>)' => Exists(<<"protocol", s>>)
  BY <1>3, OrderFacts
<1>5. Shapes' /\ Untouched
  <2>1. /\ DOMAIN analysed' = Studies
        /\ \A s \in Studies : s # Study(h) => analysed'[s] = analysed[s]
    BY <1>1 DEF Analyse, TInv, Shapes
  <2> QED BY <1>0, <1>1, <2>1 DEF TInv, Shapes, Untouched
<1> QED BY <1>0, <1>1, <1>2, <1>3, <1>4, <1>5, Goes DEF Steps

LEMMA FailHonest ==
  ASSUME TInv, AInv', NEW h \in Hosts, NEW how \in {"failed", "cancelled"},
         StudyFails(h, how)
  PROVE  TInv'
<1> DEFINE f == <<"terminal", Study(h)>>
<1>0. /\ UNCHANGED <<at, report, analysed, ending, status, frozen>>
      /\ pc[h] \in Inside /\ pc[h] \notin Between
      /\ pc' = [pc EXCEPT ![h] = how]
      /\ by' = by \/ by' = [by EXCEPT ![f] = h]
      /\ torn' \subseteq torn \cup {f}
  BY DEF StudyFails, Inside, Steps, Between, Early, Goto, ByNow
<1>1. at[h] # 0 /\ ending[Study(h)] = "none" /\ by[ArchiveFile] = h
  BY <1>0, Working
<1>2. /\ \A g \in Files : Exists(g)' => g = f \/ Exists(g)
      /\ by'[ArchiveFile] = h
  BY <1>0, <1>1, Makes DEF TInv
<1>3. \A s \in Studies : /\ Exists(<<"protocol", s>>)' => Exists(<<"protocol", s>>)
                         /\ <<"report", s>> \in torn' => <<"report", s>> \in torn
  BY <1>0, <1>2, OrderFacts
<1>4. Shapes' /\ Untouched
  BY <1>0 DEF TInv, Shapes, Untouched
<1> QED BY <1>0, <1>1, <1>2, <1>3, <1>4, Goes DEF Steps

LEMMA CrashHonest ==
  ASSUME TInv, AInv', NEW h \in Hosts, Crash(h) PROVE TInv'
<1>0. /\ UNCHANGED <<at, report, analysed, ending, status, frozen>>
      /\ pc[h] \in Inside \cup {"archive"}
      /\ pc' = [pc EXCEPT ![h] = "dead"]
  BY DEF Crash, Goto, TInv, AInv, Inside
<1>1. Shapes' /\ Untouched
  BY <1>0 DEF TInv, Shapes, Untouched
<1>2. CASE UNCHANGED <<by, torn>>
  <2>1. at[h] \in 0..Len(Order) /\ pc'[h] = "dead"
    BY <1>0 DEF TInv, AInv, Progress
  <2>2. Progress(h)'
    BY <1>0, <2>1 DEF Progress, Inside, Early
  <2> QED BY <1>0, <1>2, <2>2, Steps_Only DEF Steps, files
<1>3. ASSUME NEW f \in Writes(h), by[f] \in {Nobody, h}, ByNow(h, f),
             torn' = torn \cup {f}
      PROVE  TInv'
  <2>0. by' = [by EXCEPT ![f] = h]
    BY <1>3 DEF ByNow
  <2>1. CASE pc[h] = "archive"
    <3>1. f = ArchiveFile
      BY <2>1 DEF Writes, ArchiveFile
    <3>2. at[h] = 0 /\ \A s \in Studies : <<"report", s>> # f /\ <<"protocol", s>> # f
      BY <2>1, <3>1, OrderFacts DEF TInv, Progress, ArchiveFile
    <3>3. \A g \in Files : g # ArchiveFile => by'[g] = by[g]
      BY <2>0, <3>1 DEF TInv, AInv
    <3>4. by'[ArchiveFile] = h /\ h # Nobody
      BY <2>0, <3>1, ArchiveIsFile, CampaignAssumption DEF TInv, AInv
    <3>5. \A s \in Studies : /\ by'[<<"protocol", s>>] = by[<<"protocol", s>>]
                             /\ <<"report", s>> \in torn' => <<"report", s>> \in torn
      BY <1>3, <3>1, <3>2, <3>3, OrderFacts
    <3>6. Ends'
      <4>1. \A s \in Studies : ending'[s] = "complete" => Sound(s)'
        BY <1>0, <3>5 DEF TInv, Ends, Sound, Complete
      <4>2. \A i \in 1..Len(Order) : \A j \in (i + 1)..Len(Order) :
              by'[<<"protocol", Order[j]>>] = by[<<"protocol", Order[j]>>]
        <5> SUFFICES ASSUME NEW i \in 1..Len(Order), NEW j \in (i + 1)..Len(Order)
                     PROVE  by'[<<"protocol", Order[j]>>] = by[<<"protocol", Order[j]>>]
          OBVIOUS
        <5>1. j \in 1..Len(Order)
          BY OrderFacts
        <5> QED BY <3>5, <5>1, OrderFacts
      <4>3. /\ \A s \in Studies : status[s] = "complete" => ending[s] = "complete"
            /\ \A i \in 1..Len(Order) :
                 ending[Order[i]] \in {"failed", "cancelled"} =>
                   \A j \in (i + 1)..Len(Order) : status[Order[j]] = "none"
                     /\ ~Exists(<<"protocol", Order[j]>>)
        BY DEF TInv, Ends
      <4> QED BY <1>0, <3>4, <4>1, <4>2, <4>3 DEF Ends, Exists
    <3>7. ASSUME NEW g \in Hosts PROVE Progress(g)'
      <4>1. CASE g = h
        <5>1. pc'[h] = "dead" /\ at'[h] = 0
          BY <1>0, <3>2 DEF TInv, AInv
        <5> QED BY <4>1, <5>1, OrderFacts DEF Progress, Inside
      <4>2. CASE g # h
        <5>1. pc'[g] = pc[g] /\ at'[g] = at[g] /\ Progress(g)
          BY <1>0, <4>2 DEF TInv, AInv
        <5>2. pc'[g] \notin Inside
          BY <3>4, <4>2 DEF AInv
        <5> QED BY <5>1, <5>2 DEF Progress
      <4> QED BY <4>1, <4>2
    <3> QED BY <1>1, <3>6, <3>7 DEF TInv
  <2>2. CASE pc[h] \in Inside
    <3>1. by[ArchiveFile] = h
      BY <2>2 DEF TInv, AInv
    <3>2. /\ \A g \in Files : Exists(g)' => g = f \/ Exists(g)
          /\ by'[ArchiveFile] = h
      BY <2>0, <3>1, Makes DEF TInv
    <3>3. /\ \A s \in Studies : f = <<"protocol", s>> =>
               pc[h] = "declareStudy" /\ s = Study(h)
          /\ \A s \in Studies : f = <<"report", s>> =>
               pc[h] \in {"openStudy", "generate"} /\ s = Study(h)
      BY <2>2, OrderFacts DEF Writes
    <3>4. pc[h] \in {"declareStudy", "openStudy", "generate"} =>
            at[h] # 0 /\ ending[Study(h)] = "none"
      BY <2>2, Working DEF Between, Early
    <3>5. \A s \in Studies :
            /\ Exists(<<"protocol", s>>)' =>
                 Exists(<<"protocol", s>>) \/ (at[h] # 0 /\ s = Study(h))
            /\ <<"report", s>> \in torn' =>
                 <<"report", s>> \in torn \/ ending[s] # "complete"
      BY <1>3, <3>2, <3>3, <3>4, OrderFacts
    <3> QED BY <1>0, <1>1, <2>2, <3>2, <3>5, Goes DEF Steps, Inside
  <2> QED BY <1>0, <2>1, <2>2
<1> QED BY <1>2, <1>3 DEF Crash

LEMMA NextHonest ==
  ASSUME TInv, AInv', NEW h \in Hosts, NextStudy(h) PROVE TInv'
<1>0. /\ pc[h] = "next" /\ pc[h] \in Inside /\ by[ArchiveFile] = h
      /\ UNCHANGED <<by, torn, report, analysed, ending, frozen>>
  BY DEF NextStudy, Inside, Steps, TInv, AInv
<1>1. /\ at[h] \in 0..Len(Order)
      /\ \A i \in 1..Len(Order) : ending[Order[i]] \notin {"failed", "cancelled"}
  BY <1>0, EndsInside
<1>2. /\ \A i \in 1..at[h] : ending[Order[i]] = "complete"
      /\ \A j \in (at[h] + 1)..Len(Order) : Clean(Order[j])
  BY <1>0 DEF TInv, Progress
<1>3. CASE Goto(h, "returned") /\ UNCHANGED <<at, mem, status>>
  <2>1. Shapes' /\ Untouched
    BY <1>0, <1>3 DEF TInv, Shapes, Untouched
  <2>2. pc' = [pc EXCEPT ![h] = "returned"]
    BY <1>3 DEF Goto
  <2> QED BY <1>0, <1>3, <2>1, <2>2, Goes DEF Steps, Inside, Exists
<1>4. CASE /\ at[h] < Len(Order) /\ Goto(h, "verify")
           /\ at' = [at EXCEPT ![h] = @ + 1]
           /\ status' = [status EXCEPT ![Order[at[h] + 1]] = "running"]
  <2> DEFINE n == at[h] + 1
  <2>1. n \in 1..Len(Order) /\ Order[n] \in Studies
    BY <1>1, <1>4, OrderFacts
  <2>2. /\ at'[h] = n /\ pc'[h] = "verify"
        /\ \A g \in Hosts \ {h} : pc'[g] = pc[g] /\ at'[g] = at[g]
    BY <1>4 DEF TInv, AInv, Shapes, Goto
  <2>3. \A i \in 1..Len(Order) : status'[Order[i]] =
          IF i = n THEN "running" ELSE status[Order[i]]
    BY <1>4, <2>1, OrderFacts DEF TInv, Shapes
  <2>4. \A s \in Studies : status'[s] = "running" \/ status'[s] = status[s]
    BY <1>4, <2>1 DEF TInv, Shapes
  <2>5. Shapes'
    BY <1>0, <1>4 DEF TInv, Shapes
  <2>6. Ends'
    <3>1. \A s \in Studies : ending'[s] = "complete" => Sound(s)'
      BY <1>0 DEF TInv, Ends, Sound, Complete
    <3>2. \A s \in Studies : status'[s] = "complete" => ending'[s] = "complete"
      BY <1>0, <2>4 DEF TInv, Ends
    <3>3. by'[ArchiveFile] # Nobody
      BY <1>0, CampaignAssumption
    <3> QED BY <1>0, <1>1, <3>1, <3>2, <3>3 DEF Ends
  <2>7. Progress(h)'
    <3>1. \A j \in (n + 1)..Len(Order) : Clean(Order[j])'
      <4> SUFFICES ASSUME NEW j \in (n + 1)..Len(Order) PROVE Clean(Order[j])'
        OBVIOUS
      <4>1. j \in (at[h] + 1)..Len(Order) /\ j \in 1..Len(Order) /\ j # n
        BY <1>1, OrderFacts
      <4>2. Clean(Order[j])
        BY <1>2, <4>1
      <4> QED BY <1>0, <2>3, <4>1, <4>2 DEF Clean, Exists
    <3>2. \A i \in 1..n : i < n => ending'[Order[i]] = "complete"
      BY <1>0, <1>1, <1>2
    <3>3. ending'[Order[n]] = "none"
      <4>1. n \in (at[h] + 1)..Len(Order)
        BY <1>1, <2>1, OrderFacts
      <4> QED BY <1>0, <1>2, <4>1 DEF Clean
    <3>4. Study(h)' = Order[n]
      BY <2>2 DEF Study
    <3> HIDE DEF n
    <3>5. n \in 0..Len(Order) /\ n # 0
      BY <2>1, OrderFacts
    <3> QED BY <2>2, <3>1, <3>2, <3>3, <3>4, <3>5 DEF Progress, Early, Between
  <2> QED BY <1>0, <2>2, <2>5, <2>6, <2>7, Alone
<1> QED BY <1>3, <1>4 DEF NextStudy

LEMMA TerminalHonestStep ==
  ASSUME TInv, AInv', NEW h \in Hosts, WriteTerminal(h) PROVE TInv'
<1> DEFINE s == Study(h)
<1> DEFINE f == <<"terminal", s>>
<1> DEFINE how == IF pc[h] = "finish" THEN "complete" ELSE pc[h]
<1> DEFINE other == IF pc[h] = "finish" THEN "failed" ELSE "raised"
<1>0. /\ UNCHANGED <<at, torn, report, analysed, status, frozen>>
      /\ pc[h] \in {"finish", "failed", "cancelled"} /\ pc[h] \in Inside
      /\ pc[h] \notin Between
  BY DEF WriteTerminal, Inside, Steps, Between, Early
<1>1. /\ at[h] # 0 /\ s \in Studies /\ ending[s] = "none"
      /\ by[ArchiveFile] = h
      /\ pc[h] = "finish" => Sound(s)
  BY <1>0, Working DEF Sound
<1>2. CASE ~Free(f)
  <2>1. by' = by /\ ending' = ending /\ pc' = [pc EXCEPT ![h] = other]
    BY <1>2 DEF WriteTerminal, Create, Goto
  <2>2. other \in {"failed", "raised"}
    OBVIOUS
  <2>3. Shapes' /\ Untouched
    BY <1>0, <2>1 DEF TInv, Shapes, Untouched
  <2> HIDE DEF other
  <2> QED BY <1>0, <1>1, <2>1, <2>2, <2>3, Goes DEF Steps, Exists
<1>3. CASE Free(f)
  <2>1. /\ by' = [by EXCEPT ![f] = h] /\ ending' = [ending EXCEPT ![s] = how]
        /\ pc' = [pc EXCEPT ![h] = "save"]
    BY <1>3 DEF WriteTerminal, Create, Goto, ByNow
  <2>2. how \in {"complete", "failed", "cancelled"} /\ (how = "complete" => Sound(s))
    BY <1>0, <1>1
  <2> HIDE DEF how
  <2>3. /\ \A g \in Files : Exists(g)' => g = f \/ Exists(g)
        /\ by'[ArchiveFile] = h /\ h # Nobody
    BY <1>1, <2>1, Makes DEF TInv
  <2>4. \A u \in Studies : /\ Exists(<<"protocol", u>>)' => Exists(<<"protocol", u>>)
                           /\ ending'[u] = IF u = s THEN how ELSE ending[u]
    BY <2>1, <2>3, OrderFacts DEF TInv, Shapes
  <2>5. Shapes'
    BY <1>0, <2>1, <2>2, <2>4 DEF TInv, Shapes
  <2>6. /\ at[h] \in 1..Len(Order) /\ s = Order[at[h]]
        /\ \A i \in 1..Len(Order) : ending[Order[i]] \notin {"failed", "cancelled"}
    BY <1>0, <1>1, EndsInside DEF Study
  <2>7. \A j \in (at[h] + 1)..Len(Order) : Clean(Order[j])'
    <3> SUFFICES ASSUME NEW j \in (at[h] + 1)..Len(Order) PROVE Clean(Order[j])'
      OBVIOUS
    <3>1. Clean(Order[j])
      BY <1>0 DEF TInv, Progress
    <3>2. Order[j] \in Studies /\ Order[j] # s
      BY <2>6, OrderFacts
    <3> QED BY <1>0, <2>4, <3>1, <3>2 DEF Clean
  <2>8. Ends'
    <3>1. \A u \in Studies : ending'[u] = "complete" => Sound(u)'
      <4>1. \A u \in Studies : Sound(u)' = Sound(u)
        BY <1>0 DEF Sound, Complete
      <4> QED BY <2>2, <2>4, <4>1 DEF TInv, Ends
    <3>2. \A u \in Studies : status'[u] = "complete" => ending'[u] = "complete"
      <4>1. \A u \in Studies : status[u] = "complete" => ending[u] = "complete"
        BY DEF TInv, Ends
      <4>2. \A u \in Studies : ending[u] = "complete" => ending'[u] = "complete"
        BY <1>1, <2>4
      <4> QED BY <1>0, <4>1, <4>2
    <3>3. ASSUME NEW i \in 1..Len(Order),
                 ending'[Order[i]] \in {"failed", "cancelled"},
                 NEW j \in (i + 1)..Len(Order)
          PROVE  status'[Order[j]] = "none" /\ ~Exists(<<"protocol", Order[j]>>)'
      <4>1. i = at[h]
        BY <2>4, <2>6, <3>3, OrderFacts
      <4> QED BY <2>7, <4>1 DEF Clean
    <3> QED BY <2>3, <3>1, <3>2, <3>3 DEF Ends
  <2>9. /\ pc'[h] = "save" /\ at'[h] = at[h]
        /\ \A g \in Hosts \ {h} : pc'[g] = pc[g] /\ at'[g] = at[g]
    BY <1>0, <2>1 DEF TInv, AInv
  <2>10. Progress(h)'
    <3>1. \A i \in 1..at[h] : i < at[h] => ending[Order[i]] = "complete"
      BY <1>0 DEF TInv, Progress
    <3>2. \A i \in 1..at[h] : i < at[h] => ending'[Order[i]] = "complete"
      <4> SUFFICES ASSUME NEW i \in 1..at[h], i < at[h]
                   PROVE  ending'[Order[i]] = "complete"
        OBVIOUS
      <4>1. i \in 1..Len(Order) /\ Order[i] \in Studies /\ Order[i] # s
        BY <2>6, OrderFacts
      <4> QED BY <2>4, <3>1, <4>1
    <3>3. at[h] \in 0..Len(Order) /\ at[h] # 0
      BY <2>6, OrderFacts
    <3> QED BY <2>7, <2>9, <3>2, <3>3 DEF Progress, Early, Between
  <2> QED BY <1>0, <2>5, <2>8, <2>9, <2>10, Alone
<1> QED BY <1>2, <1>3

LEMMA SaveHonest ==
  ASSUME TInv, AInv', NEW h \in Hosts, SaveRow(h) PROVE TInv'
<1> DEFINE s == Study(h)
<1> DEFINE step == IF ending[s] = "complete" THEN "next" ELSE "raised"
<1>0. /\ UNCHANGED <<at, by, torn, report, analysed, ending, frozen>>
      /\ pc[h] = "save" /\ pc[h] \in Inside
      /\ status' = [status EXCEPT ![s] = ending[s]]
      /\ pc' = [pc EXCEPT ![h] = step]
  BY DEF SaveRow, Inside, Steps, Goto
<1>1. /\ at[h] \in 1..Len(Order) /\ s \in Studies /\ s = Order[at[h]]
      /\ by[ArchiveFile] = h /\ h # Nobody
      /\ \A i \in 1..Len(Order) : ending[Order[i]] \in {"failed", "cancelled"}
           => i = at[h]
  <2>1. at[h] # 0
    BY <1>0 DEF TInv, Progress, Early
  <2> QED BY <1>0, <2>1, EndsInside DEF Study
<1>2. \A u \in Studies : status'[u] = IF u = s THEN ending[s] ELSE status[u]
  BY <1>0, <1>1 DEF TInv, Shapes
<1>3. Shapes'
  BY <1>0 DEF TInv, Shapes
<1>4. \A j \in (at[h] + 1)..Len(Order) : Clean(Order[j])'
  <2> SUFFICES ASSUME NEW j \in (at[h] + 1)..Len(Order) PROVE Clean(Order[j])'
    OBVIOUS
  <2>1. Clean(Order[j])
    BY <1>0 DEF TInv, Progress
  <2>2. Order[j] \in Studies /\ Order[j] # s
    BY <1>1, OrderFacts
  <2> QED BY <1>0, <1>2, <2>1, <2>2 DEF Clean, Exists
<1>5. Ends'
  <2>1. \A u \in Studies : ending'[u] = "complete" => Sound(u)'
    BY <1>0 DEF TInv, Ends, Sound, Complete
  <2>2. \A u \in Studies : status'[u] = "complete" => ending'[u] = "complete"
    BY <1>0, <1>2 DEF TInv, Ends
  <2>3. ASSUME NEW i \in 1..Len(Order),
               ending'[Order[i]] \in {"failed", "cancelled"},
               NEW j \in (i + 1)..Len(Order)
        PROVE  status'[Order[j]] = "none" /\ ~Exists(<<"protocol", Order[j]>>)'
    <3>1. i = at[h]
      BY <1>0, <1>1, <2>3
    <3> QED BY <1>4, <3>1 DEF Clean
  <2> QED BY <1>0, <1>1, <2>1, <2>2, <2>3 DEF Ends
<1>6. /\ pc'[h] = step /\ at'[h] = at[h]
      /\ \A g \in Hosts \ {h} : pc'[g] = pc[g] /\ at'[g] = at[g]
  BY <1>0 DEF TInv, AInv
<1>7. Progress(h)'
  <2>1. \A i \in 1..at[h] : i < at[h] => ending[Order[i]] = "complete"
    BY <1>0 DEF TInv, Progress
  <2>2. step = "next" => ending[Order[at[h]]] = "complete"
    BY <1>1
  <2>3. step \in {"next", "raised"}
    OBVIOUS
  <2> HIDE DEF step
  <2>4. \A i \in 1..at[h] : i < at[h] \/ step = "next" => ending'[Order[i]] = "complete"
    BY <1>0, <1>1, <2>1, <2>2, OrderFacts
  <2>5. at[h] \in 0..Len(Order)
    BY <1>1, OrderFacts
  <2> QED BY <1>4, <1>6, <2>3, <2>4, <2>5 DEF Progress, Early, Between, Inside
<1> QED BY <1>0, <1>3, <1>5, <1>6, <1>7, Alone

LEMMA HonestStep == TInv /\ [CampaignNext]_campaignVars => TInv'
<1> SUFFICES ASSUME TInv, [CampaignNext]_campaignVars PROVE TInv'
  OBVIOUS
<1>0. AInv'
  BY CampaignStep DEF TInv
<1>1. ASSUME NEW h \in Hosts, MetaRow(h) \/ ClaimRow(h) \/ EvidenceRow(h)
      PROVE  TInv'
  <2>1. pc[h] = "generate" /\ \E r : Saves(h, r)
    BY <1>1 DEF MetaRow, ClaimRow, EvidenceRow, Generates, Row
  <2> QED BY <1>0, <2>1, RowHonest
<1>2. CASE EditSource \/ UNCHANGED campaignVars
  <2>1. UNCHANGED <<pc, at, files, frozen>>
    BY <1>2 DEF EditSource, campaignVars
  <2>2. Shapes' /\ Ends'
    BY <2>1 DEF TInv, Shapes, Ends, Clean, Exists, Sound, Complete, files
  <2>3. \A h \in Hosts : Progress(h)'
    BY <2>1 DEF TInv, Progress, Study, Clean, Exists, Complete, files
  <2> QED BY <1>0, <2>2, <2>3 DEF TInv
<1>3. ASSUME NEW h \in Hosts, StudyFails(h, "failed") \/ StudyFails(h, "cancelled")
      PROVE  TInv'
  BY <1>0, <1>3, FailHonest
<1>4. ASSUME NEW h \in Hosts, \/ Look(h) \/ Archive(h) \/ FreezeProtocol(h)
                              \/ OpenReport(h) \/ NextStudy(h) \/ Verify(h)
      PROVE  TInv'
  BY <1>0, <1>4, LookHonest, ArchiveHonest, FreezeHonest, OpenHonest, NextHonest,
     VerifyHonest
<1>5. ASSUME NEW h \in Hosts, \/ EndGeneration(h) \/ Analyse(h) \/ WriteTerminal(h)
                              \/ SaveRow(h) \/ Crash(h)
      PROVE  TInv'
  BY <1>0, <1>5, GenerationHonest, AnalyseHonest, TerminalHonestStep, SaveHonest,
     CrashHonest
<1> QED BY <1>1, <1>2, <1>3, <1>4, <1>5 DEF CampaignNext

(* Whatever fails, dies or is edited, in any order of studies: a campaign  *)
(* counts a study as complete only with a terminal file that says so, over *)
(* a complete report, its analysis and the archived sources, and goes no   *)
(* further after one that says otherwise.                                  *)
THEOREM TerminalsAreHonest == CampaignSpec => []TerminalHonest
<1>1. TInv => TerminalHonest
  <2> SUFFICES ASSUME TInv, NEW i \in DOMAIN Order
               PROVE  LET s == Order[i] IN
        /\ status[s] = "complete" => ending[s] = "complete"
        /\ ending[s] = "complete" =>
             /\ Complete(s, report[s]) /\ <<"report", s>> \notin torn
             /\ analysed[s] = report[s]
             /\ frozen[s] = frozen["archive"]
        /\ ending[s] \in {"failed", "cancelled"} =>
             \A j \in (i + 1)..Len(Order) :
               status[Order[j]] = "none" /\ ~Exists(<<"protocol", Order[j]>>)
    BY DEF TerminalHonest
  <2>1. i \in 1..Len(Order) /\ Order[i] \in Studies /\ Ends
    BY OrderFacts, CampaignAssumption DEF TInv
  <2>2. ending[Order[i]] = "complete" => Sound(Order[i])
    BY <2>1 DEF Ends
  <2> QED BY <2>1, <2>2 DEF Ends, Sound
<1> QED BY <1>1, HonestStart, HonestStep, PTL DEF CampaignSpec
=============================================================================
