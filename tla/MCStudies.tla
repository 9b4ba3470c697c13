----------------------------- MODULE MCStudies -----------------------------
(***************************************************************************)
(* The evaluation tools, one behaviour each: they share no state.          *)
(***************************************************************************)
EXTENDS Measure, Verdicts, Campaign, TLC

VARIABLE part
studiesVars == <<part, measureVars, verdictVars, campaignVars>>

StudiesInit ==
  /\ part \in {"measure", "verdicts", "campaign"}
  /\ MeasureInit /\ VerdictsInit /\ CampaignInit
  /\ part # "verdicts" => vpc = "blind"  \* idle parts start alike
StudiesNext ==
  /\ UNCHANGED part
  /\ \/ /\ part = "measure" /\ MeasureNext
        /\ UNCHANGED <<verdictVars, campaignVars>>
     \/ /\ part = "verdicts" /\ VerdictsNext
        /\ UNCHANGED <<measureVars, campaignVars>>
     \/ /\ part = "campaign" /\ CampaignNext
        /\ UNCHANGED <<measureVars, verdictVars>>
StudiesSpec == StudiesInit /\ [][StudiesNext]_studiesVars

MCArmOf == ("m1" :> "arm1") @@ ("c1" :> "arm1") @@ ("m2" :> "arm2")
MCMain == ("arm1" :> "m1") @@ ("arm2" :> "m2")
MCDeclared == ("j1" :> "f1") @@ ("j2" :> "f2")
MCOrder == <<"metaStudy", "evidenceStudy", "claimStudy">>
MCKind == ("metaStudy" :> "meta") @@ ("evidenceStudy" :> "evidence") @@
          ("claimStudy" :> "claim")
=============================================================================
