--------------------------- MODULE ServicesProofs ---------------------------
(***************************************************************************)
(* Proofs about UpdateCascade: for every tree of Hubs, any set of admins   *)
(* and every bound, the rows keep their types and no tier is passed        *)
(* without its gate, whoever approves, rejects, dies or withdraws          *)
(* meanwhile.                                                              *)
(*                                                                         *)
(* At the end, the five services side by side: the invariants that         *)
(* HubPipelineProofs, BusProofs, AuditRunsProofs and this module find      *)
(* inductive, each for its own steps, hold together of ServicesSpec.       *)
(***************************************************************************)
EXTENDS MCServices, HubPipelineProofs, BusProofs, AuditRunsProofs

OfferRec == [ source : Hub \cup {Vendor}, target : Hub,
              status : { "pending", "in_progress", "completed", "failed",
                         "rolled_back" },
              by : Admin \cup {"nobody"} ]

ApprovalRec == [ pc : { "idle", "claim", "smoke", "list", "offer" },
                 offer : 0 .. Len(offers), todo : SUBSET Hub ]

\* What an admin's coroutine relies on.  From the claim on its row bears a
\* name, and once it cascades its Hub has the bundle.
Grounded(a) ==
    /\ approval[a].pc # "idle" => approval[a].offer \in DOMAIN offers
    /\ approval[a].pc \in { "smoke", "list", "offer" } =>
          offers[approval[a].offer].by \in Admin
    /\ approval[a].pc \in { "list", "offer" } => Target(a) \in installed

CascadeInv == /\ CascadeTypeOK
              /\ \A a \in Admin : Grounded(a)
              /\ GateAtEveryTier

\* What no step does: rows are not removed, do not change their Hubs and do not
\* lose the name put down; a Hub keeps the bundle.
Kept ==
    /\ installed \subseteq installed'
    /\ DOMAIN offers \subseteq DOMAIN offers'
    /\ \A i \in DOMAIN offers : /\ offers'[i].target = offers[i].target
                                /\ offers'[i].source = offers[i].source
                                /\ offers[i].by \in Admin => offers'[i].by \in Admin

-----------------------------------------------------------------------------
(* Types                                                                   *)

\* The first row is the vendor's offer to the root Hub.
LEMMA InitTypes == CascadeInit => CascadeTypeOK
<1> SUFFICES ASSUME CascadeInit PROVE CascadeTypeOK
    OBVIOUS
<1>1. Offer(Vendor, RootHub) \in OfferRec
    BY CascadeAssumption DEF Offer, OfferRec
<1>2. offers \in Seq(OfferRec) /\ Len(offers) = 1
    BY <1>1 DEF CascadeInit
<1>3. consents \subseteq Hub \X Hub
    BY CascadeAssumption DEF CascadeInit
<1>4. approval \in [ Admin -> ApprovalRec ]
    BY <1>2 DEF CascadeInit, NoApproval, ApprovalRec
<1>5. past \in [ cut : SUBSET Hub, moved : SUBSET Hub, claims : [ Hub -> Nat ] ]
    BY DEF CascadeInit
<1> QED
    BY <1>2, <1>3, <1>4, <1>5, CascadeAssumption
    DEF CascadeInit, CascadeTypeOK, OfferRec, ApprovalRec

\* approve_and_apply is in a row of the table while it runs.
LEMMA RowTypes ==
    ASSUME CascadeTypeOK, NEW a \in Admin, Grounded(a), approval[a].pc # "idle"
    PROVE  /\ approval[a].offer \in DOMAIN offers
           /\ offers[approval[a].offer] \in OfferRec
           /\ Target(a) \in Hub
<1>1. approval[a].offer \in DOMAIN offers
    BY DEF Grounded
<1>2. offers \in Seq(OfferRec)
    BY DEF CascadeTypeOK, OfferRec
<1>3. offers[approval[a].offer] \in OfferRec
    BY <1>1, <1>2
<1> QED
    BY <1>1, <1>3 DEF Target, OfferRec

\* A write of _set_status, with or without a name, leaves a row of the table.
LEMMA WriteRow ==
    ASSUME CascadeTypeOK, NEW i \in DOMAIN offers,
           NEW st \in { "pending", "in_progress", "completed", "failed",
                        "rolled_back" },
           NEW by \in Admin,
           \/ offers' = [ offers EXCEPT ![i].status = st, ![i].by = by ]
           \/ offers' = [ offers EXCEPT ![i].status = st ]
    PROVE  /\ offers' \in Seq(OfferRec)
           /\ Len(offers') = Len(offers)
           /\ \A j \in DOMAIN offers :
                 /\ offers'[j].target = offers[j].target
                 /\ offers'[j].source = offers[j].source
                 /\ offers[j].by \in Admin => offers'[j].by \in Admin
<1>1. offers \in Seq(OfferRec)
    BY DEF CascadeTypeOK, OfferRec
<1>2. offers[i] \in OfferRec
    BY <1>1
<1>3. CASE offers' = [ offers EXCEPT ![i].status = st, ![i].by = by ]
  <2>1. offers' = [ offers EXCEPT ![i] =
                      [ [ offers[i] EXCEPT !.status = st ] EXCEPT !.by = by ] ]
    BY <1>3, <1>1
  <2>2. [ [ offers[i] EXCEPT !.status = st ] EXCEPT !.by = by ] \in OfferRec
    BY <1>2 DEF OfferRec
  <2> QED
    BY <2>1, <2>2, <1>1, <1>2 DEF OfferRec
<1>4. CASE offers' = [ offers EXCEPT ![i].status = st ]
  <2>2. [ offers[i] EXCEPT !.status = st ] \in OfferRec
    BY <1>2 DEF OfferRec
  <2> QED
    BY <1>4, <2>2, <1>1, <1>2 DEF OfferRec
<1> QED
    BY <1>3, <1>4

\* A coroutine goes on to its next await.
LEMMA GotoTypes ==
    ASSUME CascadeTypeOK, NEW a \in Admin,
           NEW pc \in { "idle", "claim", "smoke", "list", "offer" }, Goto(a, pc)
    PROVE  /\ approval' \in [ Admin -> ApprovalRec ]
           /\ approval'[a].pc = pc /\ approval'[a].offer = approval[a].offer
           /\ \A b \in Admin : b # a => approval'[b] = approval[b]
<1>1. approval \in [ Admin -> ApprovalRec ]
    BY DEF CascadeTypeOK, ApprovalRec
<1>2. approval[a] \in ApprovalRec
    BY <1>1
<1>3. [ approval[a] EXCEPT !.pc = pc ] \in ApprovalRec
    BY <1>2 DEF ApprovalRec
<1> QED
    BY <1>1, <1>2, <1>3 DEF Goto, ApprovalRec

-----------------------------------------------------------------------------
(* Steps                                                                   *)

\* An admin's coroutine is where it was, or its row's facts come with the step.
LEMMA GroundedKept ==
    ASSUME CascadeTypeOK, Kept, NEW a \in Admin, Grounded(a),
           approval'[a] = approval[a]
    PROVE  Grounded(a)'
BY DEF Kept, Grounded, Target

\* The gate needs the row and its name, and the source's bundle.
LEMMA TierGatesKept ==
    ASSUME GateAtEveryTier, Kept, DOMAIN offers' = DOMAIN offers,
           installed' = installed
    PROVE  GateAtEveryTier'
BY DEF GateAtEveryTier, Kept

\* approve_and_apply looks at the row.
LEMMA ApproveStep ==
    ASSUME CascadeInv, NEW a \in Admin, NEW i \in DOMAIN offers, Approve(a, i)
    PROVE  CascadeInv'
<1> USE DEF CascadeInv
<1>1. Kept
    BY DEF Kept, Approve
<1>2. i \in 0 .. Len(offers)
    BY DEF CascadeTypeOK
<1>3. approval' \in [ Admin -> ApprovalRec ]
    BY <1>2 DEF Approve, CascadeTypeOK, ApprovalRec
<1>4. CascadeTypeOK'
    BY <1>3 DEF Approve, CascadeTypeOK, ApprovalRec
<1>5. ASSUME NEW b \in Admin PROVE Grounded(b)'
  <2>1. CASE b = a
    BY <2>1 DEF Approve, Grounded, CascadeTypeOK
  <2>2. CASE b # a
    BY <2>2, <1>1, GroundedKept DEF Approve, CascadeTypeOK
  <2> QED
    BY <2>1, <2>2
<1>6. GateAtEveryTier'
    BY <1>1, TierGatesKept DEF Approve
<1> QED
    BY <1>4, <1>5, <1>6

\* The claim puts the admin's name down.
LEMMA ClaimStep ==
    ASSUME CascadeInv, NEW a \in Admin, ClaimUpdate(a)
    PROVE  CascadeInv'
<1> USE DEF CascadeInv
<1> DEFINE i == approval[a].offer
<1>1. i \in DOMAIN offers /\ Target(a) \in Hub
    BY RowTypes DEF ClaimUpdate
<1>2. /\ offers' \in Seq(OfferRec) /\ Len(offers') = Len(offers)
      /\ \A j \in DOMAIN offers :
            /\ offers'[j].target = offers[j].target
            /\ offers'[j].source = offers[j].source
            /\ offers[j].by \in Admin => offers'[j].by \in Admin
    BY <1>1, WriteRow DEF ClaimUpdate
<1>3. DOMAIN offers' = DOMAIN offers
    BY <1>2 DEF CascadeTypeOK
<1>4. Kept
    BY <1>2, <1>3 DEF Kept, ClaimUpdate
<1>5. approval' \in [ Admin -> ApprovalRec ]
    BY GotoTypes DEF ClaimUpdate
<1>6. past' \in [ cut : SUBSET Hub, moved : SUBSET Hub, claims : [ Hub -> Nat ] ]
  <2>1. past \in [ cut : SUBSET Hub, moved : SUBSET Hub, claims : [ Hub -> Nat ] ]
    BY DEF CascadeTypeOK
  <2>2. past' = [ past EXCEPT !.claims =
                    [ past.claims EXCEPT ![Target(a)] = past.claims[Target(a)] + 1 ] ]
    BY <2>1 DEF ClaimUpdate
  <2>3. [ past.claims EXCEPT ![Target(a)] = past.claims[Target(a)] + 1 ] \in [ Hub -> Nat ]
    BY <2>1, <1>1
  <2> QED
    BY <2>1, <2>2, <2>3
<1>7. CascadeTypeOK'
    BY <1>2, <1>5, <1>6 DEF ClaimUpdate, CascadeTypeOK, ApprovalRec, OfferRec
<1>8. ASSUME NEW b \in Admin PROVE Grounded(b)'
  <2>1. CASE b = a
    <3>1. approval'[a].pc = "smoke" /\ approval'[a].offer = i
        BY GotoTypes DEF ClaimUpdate
    <3>2. offers'[i].by = a
      <4>0. offers \in Seq(OfferRec)
        BY DEF CascadeTypeOK, OfferRec
      <4>1. offers \in Seq(OfferRec) /\ offers[i] \in OfferRec
        BY <4>0, <1>1
      <4>2. offers' = [ offers EXCEPT ![i] =
                [ [ offers[i] EXCEPT !.status = "in_progress" ] EXCEPT !.by = a ] ]
        BY <4>1 DEF ClaimUpdate
      <4> QED
        BY <4>1, <4>2, <1>1 DEF OfferRec
    <3> QED
        BY <2>1, <3>1, <3>2, <1>1, <1>3 DEF Grounded
  <2>2. CASE b # a
    BY <2>2, <1>4, GroundedKept, GotoTypes DEF ClaimUpdate
  <2> QED
    BY <2>1, <2>2
<1>9. GateAtEveryTier'
    BY <1>3, <1>4, TierGatesKept DEF ClaimUpdate
<1> QED
    BY <1>7, <1>8, <1>9

\* The smoke passes: the Hub has the bundle, in a row that bears a name.
LEMMA SmokeStep ==
    ASSUME CascadeInv, NEW a \in Admin, SmokePasses(a)
    PROVE  CascadeInv'
<1> USE DEF CascadeInv
<1> DEFINE i == approval[a].offer
<1>1. i \in DOMAIN offers /\ Target(a) \in Hub /\ offers[i].by \in Admin
    BY RowTypes DEF SmokePasses, Grounded
<1>2. /\ offers' \in Seq(OfferRec) /\ Len(offers') = Len(offers)
      /\ \A j \in DOMAIN offers :
            /\ offers'[j].target = offers[j].target
            /\ offers'[j].source = offers[j].source
            /\ offers[j].by \in Admin => offers'[j].by \in Admin
    BY <1>1, WriteRow DEF SmokePasses, SetStatus
<1>3. DOMAIN offers' = DOMAIN offers
    BY <1>2 DEF CascadeTypeOK
<1>4. Kept
    BY <1>2, <1>3 DEF Kept, SmokePasses
<1>5. approval' \in [ Admin -> ApprovalRec ]
    BY GotoTypes DEF SmokePasses
<1>6. CascadeTypeOK'
    BY <1>1, <1>2, <1>5 DEF SmokePasses, CascadeTypeOK, ApprovalRec, OfferRec
<1>7. Target(a) \in installed' /\ offers'[i].target = Target(a)
    BY <1>1, <1>2 DEF SmokePasses, Target
<1>8. ASSUME NEW b \in Admin PROVE Grounded(b)'
  <2>1. CASE b = a
    <3>1. approval'[a].pc = "list" /\ approval'[a].offer = i
        BY GotoTypes DEF SmokePasses
    <3> QED
        BY <2>1, <3>1, <1>1, <1>2, <1>3, <1>7 DEF Grounded, Target
  <2>2. CASE b # a
    BY <2>2, <1>4, GroundedKept, GotoTypes DEF SmokePasses
  <2> QED
    BY <2>1, <2>2
<1>9. GateAtEveryTier'
  <2>1. ASSUME NEW j \in DOMAIN offers' PROVE offers'[j].source \in installed' \cup {Vendor}
    BY <1>2, <1>3 DEF GateAtEveryTier, SmokePasses
  <2>2. ASSUME NEW h \in installed'
        PROVE  \E j \in DOMAIN offers' : offers'[j].target = h /\ offers'[j].by \in Admin
    <3>1. CASE h = Target(a)
        BY <3>1, <1>1, <1>2, <1>3, <1>7
    <3>2. CASE h \in installed
        BY <3>2, <1>2, <1>3 DEF GateAtEveryTier
    <3> QED
        BY <3>1, <3>2 DEF SmokePasses
  <2> QED
    BY <2>1, <2>2 DEF GateAtEveryTier
<1> QED
    BY <1>6, <1>8, <1>9

\* The rows and the bundles stay, and every coroutine is where it was, is over,
\* or goes on cascading from the same row.
LEMMA QuietStep ==
    ASSUME CascadeInv, CascadeTypeOK', UNCHANGED << offers, installed >>,
           \A b \in Admin : \/ approval'[b] = approval[b]
                            \/ approval'[b].pc = "idle"
                            \/ /\ approval[b].pc \in { "list", "offer" }
                               /\ approval'[b].offer = approval[b].offer
    PROVE  CascadeInv'
<1> USE DEF CascadeInv
<1>1. ASSUME NEW b \in Admin PROVE Grounded(b)'
    BY DEF Grounded, Target
<1>2. GateAtEveryTier'
    BY DEF GateAtEveryTier
<1> QED
    BY <1>1, <1>2

\* set_consent_status, grant and revoke touch no row and no coroutine.
LEMMA ConsentStep ==
    ASSUME CascadeInv, NEW h \in Hub \ {RootHub}, SetConsent(h) \/ ChangeConsent(h)
    PROVE  CascadeInv'
<1> USE DEF CascadeInv
<1>1. past' \in [ cut : SUBSET Hub, moved : SUBSET Hub, claims : [ Hub -> Nat ] ]
    BY DEF CascadeTypeOK, SetConsent, ChangeConsent
<1>2. upsets' \in 0 .. MaxUpsets
    BY CascadeAssumption DEF CascadeTypeOK, SetConsent, ChangeConsent, Upset
<1>3. enrolled' \subseteq Hub /\ consents' \subseteq Hub \X Hub
    BY CascadeAssumption DEF CascadeTypeOK, SetConsent, ChangeConsent
<1>4. UNCHANGED << offers, installed, approval >>
    BY DEF SetConsent, ChangeConsent
<1>5. CascadeTypeOK'
    BY <1>1, <1>2, <1>3, <1>4 DEF CascadeTypeOK
<1> QED
    BY <1>4, <1>5, QuietStep

\* list_children, a child passed over or whose INSERT fails, the loop's end.
LEMMA LoopStep ==
    ASSUME CascadeInv, NEW a \in Admin, NEW h \in Hub,
           \/ ListChildren(a) \/ CascadeEnds(a)
           \/ SkipChild(a, h) \/ OfferFails(a, h)
    PROVE  CascadeInv'
<1> USE DEF CascadeInv
<1>1. approval \in [ Admin -> ApprovalRec ] /\ approval[a] \in ApprovalRec
    BY DEF CascadeTypeOK, ApprovalRec
<1>2. approval[a].pc \in { "list", "offer" } /\ Target(a) \in Hub
    BY RowTypes DEF ListChildren, CascadeEnds, SkipChild, OfferFails
<1>3. \E r \in ApprovalRec : /\ approval' = [ approval EXCEPT ![a] = r ]
                             /\ r.pc = "idle" \/ r.offer = approval[a].offer
  <2>1. CASE ListChildren(a)
    <3> DEFINE kids == { k \in enrolled \ {RootHub} : UpHub[k] = Target(a) }
               r == [ [ approval[a] EXCEPT !.pc = "offer" ] EXCEPT !.todo = kids ]
    <3>1. kids \subseteq Hub
        BY DEF CascadeTypeOK
    <3>2. r \in ApprovalRec /\ r.offer = approval[a].offer
        BY <3>1, <1>1 DEF ApprovalRec
    <3>3. approval' = [ approval EXCEPT ![a] = r ]
        BY <2>1, <1>1 DEF ListChildren
    <3> QED
        BY <3>1, <3>2, <3>3
  <2>2. CASE SkipChild(a, h) \/ OfferFails(a, h)
    <3> DEFINE r == [ approval[a] EXCEPT !.todo = @ \ {h} ]
    <3>1. r \in ApprovalRec /\ r.offer = approval[a].offer
        BY <1>1 DEF ApprovalRec
    <3>2. approval' = [ approval EXCEPT ![a] = r ]
        BY <2>2, <1>1 DEF SkipChild, OfferFails
    <3> QED
        BY <3>1, <3>2
  <2>3. CASE CascadeEnds(a)
    <3>1. NoApproval \in ApprovalRec /\ NoApproval.pc = "idle"
        BY DEF NoApproval, ApprovalRec, CascadeTypeOK
    <3> QED
        BY <2>3, <3>1 DEF CascadeEnds
  <2> QED
    BY <2>1, <2>2, <2>3
<1>4. approval' \in [ Admin -> ApprovalRec ]
    BY <1>1, <1>3
<1>5. UNCHANGED << offers, enrolled, consents, installed >>
    BY DEF ListChildren, CascadeEnds, SkipChild, OfferFails
<1>6. past' \in [ cut : SUBSET Hub, moved : SUBSET Hub, claims : [ Hub -> Nat ] ]
  <2>1. past' = past \/ past' = [ past EXCEPT !.cut = @ \cup { Target(a) } ]
    BY DEF ListChildren, CascadeEnds, SkipChild, OfferFails
  <2>2. past \in [ cut : SUBSET Hub, moved : SUBSET Hub, claims : [ Hub -> Nat ] ]
    BY DEF CascadeTypeOK
  <2>3. CASE past' = past
    BY <2>2, <2>3
  <2>4. CASE past' = [ past EXCEPT !.cut = @ \cup { Target(a) } ]
    BY <2>2, <2>4, <1>2
  <2> QED
    BY <2>1, <2>3, <2>4
<1>7. upsets' \in 0 .. MaxUpsets
    BY CascadeAssumption
    DEF CascadeTypeOK, ListChildren, CascadeEnds, SkipChild, OfferFails, Upset
<1>8. CascadeTypeOK'
    BY <1>4, <1>5, <1>6, <1>7 DEF CascadeTypeOK, ApprovalRec
<1>9. \A b \in Admin : \/ approval'[b] = approval[b]
                       \/ approval'[b].pc = "idle"
                       \/ /\ approval[b].pc \in { "list", "offer" }
                          /\ approval'[b].offer = approval[b].offer
    BY <1>1, <1>2, <1>3
<1> QED
    BY <1>5, <1>8, <1>9, QuietStep

\* The process dies with its coroutines.
LEMMA DeathStep ==
    ASSUME CascadeInv, NEW h \in Hub, CascadeHubDies(h)
    PROVE  CascadeInv'
<1> USE DEF CascadeInv
<1>1. NoApproval \in ApprovalRec /\ NoApproval.pc = "idle"
    BY DEF NoApproval, ApprovalRec, CascadeTypeOK
<1>2. approval' \in [ Admin -> ApprovalRec ]
    BY <1>1 DEF CascadeHubDies, CascadeTypeOK, ApprovalRec
<1>3. past' \in [ cut : SUBSET Hub, moved : SUBSET Hub, claims : [ Hub -> Nat ] ]
    BY DEF CascadeTypeOK, CascadeHubDies
<1>4. upsets' \in 0 .. MaxUpsets
    BY CascadeAssumption DEF CascadeTypeOK, CascadeHubDies, Upset
<1>5. CascadeTypeOK'
    BY <1>2, <1>3, <1>4 DEF CascadeTypeOK, CascadeHubDies, ApprovalRec
<1>6. \A b \in Admin : approval'[b] = approval[b] \/ approval'[b].pc = "idle"
    BY <1>1 DEF CascadeHubDies
<1> QED
    BY <1>5, <1>6, QuietStep DEF CascadeHubDies

\* A query of the cascade raises and its coroutine ends.
LEMMA RaiseStep ==
    ASSUME CascadeInv, NEW a \in Admin, CascadeRaises(a)
    PROVE  CascadeInv'
<1> USE DEF CascadeInv
<1>1. NoApproval \in ApprovalRec /\ NoApproval.pc = "idle"
    BY DEF NoApproval, ApprovalRec, CascadeTypeOK
<1>2. approval' \in [ Admin -> ApprovalRec ]
    BY <1>1 DEF CascadeRaises, CascadeTypeOK, ApprovalRec
<1>3. Target(a) \in Hub
    <2>1. approval[a].pc # "idle"
        BY DEF CascadeRaises
    <2> QED
        BY <2>1, RowTypes
<1>4. past' \in [ cut : SUBSET Hub, moved : SUBSET Hub, claims : [ Hub -> Nat ] ]
    BY <1>3 DEF CascadeTypeOK, CascadeRaises
<1>5. upsets' \in 0 .. MaxUpsets
    BY CascadeAssumption DEF CascadeTypeOK, CascadeRaises, Upset
<1>6. CascadeTypeOK'
    BY <1>2, <1>4, <1>5 DEF CascadeTypeOK, CascadeRaises, ApprovalRec
<1>7. \A b \in Admin : approval'[b] = approval[b] \/ approval'[b].pc = "idle"
    BY <1>1 DEF CascadeRaises, CascadeTypeOK
<1> QED
    BY <1>6, <1>7, QuietStep DEF CascadeRaises

\* A failed smoke and a rejection write a row and cascade nothing.
LEMMA RefusalStep ==
    ASSUME CascadeInv, NEW a \in Admin, NEW i \in DOMAIN offers,
           SmokeFails(a) \/ RejectOffer(a, i)
    PROVE  CascadeInv'
<1> USE DEF CascadeInv
<1>1. /\ offers' \in Seq(OfferRec) /\ Len(offers') = Len(offers)
      /\ \A j \in DOMAIN offers :
            /\ offers'[j].target = offers[j].target
            /\ offers'[j].source = offers[j].source
            /\ offers[j].by \in Admin => offers'[j].by \in Admin
  <2>1. CASE SmokeFails(a)
    <3>1. approval[a].offer \in DOMAIN offers
        BY <2>1, RowTypes DEF SmokeFails
    <3> QED
        BY <2>1, <3>1, WriteRow DEF SmokeFails, SetStatus
  <2>2. CASE RejectOffer(a, i)
    BY <2>2, WriteRow DEF RejectOffer
  <2> QED
    BY <2>1, <2>2
<1>2. DOMAIN offers' = DOMAIN offers
    BY <1>1 DEF CascadeTypeOK
<1>3. Kept
    BY <1>1, <1>2 DEF Kept, SmokeFails, RejectOffer
<1>4. NoApproval \in ApprovalRec /\ NoApproval.pc = "idle"
    BY DEF NoApproval, ApprovalRec, CascadeTypeOK
<1>5. \A b \in Admin : approval'[b] = approval[b] \/ approval'[b].pc = "idle"
    BY <1>4 DEF SmokeFails, RejectOffer, CascadeTypeOK
<1>6. approval' \in [ Admin -> ApprovalRec ]
    BY <1>4 DEF SmokeFails, RejectOffer, CascadeTypeOK, ApprovalRec
<1>7. upsets' \in 0 .. MaxUpsets
    BY CascadeAssumption DEF CascadeTypeOK, SmokeFails, RejectOffer, Upset
<1>8. CascadeTypeOK'
    BY <1>1, <1>6, <1>7
    DEF CascadeTypeOK, SmokeFails, RejectOffer, ApprovalRec, OfferRec
<1>9. ASSUME NEW b \in Admin PROVE Grounded(b)'
  <2>1. CASE approval'[b] = approval[b]
    BY <2>1, <1>3, GroundedKept
  <2>2. CASE approval'[b].pc = "idle"
    BY <2>2 DEF Grounded
  <2> QED
    BY <2>1, <2>2, <1>5
<1>10. GateAtEveryTier'
    BY <1>2, <1>3, TierGatesKept DEF SmokeFails, RejectOffer
<1> QED
    BY <1>8, <1>9, <1>10

\* A child's row comes from a Hub that has the bundle.
LEMMA OfferStep ==
    ASSUME CascadeInv, NEW a \in Admin, NEW h \in Hub, OfferChild(a, h)
    PROVE  CascadeInv'
<1> USE DEF CascadeInv
<1>1. Target(a) \in installed /\ Target(a) \in Hub
    BY DEF OfferChild, Grounded, CascadeTypeOK
<1>2. offers \in Seq(OfferRec) /\ Offer(Target(a), h) \in OfferRec
    BY <1>1 DEF CascadeTypeOK, OfferRec, Offer
<1>3. /\ offers' \in Seq(OfferRec) /\ Len(offers') = Len(offers) + 1
      /\ DOMAIN offers' = DOMAIN offers \cup { Len(offers) + 1 }
      /\ \A j \in DOMAIN offers : offers'[j] = offers[j]
      /\ offers'[Len(offers) + 1] = Offer(Target(a), h)
    BY <1>2 DEF OfferChild
<1>4. Kept
    BY <1>3 DEF Kept, OfferChild
<1>5. approval \in [ Admin -> ApprovalRec ] /\ approval[a] \in ApprovalRec
    BY DEF CascadeTypeOK, ApprovalRec
<1> DEFINE r == [ approval[a] EXCEPT !.todo = @ \ {h} ]
<1>6. r \in ApprovalRec /\ r.offer = approval[a].offer /\ r.pc = approval[a].pc
    BY <1>5 DEF ApprovalRec
<1>7. approval' = [ approval EXCEPT ![a] = r ]
    BY <1>5 DEF OfferChild
<1>8. approval' \in [ Admin -> ApprovalRec ]
    BY <1>5, <1>6, <1>7
<1>9. \A x \in ApprovalRec : x \in ApprovalRec'
    BY <1>2, <1>3 DEF ApprovalRec
<1>10. CascadeTypeOK'
    BY <1>3, <1>8, <1>9 DEF CascadeTypeOK, OfferChild, ApprovalRec, OfferRec
<1>11. ASSUME NEW b \in Admin PROVE Grounded(b)'
  <2>1. CASE b = a
    <3>1. approval'[a].pc = "offer" /\ approval'[a].offer = approval[a].offer
        BY <1>5, <1>6, <1>7 DEF OfferChild
    <3>2. /\ approval[a].offer \in DOMAIN offers
          /\ offers[approval[a].offer].by \in Admin
        BY DEF Grounded, OfferChild
    <3> QED
        BY <2>1, <3>1, <3>2, <1>1, <1>3, <1>4 DEF Grounded, Target, Kept
  <2>2. CASE b # a
    BY <2>2, <1>4, <1>5, <1>7, GroundedKept
  <2> QED
    BY <2>1, <2>2
<1>12. GateAtEveryTier'
  <2>1. ASSUME NEW j \in DOMAIN offers' PROVE offers'[j].source \in installed' \cup {Vendor}
    <3>1. CASE j \in DOMAIN offers
        BY <3>1, <1>3 DEF GateAtEveryTier, OfferChild
    <3>2. CASE j = Len(offers) + 1
        BY <3>2, <1>1, <1>3 DEF Offer, OfferChild
    <3> QED
        BY <3>1, <3>2, <1>3
  <2>2. ASSUME NEW k \in installed'
        PROVE  \E j \in DOMAIN offers' : offers'[j].target = k /\ offers'[j].by \in Admin
    BY <1>3 DEF GateAtEveryTier, OfferChild
  <2> QED
    BY <2>1, <2>2 DEF GateAtEveryTier
<1> QED
    BY <1>10, <1>11, <1>12

-----------------------------------------------------------------------------
(* Theorems                                                                *)

\* Every step keeps the invariant.
LEMMA CascadeInductive == CascadeInv /\ [CascadeNext]_cascadeVars => CascadeInv'
<1> SUFFICES ASSUME CascadeInv, [CascadeNext]_cascadeVars PROVE CascadeInv'
    OBVIOUS
<1>1. ASSUME NEW a \in Admin, CascadeStep(a) PROVE CascadeInv'
  <2>1. Hub # {}
    BY CascadeAssumption
  <2> QED
    BY <1>1, <2>1, ClaimStep, SmokeStep, LoopStep, OfferStep DEF CascadeStep
<1>2. ASSUME NEW a \in Admin, SmokeFails(a) PROVE CascadeInv'
  <2>1. approval[a].offer \in DOMAIN offers
    BY <1>2, RowTypes DEF SmokeFails, CascadeInv
  <2> QED
    BY <1>2, <2>1, RefusalStep
<1>3. ASSUME NEW a \in Admin, NEW i \in DOMAIN offers, Approve(a, i) \/ RejectOffer(a, i)
      PROVE  CascadeInv'
    BY <1>3, ApproveStep, RefusalStep
<1>4. ASSUME NEW h \in Hub, CascadeHubDies(h) PROVE CascadeInv'
    BY <1>4, DeathStep
<1>5. ASSUME NEW h \in Hub \ {RootHub}, SetConsent(h) \/ ChangeConsent(h)
      PROVE  CascadeInv'
    BY <1>5, ConsentStep
<1>6. CASE UNCHANGED cascadeVars
    BY <1>6
    DEF cascadeVars, CascadeInv, CascadeTypeOK, Grounded, Target, GateAtEveryTier
<1>7. ASSUME NEW a \in Admin, CascadeRaises(a) PROVE CascadeInv'
    BY <1>7, RaiseStep
<1> QED
    BY <1>1, <1>2, <1>3, <1>4, <1>5, <1>6, <1>7 DEF CascadeNext

\* The first row is the vendor's and no Hub has the bundle.
LEMMA CascadeStarts == CascadeInit => CascadeInv
<1> SUFFICES ASSUME CascadeInit PROVE CascadeInv
    OBVIOUS
<1>1. \A a \in Admin : Grounded(a)
    BY DEF CascadeInit, NoApproval, Grounded
<1>2. GateAtEveryTier
    BY DEF CascadeInit, Offer, GateAtEveryTier
<1> QED
    BY <1>1, <1>2, InitTypes DEF CascadeInv

\* The rows of update_distribution, the registry and the coroutines keep their
\* types; in particular a row's status is one that V23's CHECK allows.
THEOREM CascadeTypes == CascadeSpec => []CascadeTypeOK
<1>1. CascadeInv => CascadeTypeOK
    BY DEF CascadeInv
<1> QED
    BY <1>1, CascadeStarts, CascadeInductive, PTL DEF CascadeSpec

\* The gate of approve_and_apply holds at every tier of every tree: whoever has
\* the bundle was asked and answered for by name, and whoever offers it has it.
THEOREM CascadeGates == CascadeSpec => []GateAtEveryTier
<1>1. CascadeInv => GateAtEveryTier
    BY DEF CascadeInv
<1> QED
    BY <1>1, CascadeStarts, CascadeInductive, PTL DEF CascadeSpec

-----------------------------------------------------------------------------
(* How often a Hub is offered the bundle                                   *)

\* The approvals of a parent's rows that were put down and have not yet come to
\* child h.
Owing(h) ==
    { a \in Admin : /\ approval[a].pc \in { "smoke", "list", "offer" }
                    /\ Target(a) = UpHub[h]
                    /\ approval[a].pc = "offer" => h \in approval[a].todo }

\* A cascade has only children of its Hub on its list.
OwnChildren ==
    \A a \in Admin : approval[a].pc = "offer" =>
        \A h \in approval[a].todo : h # RootHub /\ UpHub[h] = Target(a)

\* Every approval pays for one row of the child, written or still owed.
Paid(h) ==
    /\ IsFiniteSet(Owing(h))
    /\ Cardinality(Offers(h)) + Cardinality(Owing(h)) <= past.claims[UpHub[h]]

CountInv == CascadeInv /\ OwnChildren /\ \A h \in Hub \ {RootHub} : Paid(h)

\* There are finitely many rows.
LEMMA OffersFinite ==
    ASSUME CascadeTypeOK, NEW h
    PROVE  IsFiniteSet(Offers(h)) /\ Cardinality(Offers(h)) \in Nat
<1>1. Len(offers) \in Nat /\ DOMAIN offers = 1 .. Len(offers)
    BY DEF CascadeTypeOK
<1>2. IsFiniteSet(1 .. Len(offers))
    BY <1>1, FS_Interval
<1>3. Offers(h) \subseteq 1 .. Len(offers)
    BY <1>1 DEF Offers
<1> QED
    BY <1>2, <1>3, FS_Subset, FS_CardinalityType

LEMMA ClaimsNat ==
    ASSUME CascadeTypeOK, NEW h \in Hub \ {RootHub}
    PROVE  UpHub[h] \in Hub /\ past.claims[UpHub[h]] \in Nat
BY CascadeAssumption DEF CascadeTypeOK

\* A step that writes no row and puts down no approval owes no more than before.
LEMMA OwesNoMore ==
    ASSUME CountInv, CascadeInv', past'.claims = past.claims,
           DOMAIN offers' = DOMAIN offers,
           \A i \in DOMAIN offers : offers'[i].target = offers[i].target,
           \A b \in Admin :
              \/ approval'[b] = approval[b]
              \/ approval'[b].pc \in { "idle", "claim" }
              \/ /\ approval'[b].offer = approval[b].offer
                 /\ \/ approval[b].pc = "smoke" /\ approval'[b].pc = "list"
                    \/ /\ approval[b].pc = "list" /\ approval'[b].pc = "offer"
                       /\ \A k \in approval'[b].todo : k # RootHub /\ UpHub[k] = Target(b)
                    \/ /\ approval[b].pc = "offer" /\ approval'[b].pc = "offer"
                       /\ approval'[b].todo \subseteq approval[b].todo
    PROVE  CountInv'
<1>0. CascadeInv /\ CascadeTypeOK /\ OwnChildren
    BY DEF CountInv, CascadeInv
<1>1. ASSUME NEW b \in Admin, approval'[b].pc \in { "smoke", "list", "offer" }
      PROVE  /\ Target(b)' = Target(b)
             /\ approval[b].pc \in { "smoke", "list", "offer" }
             /\ approval'[b].pc # "offer" => approval[b].pc # "offer"
             /\ approval[b].pc = "offer" => approval'[b].todo \subseteq approval[b].todo
             /\ approval[b].pc # "offer" => \/ approval'[b].pc # "offer"
                   \/ \A k \in approval'[b].todo : k # RootHub /\ UpHub[k] = Target(b)
  <2>1. approval'[b].offer = approval[b].offer
    BY <1>1
  <2>2. approval[b].pc \in { "smoke", "list", "offer" }
    BY <1>1
  <2>3. approval[b].offer \in DOMAIN offers
    BY <1>0, <2>2 DEF CascadeInv, Grounded
  <2>4. Target(b)' = Target(b)
    BY <2>1, <2>3 DEF Target
  <2> QED
    BY <1>1, <2>2, <2>4
<1>2. OwnChildren'
    BY <1>0, <1>1 DEF OwnChildren
<1>3. ASSUME NEW h \in Hub \ {RootHub} PROVE Paid(h)'
  <2>1. Offers(h)' = Offers(h)
    BY DEF Offers
  <2>2. Owing(h)' \subseteq Owing(h)
    BY <1>1 DEF Owing
  <2>3. Paid(h)
    BY DEF CountInv
  <2>4. /\ IsFiniteSet(Owing(h)')
        /\ Cardinality(Owing(h)') <= Cardinality(Owing(h))
        /\ Cardinality(Owing(h)) \in Nat /\ Cardinality(Owing(h)') \in Nat
    BY <2>2, <2>3, FS_Subset, FS_CardinalityType DEF Paid
  <2>5. Cardinality(Offers(h)) \in Nat /\ past.claims[UpHub[h]] \in Nat
    BY <1>0, OffersFinite, ClaimsNat
  <2>6. Cardinality(Offers(h)) + Cardinality(Owing(h)) <= past.claims[UpHub[h]]
    BY <2>3 DEF Paid
  <2>7. Cardinality(Offers(h)) + Cardinality(Owing(h)') <= past.claims[UpHub[h]]
    BY <2>4, <2>5, <2>6
  <2> QED
    BY <2>1, <2>4, <2>7 DEF Paid
<1> QED
    BY <1>2, <1>3 DEF CountInv

\* An approval that is put down pays for one more row of every child.
LEMMA ClaimCounts ==
    ASSUME CountInv, CascadeInv', NEW a \in Admin, ClaimUpdate(a)
    PROVE  CountInv'
<1>0. CascadeInv /\ CascadeTypeOK /\ OwnChildren /\ approval[a].pc = "claim"
    BY DEF CountInv, CascadeInv, ClaimUpdate
<1>1. approval[a].offer \in DOMAIN offers /\ Target(a) \in Hub
    BY <1>0, RowTypes DEF CascadeInv
<1>2. /\ Len(offers') = Len(offers)
      /\ \A j \in DOMAIN offers : offers'[j].target = offers[j].target
    BY <1>0, <1>1, WriteRow DEF ClaimUpdate
<1>3. DOMAIN offers' = DOMAIN offers
    BY <1>0, <1>2 DEF CascadeInv, CascadeTypeOK
<1>4. /\ approval'[a].pc = "smoke" /\ approval'[a].offer = approval[a].offer
      /\ \A b \in Admin : b # a => approval'[b] = approval[b]
    BY <1>0, GotoTypes DEF ClaimUpdate
<1>5. ASSUME NEW b \in Admin, approval'[b].pc \in { "smoke", "list", "offer" }
      PROVE  Target(b)' = Target(b)
  <2>1. approval'[b].offer = approval[b].offer /\ approval[b].pc # "idle"
    BY <1>0, <1>4, <1>5
  <2>2. approval[b].offer \in DOMAIN offers
    BY <1>0, <2>1 DEF CascadeInv, Grounded
  <2> QED
    BY <1>2, <2>1, <2>2 DEF Target
<1>6. OwnChildren'
    BY <1>0, <1>4, <1>5 DEF OwnChildren
<1>7. /\ past'.claims[Target(a)] = past.claims[Target(a)] + 1
      /\ \A k \in Hub : k # Target(a) => past'.claims[k] = past.claims[k]
  <2>1. past \in [ cut : SUBSET Hub, moved : SUBSET Hub, claims : [ Hub -> Nat ] ]
    BY <1>0 DEF CascadeTypeOK
  <2>2. past' = [ past EXCEPT !.claims =
                    [ past.claims EXCEPT ![Target(a)] = past.claims[Target(a)] + 1 ] ]
    BY <2>1 DEF ClaimUpdate
  <2> QED
    BY <1>1, <2>1, <2>2
<1>8. ASSUME NEW h \in Hub \ {RootHub} PROVE Paid(h)'
  <2>1. Offers(h)' = Offers(h)
    BY <1>2, <1>3 DEF Offers
  <2>2. /\ IsFiniteSet(Owing(h)) /\ Cardinality(Owing(h)) \in Nat
        /\ Cardinality(Offers(h)) + Cardinality(Owing(h)) <= past.claims[UpHub[h]]
    BY FS_CardinalityType DEF CountInv, Paid
  <2>3. Cardinality(Offers(h)) \in Nat /\ past.claims[UpHub[h]] \in Nat /\ UpHub[h] \in Hub
    BY <1>0, OffersFinite, ClaimsNat
  <2>4. CASE UpHub[h] = Target(a)
    <3>1. Owing(h)' = Owing(h) \cup {a} /\ a \notin Owing(h)
      <4>1. a \in Owing(h)' /\ a \notin Owing(h)
        BY <1>0, <1>4, <1>5, <2>4 DEF Owing
      <4>2. ASSUME NEW b \in Admin, b # a PROVE b \in Owing(h)' <=> b \in Owing(h)
        BY <1>4, <1>5, <4>2 DEF Owing
      <4>3. Owing(h) \subseteq Admin /\ Owing(h)' \subseteq Admin
        BY DEF Owing
      <4> QED
        BY <4>1, <4>2, <4>3
    <3>2. /\ IsFiniteSet(Owing(h)')
          /\ Cardinality(Owing(h)') = Cardinality(Owing(h)) + 1
      BY <2>2, <3>1, FS_AddElement
    <3>3. Cardinality(Offers(h)) + Cardinality(Owing(h)') <= past.claims[UpHub[h]] + 1
      BY <2>2, <2>3, <3>2
    <3> QED
      BY <1>7, <2>1, <2>4, <3>2, <3>3 DEF Paid
  <2>5. CASE UpHub[h] # Target(a)
    <3>1. Owing(h)' = Owing(h)
      <4>1. a \notin Owing(h)' /\ a \notin Owing(h)
        BY <1>0, <1>4, <1>5, <2>5 DEF Owing
      <4>2. ASSUME NEW b \in Admin, b # a PROVE b \in Owing(h)' <=> b \in Owing(h)
        BY <1>4, <1>5, <4>2 DEF Owing
      <4>3. Owing(h) \subseteq Admin /\ Owing(h)' \subseteq Admin
        BY DEF Owing
      <4> QED
        BY <4>1, <4>2, <4>3
    <3> QED
      BY <1>7, <2>1, <2>2, <2>3, <2>5, <3>1 DEF Paid
  <2> QED
    BY <2>4, <2>5
<1> QED
    BY <1>6, <1>8 DEF CountInv

\* A row that is written was owed, by the approval whose cascade writes it.
LEMMA OfferCounts ==
    ASSUME CountInv, CascadeInv', NEW a \in Admin, NEW k \in Hub, OfferChild(a, k)
    PROVE  CountInv'
<1>0. /\ CascadeInv /\ CascadeTypeOK /\ OwnChildren /\ past' = past
      /\ approval[a].pc = "offer" /\ k \in approval[a].todo
    BY DEF CountInv, CascadeInv, OfferChild
<1>1. k # RootHub /\ UpHub[k] = Target(a) /\ Target(a) \in Hub
    BY <1>0, RowTypes DEF OwnChildren, CascadeInv
<1>2. offers \in Seq(OfferRec) /\ Offer(Target(a), k) \in OfferRec
    BY <1>0, <1>1 DEF CascadeTypeOK, OfferRec, Offer
<1>3. /\ Len(offers) \in Nat /\ DOMAIN offers = 1 .. Len(offers)
      /\ DOMAIN offers' = DOMAIN offers \cup { Len(offers) + 1 }
      /\ \A j \in DOMAIN offers : offers'[j] = offers[j]
      /\ offers'[Len(offers) + 1].target = k
    BY <1>2 DEF OfferChild, Offer
<1>4. /\ approval'[a].pc = "offer" /\ approval'[a].offer = approval[a].offer
      /\ approval'[a].todo = approval[a].todo \ {k}
      /\ \A b \in Admin : b # a => approval'[b] = approval[b]
  <2>1. approval \in [ Admin -> ApprovalRec ] /\ approval[a] \in ApprovalRec
    BY <1>0 DEF CascadeTypeOK, ApprovalRec
  <2>2. approval' = [ approval EXCEPT ![a] = [ approval[a] EXCEPT !.todo = @ \ {k} ] ]
    BY <2>1 DEF OfferChild
  <2> QED
    BY <1>0, <2>1, <2>2 DEF ApprovalRec
<1>5. ASSUME NEW b \in Admin, approval[b].pc \in { "smoke", "list", "offer" }
      PROVE  Target(b)' = Target(b)
  <2>1. approval[b].offer \in DOMAIN offers /\ approval'[b].offer = approval[b].offer
    BY <1>0, <1>4, <1>5 DEF CascadeInv, Grounded
  <2> QED
    BY <1>3, <2>1 DEF Target
<1>6. OwnChildren'
    BY <1>0, <1>4, <1>5 DEF OwnChildren
<1>7. ASSUME NEW h \in Hub \ {RootHub} PROVE Paid(h)'
  <2>1. /\ IsFiniteSet(Owing(h)) /\ Cardinality(Owing(h)) \in Nat
        /\ Cardinality(Offers(h)) + Cardinality(Owing(h)) <= past.claims[UpHub[h]]
    BY FS_CardinalityType DEF CountInv, Paid
  <2>2. /\ IsFiniteSet(Offers(h)) /\ Cardinality(Offers(h)) \in Nat
        /\ past.claims[UpHub[h]] \in Nat
    BY <1>0, OffersFinite, ClaimsNat
  <2>3. ASSUME NEW b \in Admin, b # a PROVE b \in Owing(h)' <=> b \in Owing(h)
    BY <1>4, <1>5, <2>3 DEF Owing
  <2>4. Owing(h) \subseteq Admin /\ Owing(h)' \subseteq Admin
    BY DEF Owing
  <2>5. CASE h = k
    <3>1. a \in Owing(h) /\ a \notin Owing(h)'
      BY <1>0, <1>1, <1>4, <2>5 DEF Owing
    <3>2. Owing(h)' = Owing(h) \ {a}
      BY <2>3, <2>4, <3>1
    <3>3. /\ IsFiniteSet(Owing(h)')
          /\ Cardinality(Owing(h)') = Cardinality(Owing(h)) - 1
      BY <2>1, <3>1, <3>2, FS_RemoveElement
    <3>4. Offers(h)' = Offers(h) \cup { Len(offers) + 1 } /\ Len(offers) + 1 \notin Offers(h)
      BY <1>3, <2>5 DEF Offers
    <3>5. Cardinality(Offers(h)') = Cardinality(Offers(h)) + 1
      BY <2>2, <3>4, FS_AddElement
    <3>6. Cardinality(Offers(h)') + Cardinality(Owing(h)') <= past.claims[UpHub[h]]
      BY <2>1, <2>2, <3>3, <3>5
    <3> QED
      BY <1>0, <3>3, <3>6 DEF Paid
  <2>6. CASE h # k
    <3>1. a \in Owing(h)' <=> a \in Owing(h)
      BY <1>0, <1>4, <1>5, <2>6 DEF Owing
    <3>2. Owing(h)' = Owing(h)
      BY <2>3, <2>4, <3>1
    <3>3. Offers(h)' = Offers(h)
      BY <1>3, <2>6 DEF Offers
    <3> QED
      BY <1>0, <2>1, <3>2, <3>3 DEF Paid
  <2> QED
    BY <2>5, <2>6
<1> QED
    BY <1>6, <1>7 DEF CountInv

LEMMA CountInductive == CountInv /\ [CascadeNext]_cascadeVars => CountInv'
<1> SUFFICES ASSUME CountInv, [CascadeNext]_cascadeVars PROVE CountInv'
    OBVIOUS
<1>0. CascadeInv' /\ CascadeInv /\ CascadeTypeOK
    BY CascadeInductive DEF CountInv, CascadeInv
<1>r. approval \in [ Admin -> ApprovalRec ] /\ NoApproval.pc = "idle"
    BY <1>0 DEF CascadeTypeOK, ApprovalRec, NoApproval
<1>1. ASSUME NEW a \in Admin, ClaimUpdate(a) PROVE CountInv'
    BY <1>0, <1>1, ClaimCounts
<1>2. ASSUME NEW a \in Admin, NEW h \in Hub, OfferChild(a, h) PROVE CountInv'
    BY <1>0, <1>2, OfferCounts
<1>3. ASSUME NEW a \in Admin, SmokePasses(a) PROVE CountInv'
  <2>1. approval[a].offer \in DOMAIN offers
    BY <1>0, <1>3, RowTypes DEF SmokePasses, CascadeInv
  <2>2. /\ Len(offers') = Len(offers)
        /\ \A j \in DOMAIN offers : offers'[j].target = offers[j].target
    BY <1>0, <1>3, <2>1, WriteRow DEF SmokePasses, SetStatus
  <2>3. DOMAIN offers' = DOMAIN offers
    BY <1>0, <2>2 DEF CascadeInv, CascadeTypeOK
  <2>4. /\ approval'[a].pc = "list" /\ approval'[a].offer = approval[a].offer
        /\ approval[a].pc = "smoke"
        /\ \A b \in Admin : b # a => approval'[b] = approval[b]
    BY <1>0, <1>3, GotoTypes DEF SmokePasses
  <2> QED
    BY <1>0, <1>3, <2>2, <2>3, <2>4, OwesNoMore DEF SmokePasses
<1>4. ASSUME NEW a \in Admin, NEW i \in DOMAIN offers, SmokeFails(a) \/ RejectOffer(a, i)
      PROVE  CountInv'
  <2>1. /\ Len(offers') = Len(offers)
        /\ \A j \in DOMAIN offers : offers'[j].target = offers[j].target
    <3>1. CASE SmokeFails(a)
      <4>1. approval[a].offer \in DOMAIN offers
        BY <1>0, <3>1, RowTypes DEF SmokeFails, CascadeInv
      <4> QED
        BY <1>0, <3>1, <4>1, WriteRow DEF SmokeFails, SetStatus
    <3>2. CASE RejectOffer(a, i)
      BY <1>0, <3>2, WriteRow DEF RejectOffer
    <3> QED
      BY <1>4, <3>1, <3>2
  <2>2. DOMAIN offers' = DOMAIN offers
    BY <1>0, <2>1 DEF CascadeInv, CascadeTypeOK
  <2>3. \A b \in Admin : approval'[b] = approval[b] \/ approval'[b].pc = "idle"
    BY <1>4, <1>r DEF SmokeFails, RejectOffer
  <2>4. past' = past
    BY <1>4 DEF SmokeFails, RejectOffer
  <2> QED
    BY <1>0, <2>1, <2>2, <2>3, <2>4, OwesNoMore
<1>5. ASSUME NEW a \in Admin, ListChildren(a) PROVE CountInv'
  <2> DEFINE kids == { k \in enrolled \ {RootHub} : UpHub[k] = Target(a) }
  <2>1. approval[a] \in ApprovalRec /\ approval[a].pc = "list"
    BY <1>5, <1>r DEF ListChildren
  <2>2. approval' = [ approval EXCEPT ![a] =
                       [ [ approval[a] EXCEPT !.pc = "offer" ] EXCEPT !.todo = kids ] ]
    BY <1>5, <1>r DEF ListChildren
  <2>3. \A k \in kids : k # RootHub /\ UpHub[k] = Target(a)
    OBVIOUS
  <2> HIDE DEF kids
  <2>4. /\ approval'[a].pc = "offer" /\ approval'[a].offer = approval[a].offer
        /\ approval'[a].todo = kids
        /\ \A b \in Admin : b # a => approval'[b] = approval[b]
    BY <1>r, <2>1, <2>2 DEF ApprovalRec
  <2> QED
    BY <1>0, <1>5, <2>1, <2>3, <2>4, OwesNoMore DEF ListChildren
<1>6. ASSUME NEW a \in Admin, NEW h \in Hub, SkipChild(a, h) \/ OfferFails(a, h)
      PROVE  CountInv'
  <2>1. approval[a] \in ApprovalRec /\ approval[a].pc = "offer"
    BY <1>6, <1>r DEF SkipChild, OfferFails
  <2>2. approval' = [ approval EXCEPT ![a] = [ approval[a] EXCEPT !.todo = @ \ {h} ] ]
    BY <1>6, <1>r DEF SkipChild, OfferFails
  <2>3. /\ approval'[a].pc = "offer" /\ approval'[a].offer = approval[a].offer
        /\ approval'[a].todo \subseteq approval[a].todo
        /\ \A b \in Admin : b # a => approval'[b] = approval[b]
    BY <1>r, <2>1, <2>2 DEF ApprovalRec
  <2>4. past'.claims = past.claims /\ offers' = offers
    BY <1>0, <1>6 DEF SkipChild, OfferFails, CascadeTypeOK
  <2> QED
    BY <1>0, <2>1, <2>3, <2>4, OwesNoMore
<1>7. ASSUME NEW a \in Admin, CascadeEnds(a) PROVE CountInv'
    BY <1>0, <1>7, <1>r, OwesNoMore DEF CascadeEnds
<1>8. ASSUME NEW a \in Admin, NEW i \in DOMAIN offers, Approve(a, i) PROVE CountInv'
    BY <1>0, <1>8, <1>r, OwesNoMore DEF Approve
<1>9. ASSUME NEW h \in Hub, CascadeHubDies(h) PROVE CountInv'
  <2>1. past'.claims = past.claims /\ offers' = offers
    BY <1>0, <1>9 DEF CascadeHubDies, CascadeTypeOK
  <2>2. \A b \in Admin : approval'[b] = approval[b] \/ approval'[b].pc = "idle"
    BY <1>9, <1>r DEF CascadeHubDies
  <2> QED
    BY <1>0, <2>1, <2>2, OwesNoMore
<1>10. ASSUME NEW h \in Hub \ {RootHub}, SetConsent(h) \/ ChangeConsent(h)
       PROVE  CountInv'
  <2>1. past'.claims = past.claims /\ offers' = offers /\ approval' = approval
    BY <1>0, <1>10 DEF SetConsent, ChangeConsent, CascadeTypeOK
  <2> QED
    BY <1>0, <2>1, OwesNoMore
<1>11. CASE UNCHANGED cascadeVars
    BY <1>0, <1>11, OwesNoMore DEF cascadeVars
<1>12. ASSUME NEW a \in Admin, CascadeRaises(a) PROVE CountInv'
  <2>1. past'.claims = past.claims /\ offers' = offers
    BY <1>0, <1>12 DEF CascadeRaises, CascadeTypeOK
  <2>2. \A b \in Admin : approval'[b] = approval[b] \/ approval'[b].pc = "idle"
    BY <1>12, <1>r DEF CascadeRaises
  <2> QED
    BY <1>0, <2>1, <2>2, OwesNoMore
<1> QED
  <2>1. ASSUME NEW a \in Admin, SmokeFails(a) PROVE CountInv'
    <3>1. approval[a].offer \in DOMAIN offers
      BY <1>0, <2>1, RowTypes DEF SmokeFails, CascadeInv
    <3> QED
      BY <1>4, <2>1, <3>1
  <2> QED
    BY <1>1, <1>2, <1>3, <1>4, <1>5, <1>6, <1>7, <1>8, <1>9, <1>10, <1>11, <1>12,
       <2>1 DEF CascadeNext, CascadeStep

LEMMA CountStarts == CascadeInit => CountInv
<1> SUFFICES ASSUME CascadeInit PROVE CountInv
    OBVIOUS
<1>1. CascadeInv
    BY CascadeStarts
<1>2. \A a \in Admin : approval[a].pc = "idle"
    BY DEF CascadeInit, NoApproval
<1>3. OwnChildren
    BY <1>2 DEF OwnChildren
<1>4. ASSUME NEW h \in Hub \ {RootHub} PROVE Paid(h)
  <2>1. Owing(h) = {}
    BY <1>2 DEF Owing
  <2>2. Offers(h) = {}
    BY DEF CascadeInit, Offer, Offers
  <2>3. past.claims[UpHub[h]] = 0
    BY CascadeAssumption DEF CascadeInit
  <2>4. IsFiniteSet({}) /\ Cardinality({}) = 0
    BY FS_EmptySet
  <2> QED
    BY <2>1, <2>2, <2>3, <2>4 DEF Paid
<1> QED
    BY <1>1, <1>3, <1>4 DEF CountInv

LEMMA PaidIsCounted == CountInv => OffersCounted
<1> SUFFICES ASSUME CountInv, NEW h \in Hub \ {RootHub}
             PROVE  Cardinality(Offers(h)) <= past.claims[UpHub[h]]
  BY DEF OffersCounted
<1>1. /\ Cardinality(Owing(h)) \in Nat
      /\ Cardinality(Offers(h)) + Cardinality(Owing(h)) <= past.claims[UpHub[h]]
  BY FS_CardinalityType DEF CountInv, Paid
<1>2. Cardinality(Offers(h)) \in Nat /\ past.claims[UpHub[h]] \in Nat
  BY OffersFinite, ClaimsNat DEF CountInv, CascadeInv
<1> QED
  BY <1>1, <1>2

\* _insert_child_update: for every tree and however many admins approve at
\* once, a Hub is offered the bundle at most once for each approval that was put
\* down for its parent.
THEOREM CascadeCounts == CascadeSpec => []OffersCounted
BY PaidIsCounted, CountStarts, CountInductive, PTL DEF CascadeSpec

-----------------------------------------------------------------------------
(* The services side by side                                               *)

\* Each service's own inductive invariant.
ServicesInv ==
    /\ HubInv
    /\ ReplayInv
    /\ BusInv
    /\ AuditInv
    /\ CountInv

LEMMA ServicesStart == ServicesInit => ServicesInv
<1> SUFFICES ASSUME ServicesInit PROVE ServicesInv
    OBVIOUS
<1>1. HubInit /\ OutboxInit /\ BusInit /\ AuditInit /\ CascadeInit
    BY DEF ServicesInit
<1> QED
    BY <1>1, HubInitInv, ReplayStarts, BusStarts, AuditInitInv, CountStarts
    DEF ServicesInv

\* A step of ServicesSpec is a step of one service, and the others' variables
\* stay: each service takes a step of its own or none.
LEMMA EachItsOwnStep ==
    ASSUME [ServicesNext]_allVars
    PROVE  /\ [HubNext]_hubVars
           /\ [OutboxNext]_outboxVars
           /\ [BusNext]_busVars
           /\ [AuditNext]_auditVars
           /\ [CascadeNext]_cascadeVars
<1>1. CASE UNCHANGED allVars
    BY <1>1 DEF allVars
<1>2. CASE focus = "hub" /\ HubNext
           /\ Frozen(<< outboxVars, busVars, auditVars, cascadeVars >>)
    BY <1>2 DEF Frozen
<1>3. CASE focus = "outbox" /\ OutboxNext
           /\ Frozen(<< hubVars, busVars, auditVars, cascadeVars >>)
    BY <1>3 DEF Frozen
<1>4. CASE focus = "bus" /\ BusNext
           /\ Frozen(<< hubVars, outboxVars, auditVars, cascadeVars >>)
    BY <1>4 DEF Frozen
<1>5. CASE focus = "audit" /\ AuditNext
           /\ Frozen(<< hubVars, outboxVars, busVars, cascadeVars >>)
    BY <1>5 DEF Frozen
<1>6. CASE focus = "cascade" /\ CascadeNext
           /\ Frozen(<< hubVars, outboxVars, busVars, auditVars >>)
    BY <1>6 DEF Frozen
<1> QED
    BY <1>1, <1>2, <1>3, <1>4, <1>5, <1>6 DEF ServicesNext

LEMMA ServicesInductive == ServicesInv /\ [ServicesNext]_allVars => ServicesInv'
<1> SUFFICES ASSUME ServicesInv, [ServicesNext]_allVars PROVE ServicesInv'
    OBVIOUS
<1>1. HubInv'
    BY EachItsOwnStep, HubStep DEF ServicesInv
<1>2. ReplayInv'
    BY EachItsOwnStep, ReplayInductive DEF ServicesInv
<1>3. BusInv'
    BY EachItsOwnStep, BusInductive DEF ServicesInv
<1>4. AuditInv'
    BY EachItsOwnStep, AuditStep DEF ServicesInv
<1>5. CountInv'
    BY EachItsOwnStep, CountInductive DEF ServicesInv
<1> QED
    BY <1>1, <1>2, <1>3, <1>4, <1>5 DEF ServicesInv

LEMMA ServicesInvariant == ServicesSpec => []ServicesInv
BY ServicesStart, ServicesInductive, PTL DEF ServicesSpec

\* The Hub, the watcher of the outboxes, the work buses, the audits and the
\* update cascade keep their types side by side: no step of one writes what
\* another relies on.
THEOREM ServicesTypes == ServicesSpec => []ServicesTypeOK
<1>1. ServicesInv => ServicesTypeOK
  <2> SUFFICES ASSUME ServicesInv PROVE ServicesTypeOK
    OBVIOUS
  <2>1. HubTypeOK /\ BusTypeOK
    BY DEF ServicesInv, HubInv, BusInv
  <2>2. OutboxTypeOK
    BY DEF ServicesInv, ReplayInv, OutboxInv
  <2>3. AuditTypeOK
    BY InvTypes DEF ServicesInv
  <2>4. CascadeTypeOK
    BY DEF ServicesInv, CountInv, CascadeInv
  <2> QED
    BY <2>1, <2>2, <2>3, <2>4 DEF ServicesTypeOK
<1> QED
    BY <1>1, ServicesInvariant, PTL
=============================================================================
