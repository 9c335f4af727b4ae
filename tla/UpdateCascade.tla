--------------------------- MODULE UpdateCascade ---------------------------
(***************************************************************************)
(* The distribution of one bundle version over a tree of Hubs              *)
(* (federation/update_cascade.py).  A Hub's admin approves the row of      *)
(* update_distribution that targets it; the Hub applies the bundle and     *)
(* writes a pending row for every child that consents, where the same gate *)
(* waits.  Registry and consents change meanwhile (hub_registry.py,        *)
(* consent.py), several admins act at once, and a Hub may die in between.  *)
(* The notification of a child is best effort and changes no row.          *)
(***************************************************************************)
EXTENDS Naturals, Sequences, FiniteSets

CONSTANTS
    Hub, RootHub,   \* the root's row comes from the vendor
    UpHub,          \* UpHub[h]: parent_hub_id of every other Hub
    Admin,
    MaxOffers,      \* bound: rows of update_distribution
    MaxUpsets       \* bound: crashes, failed smokes and queries, rejections,
                    \* changes of registry and consents

ASSUME CascadeAssumption ==
    /\ RootHub \in Hub
    /\ UpHub \in [ Hub \ {RootHub} -> Hub ]
    /\ MaxOffers \in Nat /\ MaxUpsets \in Nat

Vendor == "vendor"

VARIABLES
    offers,     \* update_distribution, in order of creation
    enrolled,   \* Hubs whose consent_status is active
    consents,   \* consent_record of update_push: child and parent
    installed,  \* Hubs that committed the bundle
    approval,   \* approval[a]: the approve_and_apply admin a is in
    upsets,
    past        \* history: Hubs whose cascade a crash, a failed query or the bound
                \* on rows cut short, Hubs whose consent changed, and how often an
                \* approval of a Hub's rows was put down

cascadeVars == << offers, enrolled, consents, installed, approval, upsets, past >>

NoApproval == [ pc |-> "idle", offer |-> 0, todo |-> {} ]

Offer(from, to) == [ source |-> from, target |-> to, status |-> "pending",
                     by |-> "nobody" ]

CascadeInit ==
    /\ offers = << Offer(Vendor, RootHub) >>
    /\ enrolled = Hub
    /\ consents = { << h, UpHub[h] >> : h \in Hub \ {RootHub} }
    /\ installed = {}
    /\ approval = [ a \in Admin |-> NoApproval ]
    /\ upsets = 0
    /\ past = [ cut |-> {}, moved |-> {}, claims |-> [ h \in Hub |-> 0 ] ]

-----------------------------------------------------------------------------

Upset == upsets < MaxUpsets /\ upsets' = upsets + 1

Target(a) == offers[approval[a].offer].target

\* _set_status: by id, whatever the row says by now.
SetStatus(i, status) == offers' = [ offers EXCEPT ![i].status = status ]

Goto(a, pc) == approval' = [ approval EXCEPT ![a].pc = pc ]

\* approve_and_apply fetches the row and refuses one that is not pending.
Approve(a, i) ==
    /\ approval[a].pc = "idle"
    /\ offers[i].status = "pending"
    /\ approval' = [ approval EXCEPT ![a] = [ pc |-> "claim", offer |-> i, todo |-> {} ] ]
    /\ UNCHANGED << offers, enrolled, consents, installed, upsets, past >>

\* The approver is put down with the status.
ClaimUpdate(a) ==
    /\ approval[a].pc = "claim"
    /\ offers' = [ offers EXCEPT ![approval[a].offer].status = "in_progress",
                                 ![approval[a].offer].by = a ]
    /\ Goto(a, "smoke")
    /\ past' = [ past EXCEPT !.claims[Target(a)] = @ + 1 ]
    /\ UNCHANGED << enrolled, consents, installed, upsets >>

\* sanity_smoke passes, and the row is completed.
SmokePasses(a) ==
    /\ approval[a].pc = "smoke"
    /\ SetStatus(approval[a].offer, "completed")
    /\ installed' = installed \cup { Target(a) }
    /\ Goto(a, "list")
    /\ UNCHANGED << enrolled, consents, upsets, past >>

\* Faulty: the error is not raised, and the cascade goes on.
SmokeFailsOn(a) ==
    /\ approval[a].pc = "smoke"
    /\ Upset
    /\ SetStatus(approval[a].offer, "failed")
    /\ Goto(a, "list")
    /\ UNCHANGED << enrolled, consents, installed, past >>

\* It raises or says no: the row is failed and nothing is cascaded.
SmokeFails(a) ==
    /\ approval[a].pc = "smoke"
    /\ Upset
    /\ SetStatus(approval[a].offer, "failed")
    /\ approval' = [ approval EXCEPT ![a] = NoApproval ]
    /\ UNCHANGED << enrolled, consents, installed, past >>

\* list_children, with the consent_status of that moment.
ListChildren(a) ==
    /\ approval[a].pc = "list"
    /\ approval' = [ approval EXCEPT ![a].pc = "offer", ![a].todo =
                       { h \in enrolled \ {RootHub} : UpHub[h] = Target(a) } ]
    /\ UNCHANGED << offers, enrolled, consents, installed, upsets, past >>

\* ConsentEngine.is_allowed: a record of the class that names the Hub, as the
\* child or as the parent.
IsAllowed(h) == \E c \in consents : h \in { c[1], c[2] }

SkipChild(a, h) ==
    /\ approval[a].pc = "offer" /\ h \in approval[a].todo
    /\ ~IsAllowed(h)
    /\ approval' = [ approval EXCEPT ![a].todo = @ \ {h} ]
    /\ UNCHANGED << offers, enrolled, consents, installed, upsets, past >>

\* Faulty: the loop ends with the first child.
OfferChildLast(a, h) ==
    /\ approval[a].pc = "offer" /\ h \in approval[a].todo
    /\ IsAllowed(h)
    /\ approval' = [ approval EXCEPT ![a].todo = {} ]
    /\ Len(offers) < MaxOffers
    /\ offers' = Append(offers, Offer(Target(a), h))
    /\ UNCHANGED << enrolled, consents, installed, upsets, past >>

\* Faulty: a child stays on the list after its turn.
OfferChildAgain(a, h) ==
    /\ approval[a].pc = "offer" /\ h \in approval[a].todo
    /\ IsAllowed(h)
    /\ Len(offers) < MaxOffers
    /\ offers' = Append(offers, Offer(Target(a), h))
    /\ UNCHANGED << enrolled, consents, installed, approval, upsets, past >>

\* _insert_child_update: one pending row.
OfferChild(a, h) ==
    /\ approval[a].pc = "offer" /\ h \in approval[a].todo
    /\ IsAllowed(h)
    /\ approval' = [ approval EXCEPT ![a].todo = @ \ {h} ]
    /\ Len(offers) < MaxOffers
    /\ offers' = Append(offers, Offer(Target(a), h))
    /\ UNCHANGED << enrolled, consents, installed, upsets, past >>

\* The INSERT fails, or is past the bound: the next child's turn.
OfferFails(a, h) ==
    /\ approval[a].pc = "offer" /\ h \in approval[a].todo
    /\ IsAllowed(h)
    /\ IF Len(offers) < MaxOffers THEN Upset ELSE UNCHANGED upsets
    /\ approval' = [ approval EXCEPT ![a].todo = @ \ {h} ]
    /\ past' = [ past EXCEPT !.cut = @ \cup { Target(a) } ]
    /\ UNCHANGED << offers, enrolled, consents, installed >>

CascadeEnds(a) ==
    /\ approval[a].pc = "offer" /\ approval[a].todo = {}
    /\ approval' = [ approval EXCEPT ![a] = NoApproval ]
    /\ UNCHANGED << offers, enrolled, consents, installed, upsets, past >>

\* list_children or is_allowed raises, outside the try of the loop: the rows
\* that are written stay, and the remaining children are not asked.
CascadeRaises(a) ==
    /\ approval[a].pc = "list" \/ (approval[a].pc = "offer" /\ approval[a].todo # {})
    /\ Upset
    /\ approval' = [ approval EXCEPT ![a] = NoApproval ]
    /\ past' = [ past EXCEPT !.cut = @ \cup { Target(a) } ]
    /\ UNCHANGED << offers, enrolled, consents, installed >>

\* reject: no look at the row's status, and nothing is cascaded.
RejectOffer(a, i) ==
    /\ approval[a].pc = "idle"
    /\ Upset
    /\ offers' = [ offers EXCEPT ![i].status = "rolled_back", ![i].by = a ]
    /\ UNCHANGED << enrolled, consents, installed, approval, past >>

\* The process of a Hub dies with its approvals; the rows stay as they are.
CascadeHubDies(h) ==
    /\ \E a \in Admin : approval[a].pc # "idle" /\ Target(a) = h
    /\ Upset
    /\ approval' = [ a \in Admin |->
           IF approval[a].pc # "idle" /\ Target(a) = h THEN NoApproval
                                                       ELSE approval[a] ]
    /\ past' = [ past EXCEPT !.cut = @ \cup {h} ]
    /\ UNCHANGED << offers, enrolled, consents, installed >>

\* set_consent_status of a child, active or not.
SetConsent(h) ==
    /\ Upset
    /\ enrolled' = IF h \in enrolled THEN enrolled \ {h} ELSE enrolled \cup {h}
    /\ past' = [ past EXCEPT !.moved = @ \cup {h} ]
    /\ UNCHANGED << offers, consents, installed, approval >>

\* grant and revoke of update_push.
ChangeConsent(h) ==
    /\ Upset
    /\ LET c == << h, UpHub[h] >> IN
       consents' = IF c \in consents THEN consents \ {c} ELSE consents \cup {c}
    /\ past' = [ past EXCEPT !.moved = @ \cup {h} ]
    /\ UNCHANGED << offers, enrolled, installed, approval >>

CascadeStep(a) ==
    \/ ClaimUpdate(a) \/ SmokePasses(a) \/ ListChildren(a) \/ CascadeEnds(a)
    \/ \E h \in Hub : SkipChild(a, h) \/ OfferChild(a, h) \/ OfferFails(a, h)

CascadeNext ==
    \/ \E a \in Admin :
          \/ CascadeStep(a) \/ SmokeFails(a) \/ CascadeRaises(a)
          \/ \E i \in DOMAIN offers : Approve(a, i) \/ RejectOffer(a, i)
    \/ \E h \in Hub : CascadeHubDies(h)
    \/ \E h \in Hub \ {RootHub} : SetConsent(h) \/ ChangeConsent(h)

\* A coroutine goes on; nothing is assumed of admins.
CascadeFairness == \A a \in Admin : WF_cascadeVars(CascadeStep(a))

CascadeSpec == CascadeInit /\ [][CascadeNext]_cascadeVars /\ CascadeFairness

-----------------------------------------------------------------------------
\* The types; a row has a status that V23's CHECK on rollout_status allows.
CascadeTypeOK ==
    /\ offers \in Seq([ source : Hub \cup {Vendor}, target : Hub,
                        status : { "pending", "in_progress", "completed", "failed",
                                   "rolled_back" },
                        by : Admin \cup {"nobody"} ])
    /\ enrolled \subseteq Hub /\ installed \subseteq Hub
    /\ past \in [ cut : SUBSET Hub, moved : SUBSET Hub, claims : [ Hub -> Nat ] ]
    /\ consents \subseteq Hub \X Hub
    /\ approval \in [ Admin -> [ pc : { "idle", "claim", "smoke", "list", "offer" },
                                 offer : 0 .. Len(offers), todo : SUBSET Hub ] ]
    /\ upsets \in 0 .. MaxUpsets

\* "An approval gate at every tier": a Hub offers the bundle only after it has
\* passed its own smoke, and a Hub that has it was asked and somebody answered
\* for it by name, up the tree to the vendor.
GateAtEveryTier ==
    /\ \A i \in DOMAIN offers : offers[i].source \in installed \cup {Vendor}
    /\ \A h \in installed :
          \E i \in DOMAIN offers : offers[i].target = h /\ offers[i].by \in Admin

Offers(h) == { i \in DOMAIN offers : offers[i].target = h }

\* A Hub is offered the bundle at most once for each approval that was put down
\* for its parent: twice only when the parent was offered it twice itself, or
\* two admins found the same row pending.
OffersCounted ==
    \A h \in Hub \ {RootHub} : Cardinality(Offers(h)) <= past.claims[UpHub[h]]

\* A child that is enrolled and consents throughout is offered the bundle once
\* its parent has it, unless the parent's cascade was cut short.
ChildrenOffered ==
    <>[](\A h \in Hub \ {RootHub} :
           UpHub[h] \in installed =>
             Offers(h) # {} \/ UpHub[h] \in past.cut \/ h \in past.moved)
=============================================================================
