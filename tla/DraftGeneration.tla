---------------------------- MODULE DraftGeneration ----------------------------
(***************************************************************************)
(* How a policy is written (backend/api/routes.py, _generate_policy_data   *)
(* and create_generate): a language model is asked for the metadata and    *)
(* then for each slot of the document type, what it has written so far is  *)
(* saved after each slot, the user edits the fields of the preview, and a  *)
(* document is made of it.  Each step is one call of the model or of the   *)
(* store.  Who may do that, and how requests overlap, is that of           *)
(* DocumentPipeline.                                                       *)
(***************************************************************************)
EXTENDS Integers, SequencesExt

CONSTANTS
  Slots,        \* the slots of the document type, in order; all are required
  Registered,   \* ids of CONTROL_REGISTRY
  CandidateIds, \* ids of get_required_controls
  Cited,        \* ids the model may cite
  DraftFaults

DraftFaultKinds ==
  { "model",   \* a call of the model raises
    "store" }  \* a call of the store raises, carried out or not

ASSUME DraftAssumption ==
  /\ Slots \in Seq(ToSet(Slots)) \ {<<>>} /\ IsInjective(Slots)
  /\ CandidateIds \subseteq Registered
  /\ DraftFaults \subseteq DraftFaultKinds

\* What comes back: a JSON object that will do, one that will not, one that
\* was cut off at the token limit, or no object at all.
ReplyKinds == {"good", "wrong", "truncated", "invalid"}

\* What the user makes of a field: a text, or, of the fields that are lists,
\* some lines.
Edits == {"text", "lines"}

VARIABLES
  phase,      \* "metadata", "draft", "slot", "save", "insert", "preview",
              \* "document", "controls", "done", "failed" or, where a save
              \* raised, "unsaved"
  attempt,    \* 1 or 2: of one call of _call_model_json_object
  roomy,      \* the slot is asked for with _SECTION_RETRY_MAX_TOKENS
  generated,  \* sections: slots
  missed,     \* section_errors: slots
  draft,      \* the draft in the store: none, or the slots of its sections
  edited,     \* edited[s]: what the user made of the field s
  written,    \* what the document is made of: <<slot, "generated" or "edited">>
  mapped      \* its framework mappings: ids

draftVars == <<phase, attempt, roomy, generated, missed, draft, edited, written, mapped>>

NoDraft == <<"none">>
DraftFault(kind) == kind \in DraftFaults
SlotSet == ToSet(Slots)

DraftInit ==
  /\ phase = "metadata" /\ attempt = 1 /\ roomy = FALSE
  /\ generated = <<>> /\ missed = <<>> /\ draft = NoDraft
  /\ edited = [s \in SlotSet |-> "no"]
  /\ written = <<>> /\ mapped = {}

To(next) == phase' = next
Fails == To("failed") /\ UNCHANGED <<attempt, roomy, generated, missed>>
-----------------------------------------------------------------------------
\* _call_model_json_object: no object, or half of one, is asked for once more.
Retries(reply) == attempt = 1 /\ reply \in {"truncated", "invalid"}
AskAgain == attempt' = 2 /\ UNCHANGED <<phase, roomy, generated, missed>>

\* _validate_policy_metadata
AskMetadata(reply) ==
  /\ phase = "metadata"
  /\ \/ Retries(reply) /\ AskAgain
     \/ /\ reply = "good"
        /\ To("draft") /\ attempt' = 1
        /\ UNCHANGED <<roomy, generated, missed>>
     \/ ~Retries(reply) /\ reply # "good" /\ Fails
     \/ DraftFault("model") /\ Fails
  /\ UNCHANGED <<draft, edited, written, mapped>>

\* save_policy_draft: the policy is there and its sections are deleted, and
\* then the new ones are inserted, a document's after minutes of embedding.
\* A process that stops takes no further step.
Clears(next) ==
  \/ draft' = <<>> /\ To(next)
  \/ DraftFault("store") /\ draft' \in {draft, <<>>} /\ To("unsaved")

InsertsSwallowing(part, next) ==
  \/ draft' = part /\ To(next)
  \/ DraftFault("store") /\ draft' \in {draft, part} /\ To(next)

Inserts(part, next) ==
  \/ draft' = part /\ To(next)
  \/ DraftFault("store") /\ draft' \in {draft, part} /\ To("unsaved")

\* The draft is there before its sections are.
SaveDraft ==
  /\ phase = "draft" /\ Clears("slot")
  /\ UNCHANGED <<attempt, roomy, generated, missed, edited, written, mapped>>
-----------------------------------------------------------------------------
(* _generate_policy_data, a slot *)

Asked == Len(generated) + Len(missed)
NextSlot == Slots[Asked + 1]

\* What was cut off is asked for with more room; what is given up, and what
\* has no object in it, is an error of the slot.
GivesUp(reply) == reply = "invalid" \/ (reply = "truncated" /\ roomy)

\* An object that is no section raises PolicySchemaError, which is not the
\* HTTPException the loop catches: the request fails.
AskSection(reply) ==
  /\ phase = "slot" /\ Asked < Len(Slots)
  /\ \/ Retries(reply) /\ AskAgain
     \/ /\ reply = "good"
        /\ To("save") /\ generated' = Append(generated, NextSlot)
        /\ attempt' = 1 /\ roomy' = FALSE /\ UNCHANGED missed
     \/ /\ ~Retries(reply) /\ reply = "truncated" /\ ~roomy
        /\ roomy' = TRUE /\ attempt' = 1 /\ UNCHANGED <<phase, generated, missed>>
     \/ /\ ~Retries(reply) /\ GivesUp(reply)
        /\ missed' = Append(missed, NextSlot)
        /\ attempt' = 1 /\ roomy' = FALSE /\ UNCHANGED <<phase, generated>>
     \/ reply = "wrong" /\ Fails
     \/ DraftFault("model") /\ Fails
  /\ UNCHANGED <<draft, edited, written, mapped>>

\* The sections so far replace those of the draft.
SaveSections ==
  /\ \/ phase = "save" /\ Clears("insert")
     \/ phase = "insert" /\ Inserts(generated, "slot")
  /\ UNCHANGED <<attempt, roomy, generated, missed, edited, written, mapped>>
-----------------------------------------------------------------------------
\* _build_policy_payload_from_sections, which must have a section.  A request
\* to create a document at once goes on, when no slot is missing.
Payload ==
  /\ phase = "slot" /\ Asked = Len(Slots)
  /\ \/ generated # <<>> /\ To("preview") /\ UNCHANGED written
     \/ /\ missed = <<>> /\ To("done")
        /\ written' = [k \in DOMAIN Slots |-> <<Slots[k], "generated">>]
     \/ missed # <<>> /\ To("failed") /\ UNCHANGED written
  /\ UNCHANGED <<attempt, roomy, generated, missed, draft, edited, mapped>>

\* The editor changes the field of a slot, not its section.
Edit(s, kind) ==
  /\ phase = "preview" /\ edited[s] = "no"
  /\ edited' = [edited EXCEPT ![s] = kind]
  /\ UNCHANGED <<phase, attempt, roomy, generated, missed, draft, written, mapped>>

\* _merge_sections_from_top_level: a field that is a text and not blank is the
\* section, whatever that was; then the sections there are, in order.
MergedWithoutFields(s) ==
  IF s \in ToSet(generated) THEN "generated" ELSE "none"

Merged(s) ==
  IF edited[s] = "text" THEN "edited"
  ELSE IF s \in ToSet(generated) THEN "generated" ELSE "none"

\* create_generate up to save_policy_draft; _ensure_required_slots_or_400.
CreateGenerate ==
  /\ phase = "preview"
  /\ \/ /\ \A s \in SlotSet : Merged(s) # "none"
        /\ written' = [k \in DOMAIN Slots |-> <<Slots[k], Merged(Slots[k])>>]
        /\ Clears("document")
     \/ /\ \E s \in SlotSet : Merged(s) = "none"
        /\ To("failed")
        /\ UNCHANGED <<draft, written>>
  /\ UNCHANGED <<attempt, roomy, generated, missed, edited, mapped>>

SaveDocument ==
  /\ phase = "document" /\ Inserts(Slots, "controls")
  /\ UNCHANGED <<attempt, roomy, generated, missed, edited, written, mapped>>

\* _identify_covered_controls and _grounded_framework_mappings, which keep what
\* is a candidate and registered; any failure leaves the mappings empty.
MapControls(ids) ==
  /\ phase = "controls"
  /\ mapped' = ids \cap CandidateIds \cap Registered
  /\ To("done")
  /\ UNCHANGED <<attempt, roomy, generated, missed, draft, edited, written>>

DraftNext ==
  \/ \E reply \in ReplyKinds : AskMetadata(reply) \/ AskSection(reply)
  \/ SaveDraft \/ SaveSections \/ Payload \/ CreateGenerate \/ SaveDocument
  \/ \E s \in SlotSet, kind \in Edits : Edit(s, kind)
  \/ \E ids \in SUBSET Cited : MapControls(ids)

DraftSpec == DraftInit /\ [][DraftNext]_draftVars
-----------------------------------------------------------------------------
Place(s) == CHOOSE k \in DOMAIN Slots : Slots[k] = s
InSlotOrder(part) == \A i, j \in DOMAIN part : i < j => Place(part[i]) < Place(part[j])

(***************************************************************************)
(* No slot is skipped silently: those that were asked for, in their order, *)
(* are a section or an error, and not both (routes.py:2402-2457).  The     *)
(* draft in the store has every section there is: it is behind by one save *)
(* until that begins, and whatever breaks off between two saves loses      *)
(* nothing.  A save itself deletes first (file_store.py:319): from there   *)
(* to its insert the draft has no sections, and so it stays when the save  *)
(* raises or the process stops.                                            *)
(***************************************************************************)
LastSaved == IF written = <<>> THEN Front(generated) ELSE generated
ToBeSaved == IF written = <<>> THEN generated ELSE Slots

DraftKeepsUp ==
  /\ ToSet(generated) \cup ToSet(missed) = {Slots[k] : k \in 1..Asked}
  /\ ToSet(generated) \cap ToSet(missed) = {}
  /\ InSlotOrder(generated) /\ InSlotOrder(missed)
  /\ \/ draft = ToBeSaved
     \/ phase \in {"save", "unsaved"} /\ draft = LastSaved
     \/ phase \in {"insert", "document", "unsaved"} /\ draft = <<>>
     \/ draft = NoDraft /\ generated = <<>>

(***************************************************************************)
(* A document that is made has every slot of its type, in order, each with *)
(* what the user wrote last: an edit of a field that is one text replaces  *)
(* what was generated, and may stand for a slot that was missed.  It cites *)
(* no control that is not in the registry (routes.py:2261-2300,            *)
(* 3073-3087), whatever the model said.                                    *)
(***************************************************************************)
DocumentIsComplete ==
  phase = "done" =>
    /\ [k \in DOMAIN written |-> written[k][1]] = Slots
    /\ \A k \in DOMAIN Slots :
         /\ written[k][2] = "edited" <=> edited[Slots[k]] = "text"
         /\ Slots[k] \in ToSet(missed) => written[k][2] = "edited"
    /\ mapped \subseteq Registered
=============================================================================
