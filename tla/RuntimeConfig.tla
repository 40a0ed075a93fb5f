--------------------------- MODULE RuntimeConfig ---------------------------
(***************************************************************************)
(* Which credential slot the bot reviews with: the `provider' and          *)
(* `*_key_index' columns of the singleton row runtime_config, and the      *)
(* slot_config table, with the statements of review_queue/store.py over    *)
(* them, each one autocommitted; the model probe every writer is meant to  *)
(* pass (providers/model_check.py); and the boot gate (main.py).           *)
(***************************************************************************)
EXTENDS Render

CONSTANTS
    Vertex,           \* the providers that need a project and a location
    Probed,           \* those of MODEL_PROBE_POLICY that are probed before a write
    Models, NoModel,  \* model names, and the absence of one
    Places, NoPlace,  \* (project, location) pairs, and the absence of one
    Entitled,         \* the <<credential, model>> pairs a call succeeds with
    NoProvider,       \* runtime_config.provider is NULL
    NoIndex,          \* a *_key_index column is NULL
    NoRow             \* slot_config has no row for the slot

SlotRow == [model : Models \cup {NoModel}, place : Places \cup {NoPlace}]

ASSUME ConfigAssumption ==
    /\ Vertex \subseteq Probed /\ Probed \subseteq Providers /\ NoProvider \notin Providers
    /\ NoModel \notin Models /\ NoPlace \notin Places
    /\ NoIndex \notin Slots /\ NoRow \notin SlotRow
    /\ Entitled \subseteq (Creds \cup {NoCred}) \X Models

VARIABLES
    provider,         \* runtime_config.provider
    key_index,        \* its gemini_key_index, groq_key_index, vertex_key_index
    slot_config,      \* the slot_config table
    vouched           \* history: the <<provider, slot, row>> a probe accepted

configVars == <<provider, key_index, slot_config>>

ConfigTypeOK ==
    /\ provider \in Providers \cup {NoProvider}
    /\ key_index \in [Providers -> Slots \cup {NoIndex}]
    /\ slot_config \in [Keys -> SlotRow \cup {NoRow}]
    /\ vouched \subseteq Keys \X SlotRow

-----------------------------------------------------------------------------
(* Reads. *)

(* An override that is absent means slot 0. *)
IndexOrZero(index) == IF index = NoIndex THEN 0 ELSE index

(* `row.get("model")' and `row.get("vertex_gcp_location")' of `row or {}'. *)
ModelOf(row) == IF row = NoRow THEN NoModel ELSE row.model
PlaceOf(row) == IF row = NoRow THEN NoPlace ELSE row.place
RowOf(model, place) == [model |-> model, place |-> place]

(* model_check.problems is empty: the probe accepts this row in a slot of p
   that holds this credential.  The probe of a Vertex slot without a location
   falls back to catalog.DEFAULT_VERTEX_LOCATION; without a credential it goes
   to implicit ADC, which needs the row's project. *)
Accepts(p, cred, row) ==
    /\ ModelOf(row) # NoModel
    /\ p \in Probed =>
          /\ cred # NoCred \/ (p \in Vertex /\ PlaceOf(row) # NoPlace)
          /\ <<cred, ModelOf(row)>> \in Entitled

(* factory.get_provider builds an adapter from this row. *)
Builds(p, cred, row) ==
    /\ ModelOf(row) # NoModel
    /\ IF p \in Vertex THEN PlaceOf(row) # NoPlace ELSE cred # NoCred

(* The slot a review runs with, and its row. *)
ArmedSlot == <<provider, IndexOrZero(key_index[provider])>>
ArmedRow == slot_config[ArmedSlot]

(* The gate of main.py's lifespan on provider and slot_config: the row must
   exist, whatever it holds. *)
BootGate == provider \in Providers /\ ArmedRow # NoRow

-----------------------------------------------------------------------------
(* Statements. *)

SetProviderOverride(p) ==
    /\ provider' = p
    /\ UNCHANGED <<key_index, slot_config>>

SetKeyIndexOverride(p, index) ==
    /\ key_index' = [key_index EXCEPT ![p] = index]
    /\ UNCHANGED <<provider, slot_config>>

SetSlotConfig(slot, row) ==
    /\ slot_config' = [slot_config EXCEPT ![slot] = row]
    /\ UNCHANGED <<provider, key_index>>

DeleteSlotConfig(slot) ==
    /\ slot_config' = [slot_config EXCEPT ![slot] = NoRow]
    /\ UNCHANGED <<provider, key_index>>

(* A probe found `row' usable in `slot'. *)
Vouch(slots) == vouched' = vouched \cup slots
=============================================================================
