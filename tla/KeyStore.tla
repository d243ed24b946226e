------------------------------ MODULE KeyStore ------------------------------
(***************************************************************************)
(* The key store ~/.helium_provision/curve_keys.json and its three users:  *)
(*   - a provision_curve.py --interactive run, which appends the pair it   *)
(*     generated (_store_material);                                        *)
(*   - a provision_curve.py --reuse-stored run (_load_latest_material);    *)
(*   - an update_provision_overlay.py run, which copies a stored pair into *)
(*     the Kconfig overlay (_load_entries, _select_entry, _apply_setting). *)
(* Several runs may overlap, and a run may be killed while write_text is   *)
(* rewriting the store.  A stored pair is named by the run that generated  *)
(* it; the scalar and the peer of a pair are both named by that entry.     *)
(***************************************************************************)
EXTENDS Naturals, Integers, Sequences, FiniteSets

CONSTANTS
    Runs,         \* tool runs (model values)
    OldEntries,   \* pairs stored by earlier runs (model values)
    InitStores,   \* the store lists the model starts from
    InitOverlays, \* the overlay files the model starts from
    EntryArgs,    \* the values of --entry tried, None among them
    MaxCrashes,   \* bound on runs killed while writing the store
    None

Entries == Runs \cup OldEntries
Roles == {"store", "reuse", "overlay"}

(* Overlay lines: KEY="value" for the two keys the updater sets, and any   *)
(* other line.                                                             *)
SecretKey == "CONFIG_APP_CURVE25519_STATIC_SECRET_HEX"
PeerKey == "CONFIG_APP_CURVE25519_STATIC_PEER_PUB_HEX"
Keys == {SecretKey, PeerKey, "other"}
Lines == [key : Keys, val : Entries \cup {None}]

ASSUME KeyStoreAssumption ==
    /\ IsFiniteSet(Runs)
    /\ Runs \cap OldEntries = {}
    /\ None \notin Runs \cup OldEntries
    /\ InitStores \subseteq Seq(OldEntries)
    /\ InitOverlays \subseteq Seq(Lines)
    /\ None \in EntryArgs /\ EntryArgs \ {None} \subseteq Int
    /\ MaxCrashes \in Nat

VARIABLES
    role,        \* what each run does
    entryArg,    \* --entry of an overlay run
    pc,          \* where each run is
    storeKind,   \* "absent", "list" (valid JSON list) or "torn"
    storeList,   \* the entries of the list when storeKind = "list"
    overlay,     \* the overlay file, as lines
    data,        \* the list a store run read and will write back
    sel,         \* the entry a reuse or overlay run selected
    text,        \* the overlay text an overlay run read
    crashes,     \* runs killed so far
    stored,      \* history: entries whose write_text completed
    overlayBy    \* history: the overlay run that last wrote the overlay

vars == <<role, entryArg, pc, storeKind, storeList, overlay, data, sel, text,
          crashes, stored, overlayBy>>

EntriesOf(s) == {s[i] : i \in DOMAIN s}

TypeOK ==
    /\ role \in [Runs -> Roles]
    /\ entryArg \in [Runs -> EntryArgs]
    /\ pc \in [Runs -> {"s_read", "s_open", "s_write", "r_load", "o_load",
                       "o_read", "o_write", "done", "error", "killed"}]
    /\ storeKind \in {"absent", "list", "torn"}
    /\ storeList \in Seq(Entries)
    /\ overlay \in Seq(Lines)
    /\ data \in [Runs -> Seq(Entries)]
    /\ sel \in [Runs -> Entries \cup {None}]
    /\ text \in [Runs -> Seq(Lines)]
    /\ crashes \in 0..MaxCrashes
    /\ stored \subseteq Entries
    /\ overlayBy \in Runs \cup {None}

FirstPc(r) ==
    CASE r = "store" -> "s_read" [] r = "reuse" -> "r_load"
      [] r = "overlay" -> "o_load"

Init ==
    /\ role \in [Runs -> Roles]
    /\ entryArg \in [Runs -> EntryArgs]
    /\ pc = [p \in Runs |-> FirstPc(role[p])]
    /\ \/ storeKind = "absent" /\ storeList = <<>>
       \/ storeKind = "list" /\ storeList \in InitStores
    /\ overlay \in InitOverlays
    /\ data = [p \in Runs |-> <<>>]
    /\ sel = [p \in Runs |-> None]
    /\ text = [p \in Runs |-> <<>>]
    /\ crashes = 0
    /\ stored = EntriesOf(storeList)
    /\ overlayBy = None

-----------------------------------------------------------------------------
(* _store_material.                                                        *)

(* If the store exists it is parsed; a file that is not a JSON list, or    *)
(* cannot be read or parsed, is reported and replaced by an empty list.    *)
StoreRead(p) ==
    /\ pc[p] = "s_read"
    /\ data' = [data EXCEPT ![p] =
                   IF storeKind = "list" THEN storeList ELSE <<>>]
    /\ pc' = [pc EXCEPT ![p] = "s_open"]
    /\ UNCHANGED <<role, entryArg, storeKind, storeList, overlay, sel, text,
                   crashes, stored, overlayBy>>

(* write_text opens the store for writing, which truncates it: until the   *)
(* write completes the file holds no valid JSON.                           *)
StoreOpen(p) ==
    /\ pc[p] = "s_open"
    /\ storeKind' = "torn"
    /\ pc' = [pc EXCEPT ![p] = "s_write"]
    /\ UNCHANGED <<role, entryArg, storeList, overlay, data, sel, text,
                   crashes, stored, overlayBy>>

(* The rest of write_text: the list read, with the new entry appended.     *)
StoreWrite(p) ==
    /\ pc[p] = "s_write"
    /\ storeKind' = "list"
    /\ storeList' = Append(data[p], p)
    /\ stored' = stored \cup {p}
    /\ pc' = [pc EXCEPT ![p] = "done"]
    /\ UNCHANGED <<role, entryArg, overlay, data, sel, text, crashes,
                   overlayBy>>

(* The run is killed (Ctrl-C, power loss) inside write_text.               *)
StoreKilled(p) ==
    /\ pc[p] = "s_write"
    /\ crashes < MaxCrashes
    /\ crashes' = crashes + 1
    /\ pc' = [pc EXCEPT ![p] = "killed"]
    /\ UNCHANGED <<role, entryArg, storeKind, storeList, overlay, data, sel,
                   text, stored, overlayBy>>

-----------------------------------------------------------------------------
(* _load_latest_material: a missing, unreadable or empty store is a fatal  *)
(* error; otherwise the last entry is used.                                *)
ReuseLoad(p) ==
    /\ pc[p] = "r_load"
    /\ IF storeKind = "list" /\ storeList # <<>>
         THEN /\ sel' = [sel EXCEPT ![p] = storeList[Len(storeList)]]
              /\ pc' = [pc EXCEPT ![p] = "done"]
         ELSE /\ pc' = [pc EXCEPT ![p] = "error"]
              /\ UNCHANGED sel
    /\ UNCHANGED <<role, entryArg, storeKind, storeList, overlay, data, text,
                   crashes, stored, overlayBy>>

-----------------------------------------------------------------------------
(* update_provision_overlay.py.                                            *)

(* _select_entry: the last entry without --entry, else the given index,    *)
(* which must lie in 0..len(entries)-1.                                    *)
SelectEntry(entries, idx) ==
    IF idx = None THEN entries[Len(entries)] ELSE entries[idx + 1]

SelectOk(entries, idx) ==
    idx = None \/ (idx >= 0 /\ idx < Len(entries))

(* _load_entries and _select_entry.                                        *)
OverlayLoad(p) ==
    /\ pc[p] = "o_load"
    /\ IF storeKind = "list" /\ storeList # <<>>
              /\ SelectOk(storeList, entryArg[p])
         THEN /\ sel' = [sel EXCEPT ![p] = SelectEntry(storeList, entryArg[p])]
              /\ pc' = [pc EXCEPT ![p] = "o_read"]
         ELSE /\ pc' = [pc EXCEPT ![p] = "error"]
              /\ UNCHANGED sel
    /\ UNCHANGED <<role, entryArg, storeKind, storeList, overlay, data, text,
                   crashes, stored, overlayBy>>

(* args.overlay.read_text().                                               *)
OverlayRead(p) ==
    /\ pc[p] = "o_read"
    /\ text' = [text EXCEPT ![p] = overlay]
    /\ pc' = [pc EXCEPT ![p] = "o_write"]
    /\ UNCHANGED <<role, entryArg, storeKind, storeList, overlay, data, sel,
                   crashes, stored, overlayBy>>

Setting(key, v) == [key |-> key, val |-> v]

HasKey(lines, key) == \E i \in DOMAIN lines : lines[i].key = key

(* Seeded fault for OverlayPairConsistent: re.sub with count=1, replacing  *)
(* only the first KEY= line.                                               *)
ApplySettingFirstOnly(lines, key, v) ==
    IF HasKey(lines, key)
      THEN LET first == CHOOSE i \in DOMAIN lines :
                          /\ lines[i].key = key
                          /\ \A j \in 1..(i - 1) : lines[j].key # key
           IN [lines EXCEPT ![first] = Setting(key, v)]
      ELSE Append(lines, Setting(key, v))

(* _apply_setting: every line matching ^KEY=.*$ is replaced by KEY="v";    *)
(* without one, the line is appended.                                      *)
ApplySetting(lines, key, v) ==
    IF HasKey(lines, key)
      THEN [i \in DOMAIN lines |->
              IF lines[i].key = key THEN Setting(key, v) ELSE lines[i]]
      ELSE Append(lines, Setting(key, v))

(* Both settings applied to the text read, and the result written back.    *)
(* Stores written by _store_material always carry a peer.                  *)
OverlayWrite(p) ==
    /\ pc[p] = "o_write"
    /\ overlay' = ApplySetting(ApplySetting(text[p], SecretKey, sel[p]),
                               PeerKey, sel[p])
    /\ overlayBy' = p
    /\ pc' = [pc EXCEPT ![p] = "done"]
    /\ UNCHANGED <<role, entryArg, storeKind, storeList, data, sel, text,
                   crashes, stored>>

-----------------------------------------------------------------------------
Next ==
    \E p \in Runs :
        \/ StoreRead(p) \/ StoreOpen(p) \/ StoreWrite(p) \/ StoreKilled(p)
        \/ ReuseLoad(p)
        \/ OverlayLoad(p) \/ OverlayRead(p) \/ OverlayWrite(p)

Spec == Init /\ [][Next]_vars

-----------------------------------------------------------------------------
(* Properties.                                                             *)

(* The values the overlay holds for a key.                                 *)
SettingValues(lines, key) == {lines[i].val : i \in {j \in DOMAIN lines :
                                                      lines[j].key = key}}

(* The overlay never holds a mismatched or ambiguous pair: after an       *)
(* update, however the updaters' reads and writes of the overlay           *)
(* interleave, every secret line and every peer line names one and the     *)
(* same stored entry, and there is at least one of each.                   *)
OverlayPairConsistent ==
    overlayBy # None =>
        /\ SettingValues(overlay, SecretKey) = {sel[overlayBy]}
        /\ SettingValues(overlay, PeerKey) = {sel[overlayBy]}

(* The store keeps every pair it was given: whenever it is a valid list,   *)
(* each entry whose write_text completed is in it, so --entry indexes and  *)
(* --reuse-stored refer to what was generated.                             *)
EntriesKept ==
    storeKind = "list" => stored \subseteq EntriesOf(storeList)
=============================================================================
