-------------------------- MODULE KeyStoreProofs --------------------------
(***************************************************************************)
(* Proofs about KeyStore, for every value of the constants allowed by      *)
(* KeyStoreAssumption.                                                     *)
(*                                                                         *)
(* OverlayPairConsistent speaks of sel[overlayBy], the entry selected by   *)
(* the run that wrote the overlay last.  It is preserved because that run *)
(* has finished (sel of a finished run never changes again) and because    *)
(* _apply_setting leaves exactly one value on the key it sets and the      *)
(* values of every other key as they were.                                 *)
(***************************************************************************)
EXTENDS KeyStore, TLAPS

(* The run that last wrote the overlay is an updater that has finished.    *)
UpdaterDone ==
    overlayBy # None => pc[overlayBy] = "done" /\ role[overlayBy] = "overlay"

(* Only an updater runs the overlay steps.                                 *)
RolePc ==
    \A p \in Runs : pc[p] \in {"o_load", "o_read", "o_write"} => role[p] = "overlay"

Inv == TypeOK /\ RolePc /\ UpdaterDone /\ OverlayPairConsistent

USE KeyStoreAssumption

Vals == Entries \cup {None}

(* _apply_setting turns an overlay into an overlay.                        *)
LEMMA ApplyType ==
    ASSUME NEW lines \in Seq(Lines), NEW key \in Keys, NEW v \in Vals
    PROVE  ApplySetting(lines, key, v) \in Seq(Lines)
<1>1. Setting(key, v) \in Lines
  BY DEF Setting, Lines, Vals
<1>2. CASE HasKey(lines, key)
  BY <1>1, <1>2 DEF ApplySetting
<1>3. CASE ~HasKey(lines, key)
  BY <1>1, <1>3 DEF ApplySetting
<1>4. QED
  BY <1>2, <1>3

(* After _apply_setting the key it set holds the new value and no other.  *)
LEMMA ApplySame ==
    ASSUME NEW lines \in Seq(Lines), NEW key \in Keys, NEW v \in Vals
    PROVE  SettingValues(ApplySetting(lines, key, v), key) = {v}
<1>1. CASE HasKey(lines, key)
  <2> DEFINE out == [i \in DOMAIN lines |->
                       IF lines[i].key = key THEN Setting(key, v) ELSE lines[i]]
  <2>1. ApplySetting(lines, key, v) = out
    BY <1>1 DEF ApplySetting
  <2>2. {j \in DOMAIN out : out[j].key = key}
          = {j \in DOMAIN lines : lines[j].key = key}
    BY DEF Setting
  <2>3. \A j \in {j \in DOMAIN out : out[j].key = key} : out[j].val = v
    BY DEF Setting
  <2>4. {j \in DOMAIN lines : lines[j].key = key} # {}
    BY <1>1 DEF HasKey
  <2>5. SettingValues(out, key) = {v}
    <3>1. \A x \in SettingValues(out, key) : x = v
      BY <2>3 DEF SettingValues
    <3>2. v \in SettingValues(out, key)
      BY <2>2, <2>3, <2>4 DEF SettingValues
    <3>3. QED
      BY <3>1, <3>2
  <2>6. QED
    BY <2>1, <2>5
<1>2. CASE ~HasKey(lines, key)
  <2> DEFINE out == Append(lines, Setting(key, v))
  <2>1. ApplySetting(lines, key, v) = out
    BY <1>2 DEF ApplySetting
  <2>2. {j \in DOMAIN out : out[j].key = key} = {Len(lines) + 1}
    BY <1>2 DEF HasKey, Setting
  <2>3. out[Len(lines) + 1].val = v
    BY DEF Setting
  <2>4. QED
    BY <2>1, <2>2, <2>3 DEF SettingValues
<1>3. QED
  BY <1>1, <1>2

(* _apply_setting leaves the lines of every other key as they were.        *)
LEMMA ApplyOther ==
    ASSUME NEW lines \in Seq(Lines), NEW key \in Keys, NEW v \in Vals,
           NEW k \in Keys, k # key
    PROVE  SettingValues(ApplySetting(lines, key, v), k) = SettingValues(lines, k)
<1>1. CASE HasKey(lines, key)
  <2> DEFINE out == [i \in DOMAIN lines |->
                       IF lines[i].key = key THEN Setting(key, v) ELSE lines[i]]
  <2>1. ApplySetting(lines, key, v) = out
    BY <1>1 DEF ApplySetting
  <2>2. \A j \in DOMAIN lines : out[j].key = k <=> lines[j].key = k
    BY DEF Setting
  <2>3. \A j \in DOMAIN lines : out[j].key = k => out[j] = lines[j]
    BY DEF Setting
  <2>4. QED
    BY <2>1, <2>2, <2>3 DEF SettingValues
<1>2. CASE ~HasKey(lines, key)
  <2> DEFINE out == Append(lines, Setting(key, v))
  <2>1. ApplySetting(lines, key, v) = out
    BY <1>2 DEF ApplySetting
  <2>2. {j \in DOMAIN out : out[j].key = k} = {j \in DOMAIN lines : lines[j].key = k}
    BY DEF Setting
  <2>3. \A j \in DOMAIN lines : out[j] = lines[j]
    OBVIOUS
  <2>4. QED
    BY <2>1, <2>2, <2>3 DEF SettingValues
<1>3. QED
  BY <1>1, <1>2

(* Both settings of OverlayWrite leave one value, the selected entry, on   *)
(* each key.                                                               *)
LEMMA ApplyBoth ==
    ASSUME NEW lines \in Seq(Lines), NEW v \in Vals
    PROVE  LET out == ApplySetting(ApplySetting(lines, SecretKey, v), PeerKey, v)
           IN  /\ out \in Seq(Lines)
               /\ SettingValues(out, SecretKey) = {v}
               /\ SettingValues(out, PeerKey) = {v}
<1> DEFINE mid == ApplySetting(lines, SecretKey, v)
<1>1. SecretKey \in Keys /\ PeerKey \in Keys /\ SecretKey # PeerKey
  BY DEF Keys, SecretKey, PeerKey
<1>2. mid \in Seq(Lines)
  BY <1>1, ApplyType
<1>3. ApplySetting(mid, PeerKey, v) \in Seq(Lines)
  BY <1>1, <1>2, ApplyType
<1>4. SettingValues(mid, SecretKey) = {v}
  BY <1>1, ApplySame
<1>5. SettingValues(ApplySetting(mid, PeerKey, v), SecretKey) = {v}
  BY <1>1, <1>2, <1>4, ApplyOther
<1>6. SettingValues(ApplySetting(mid, PeerKey, v), PeerKey) = {v}
  BY <1>1, <1>2, ApplySame
<1>7. QED
  BY <1>3, <1>5, <1>6

LEMMA InitInv == Init => Inv
<1> SUFFICES ASSUME Init PROVE Inv
  OBVIOUS
<1>1. TypeOK
  <2>1. storeList \in Seq(Entries)
    <3>1. CASE storeList = <<>>
      BY <3>1
    <3>2. CASE storeList \in Seq(OldEntries)
      <4>1. storeList \in [1..Len(storeList) -> Entries]
        BY <3>2 DEF Entries
      <4>2. QED
        BY <4>1
    <3>3. QED
      BY <3>1, <3>2 DEF Init
  <2>2. pc \in [Runs -> {"s_read", "s_open", "s_write", "r_load", "o_load",
                         "o_read", "o_write", "done", "error", "killed"}]
    BY DEF Init, FirstPc, Roles
  <2>3. EntriesOf(storeList) \subseteq Entries
    BY <2>1 DEF EntriesOf
  <2>4. overlay \in Seq(Lines) /\ storeKind \in {"absent", "list", "torn"}
    BY DEF Init
  <2>5. /\ data \in [Runs -> Seq(Entries)]
        /\ sel \in [Runs -> Entries \cup {None}]
        /\ text \in [Runs -> Seq(Lines)]
    BY DEF Init
  <2>6. QED
    BY <2>1, <2>2, <2>3, <2>4, <2>5 DEF Init, TypeOK
<1>2. RolePc
  BY DEF Init, RolePc, FirstPc, Roles
<1>3. QED
  BY <1>1, <1>2 DEF Init, Inv, UpdaterDone, OverlayPairConsistent

LEMMA NextInv == Inv /\ [Next]_vars => Inv'
<1> SUFFICES ASSUME Inv, [Next]_vars PROVE Inv'
  OBVIOUS
<1> USE DEF Inv, TypeOK, RolePc, UpdaterDone, OverlayPairConsistent
<1>1. ASSUME NEW p \in Runs, StoreRead(p) PROVE Inv'
  BY <1>1 DEF StoreRead
<1>2. ASSUME NEW p \in Runs, StoreOpen(p) PROVE Inv'
  BY <1>2 DEF StoreOpen
<1>3. ASSUME NEW p \in Runs, StoreWrite(p) PROVE Inv'
  BY <1>3 DEF StoreWrite, Entries
<1>4. ASSUME NEW p \in Runs, StoreKilled(p) PROVE Inv'
  BY <1>4 DEF StoreKilled
<1>5. ASSUME NEW p \in Runs, ReuseLoad(p) PROVE Inv'
  <2>1. CASE storeKind = "list" /\ storeList # <<>>
    <3>1. storeList[Len(storeList)] \in Entries
      BY <2>1
    <3>2. QED
      BY <1>5, <2>1, <3>1 DEF ReuseLoad
  <2>2. CASE ~(storeKind = "list" /\ storeList # <<>>)
    BY <1>5, <2>2 DEF ReuseLoad
  <2>3. QED
    BY <2>1, <2>2
<1>6. ASSUME NEW p \in Runs, OverlayLoad(p) PROVE Inv'
  <2>1. CASE storeKind = "list" /\ storeList # <<>> /\ SelectOk(storeList, entryArg[p])
    <3>1. SelectEntry(storeList, entryArg[p]) \in Entries
      <4>1. CASE entryArg[p] = None
        BY <2>1, <4>1 DEF SelectEntry
      <4>2. CASE entryArg[p] # None
        <5>1. entryArg[p] \in Int /\ 0 <= entryArg[p] /\ entryArg[p] < Len(storeList)
          BY <2>1, <4>2 DEF SelectOk
        <5>2. entryArg[p] + 1 \in 1..Len(storeList)
          BY <5>1
        <5>3. QED
          BY <4>2, <5>2 DEF SelectEntry
      <4>3. QED
        BY <4>1, <4>2
    <3> USE <1>6, <2>1 DEF OverlayLoad
    <3>2. pc[p] = "o_load" /\ role[p] = "overlay" /\ p # overlayBy
      OBVIOUS
    <3>8. /\ sel' = [sel EXCEPT ![p] = SelectEntry(storeList, entryArg[p])]
          /\ pc' = [pc EXCEPT ![p] = "o_read"]
      OBVIOUS
    <3>3. TypeOK'
      BY <3>1, <3>8
    <3>4. RolePc'
      BY <3>2, <3>8
    <3>5. UpdaterDone'
      BY <3>2, <3>8
    <3>6. OverlayPairConsistent'
      BY <3>2, <3>8
    <3>7. QED
      BY <3>3, <3>4, <3>5, <3>6
  <2>2. CASE ~(storeKind = "list" /\ storeList # <<>> /\ SelectOk(storeList, entryArg[p]))
    BY <1>6, <2>2 DEF OverlayLoad
  <2>3. QED
    BY <2>1, <2>2
<1>7. ASSUME NEW p \in Runs, OverlayRead(p) PROVE Inv'
  BY <1>7 DEF OverlayRead
<1>8. ASSUME NEW p \in Runs, OverlayWrite(p) PROVE Inv'
  <2>1. /\ overlay' \in Seq(Lines)
        /\ SettingValues(overlay', SecretKey) = {sel[p]}
        /\ SettingValues(overlay', PeerKey) = {sel[p]}
    BY <1>8, ApplyBoth DEF OverlayWrite, Vals
  <2>2. QED
    BY <1>8, <2>1 DEF OverlayWrite
<1>9. CASE UNCHANGED vars
  BY <1>9 DEF vars
<1>10. QED
  BY <1>1, <1>2, <1>3, <1>4, <1>5, <1>6, <1>7, <1>8, <1>9 DEF Next

LEMMA InvInvariant == Spec => []Inv
BY InitInv, NextInv, PTL DEF Spec

(* The overlay updater never leaves the overlay with the secret of one     *)
(* stored pair and the peer of another, or with a stale duplicate line,    *)
(* however updater runs and store runs interleave (_apply_setting, main). *)
THEOREM OverlayConsistent == Spec => []OverlayPairConsistent
BY InvInvariant, PTL DEF Inv

(* Type correctness of the store, selection and overlay steps.             *)
THEOREM KeyStoreTypeCorrect == Spec => []TypeOK
BY InvInvariant, PTL DEF Inv

=============================================================================
