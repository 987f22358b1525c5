---------------------------- MODULE LoaderProofs ----------------------------
(***************************************************************************)
(* The invariant of the loader pipeline, for any set of images, any sites  *)
(* the host writes and any order of subkernels.                            *)
(***************************************************************************)
EXTENDS Loader, TLAPS

LEMMA FieldsOfImages ==
  \A image \in Contents :
    image.key \in {"system", "user", "zero", "none"} /\ image # Nobody
BY ImagesAssumption, OthersAssumption DEF Contents, Torn

\* A request made by a subkernel, and what it leaves in memory.
LEMMA ReplaceTypes ==
  ASSUME TypeOK, NEW site \in Sites, NEW tag \in Images \cup {AnyTag},
         NEW key \in {"system", "user"}, Replace(site, tag, key)
  PROVE  /\ request' \in Requests /\ pc' = "wipe"
         /\ wram' \in [Regions -> SUBSET (Contents \cup {Nobody})]
BY DEF TypeOK, Replace, Requests, Regions

LEMMA WriteTypes ==
  ASSUME TypeOK, NEW site \in Sites, NEW image \in Contents, NEW m \in Write(site, image)
  PROVE  /\ m \in [Sites -> Contents] /\ m[site] = image
         /\ \A s \in Sites : s # site /\ s \notin {"scratch", "overlap"} => m[s] = mram[s]
<1> DEFINE shared ==
      IF site \in {"scratch", "overlap"} THEN {"scratch", "overlap"} \ {site} ELSE {}
<1>1. PICK torn \in SUBSET shared :
        m = [s \in Sites |-> IF s = site THEN image ELSE IF s \in torn THEN Torn ELSE mram[s]]
  BY DEF Write
<1>2. QED
  BY <1>1 DEF TypeOK, Contents

LEMMA TypesArePreserved ==
  ASSUME TypeOK, [Next]_vars
  PROVE  TypeOK'
<1> USE DEF TypeOK, Locations
<1>1. Image \in Contents /\ request.site \in Sites /\ Torn \in Contents
  BY DEF Image, Requests, Contents
<1>2. CASE Load
  <2>1. CASE WipeUser
    BY <2>1 DEF WipeUser, memory, Regions
  <2>2. CASE CheckTag \/ Verify \/ ScanSk
    BY <2>2 DEF CheckTag, Verify, ScanSk, Else, Fault, memory, persistent
  <2>3. CASE PushSk
    <3>1. PICK m \in Write("scratch", Image) :
            mram' = IF request.site = "overlap" THEN [m EXCEPT !["overlap"] = Torn] ELSE m
      BY <2>3 DEF PushSk
    <3>2. m \in [Sites -> Contents]
      BY <1>1, WriteTypes DEF Sites
    <3>3. mram' \in [Sites -> Contents]
      BY <1>1, <3>1, <3>2
    <3>4. opened' \subseteq Sites
      BY <2>3 DEF PushSk, Sites
    <3>5. QED
      BY <2>3, <3>3, <3>4 DEF PushSk, persistent
  <2>4. CASE Decrypt
    BY <1>1, <2>4 DEF Decrypt, persistent
  <2>5. CASE LoadWram
    BY <1>1, <2>5 DEF LoadWram, Else, Fault, memory, persistent, Regions
  <2>6. CASE LoadIram
    BY <1>1, <2>6 DEF LoadIram, Else, Fault, memory, persistent
  <2>7. CASE PopSk
    <3>1. mram' \in [Sites -> Contents]
      BY <1>1, <2>7 DEF PopSk, Sites
    <3>2. QED
      BY <1>1, <2>7, <3>1 DEF PopSk, persistent
  <2>8. QED
    BY <1>2, <2>1, <2>2, <2>3, <2>4, <2>5, <2>6, <2>7 DEF Load
<1>3. CASE Subkernel
  <2>1. CASE WaitForHost \/ Stage3Rejects
    BY <2>1 DEF WaitForHost, Stage3Rejects, memory, persistent
  <2>2. CASE MsgReturns
    BY <2>2 DEF MsgReturns, memory, persistent, Commands
  <2>3. CASE Return \/ Stage1 \/ Stage3Accepts
    BY <2>3, ReplaceTypes DEF Return, Stage1, Stage3Accepts, memory, Sites
  <2>4. CASE Stage2
    BY <2>4, ReplaceTypes DEF Stage2, Fault, memory, Sites
  <2>5. CASE MsgLoads
    <3>1. command.site \in Sites /\ command.key \in {"system", "user"}
      BY <2>5 DEF MsgLoads, Commands
    <3>2. QED
      BY <2>5, <3>1, ReplaceTypes DEF MsgLoads, memory, persistent, Commands
  <2>6. CASE AppReturns
    BY <2>6 DEF AppReturns, MayUse, memory
  <2>7. CASE AppLoads
    BY <2>7, ReplaceTypes DEF AppLoads, MayUse, memory
  <2>8. QED
    BY <1>3, <2>1, <2>2, <2>3, <2>4, <2>5, <2>6, <2>7 DEF Subkernel
<1>4. CASE Host
  <2>1. mram' \in [Sites -> Contents] /\ opened' \subseteq Sites
    BY <1>4, WriteTypes, SitesAssumption DEF Host, memory, Contents
  <2>2. QED
    BY <1>4, <2>1 DEF Host, persistent
<1>5. CASE UNCHANGED vars
  BY <1>5 DEF vars
<1>6. QED
  BY <1>2, <1>3, <1>4, <1>5 DEF Next, Halted

\* Everything in LoaderInv that is not a type.
Rest ==
  /\ keyed <=> userKey = "user"
  /\ Running => iram # Nobody
  /\ Vetting /\ Sealing /\ Wiping
  /\ OnlyVettedCodeRuns /\ ImagesAreSealed /\ NoDataLeftBehind
  /\ KeyEndsWithMain /\ FaultHasCause

LEMMA InitEstablishesInv == Init => LoaderInv
<1> SUFFICES ASSUME Init PROVE LoaderInv
  OBVIOUS
<1>1. command \in Commands /\ request \in Requests
  BY DEF Init, Commands, Requests, Sites, Regions
<1>2. TypeOK
  BY <1>1 DEF Init, TypeOK, Locations, Regions
<1>3. Rest
  BY DEF Init, Rest, Vetting, Sealing, Wiping, Running, OnlyVettedCodeRuns, ImagesAreSealed,
    NoDataLeftBehind, KeyEndsWithMain, FaultHasCause, IramLoaded, WramLoaded, Scanned, Decrypted, Verified, TagChecked,
    Pushed, Wiped, Regions
<1>4. QED
  BY <1>2, <1>3 DEF LoaderInv, Rest

\* The pipeline: each step adds what it checks and keeps the rest.
LEMMA LoadPreservesRest ==
  ASSUME LoaderInv, Load
  PROVE  Rest'
<1> USE DEF Rest, LoaderInv, Vetting, Sealing, Wiping, IramLoaded, WramLoaded, Scanned, Decrypted, Verified, TagChecked, Pushed, Wiped, Running, OnlyVettedCodeRuns,
      ImagesAreSealed, NoDataLeftBehind, KeyEndsWithMain, FaultHasCause, Image, Expected, Accepted
<1>0. /\ request.site \in Sites /\ Image \in Contents /\ request.key \in {"system", "user"}
      /\ request.wipe \subseteq Regions /\ wram["low"] \subseteq Contents \cup {Nobody}
  BY DEF TypeOK, Requests, Regions
<1>1. CASE WipeUser
  BY <1>0, <1>1 DEF WipeUser, memory, Regions
<1>2. CASE PushSk
  <2>1. PICK m \in Write("scratch", Image) :
          mram' = IF request.site = "overlap" THEN [m EXCEPT !["overlap"] = Torn] ELSE m
    BY <1>2 DEF PushSk
  <2>2. m \in [Sites -> Contents] /\ m["scratch"] = Image
    BY <1>0, <2>1, WriteTypes DEF Sites
  <2>3. \A s \in Sites \ {"scratch", "overlap"} : m[s] = mram[s]
    BY <1>0, <2>1, WriteTypes DEF Sites
  <2>4. IF request.site = "overlap" THEN Image' = Torn
        ELSE Image' = Image /\ mram'["scratch"] = Image
    BY <1>0, <1>2, <2>1, <2>2, <2>3 DEF PushSk
  <2>5. opened' \subseteq {request.site} \cap {"scratch"}
    BY <1>2 DEF PushSk
  <2>6. QED
    BY <1>2, <2>4, <2>5 DEF PushSk, persistent
<1>3. CASE CheckTag
  BY <1>3 DEF CheckTag, Else, Fault, memory, persistent
<1>4. CASE Verify
  <2>1. Image.key # "none" => Image # Torn
    BY DEF Torn
  <2>2. Image.key = Key => Image.key = Expected
    BY <1>0, FieldsOfImages DEF Key, TypeOK
  <2>3. Image.key = Expected /\ Image.key # Key => request.key = "user" /\ userKey = "old"
    BY <1>0 DEF Key, TypeOK
  <2>4. QED
    BY <1>0, <1>4, <2>1, <2>2, <2>3 DEF Verify, Else, Fault, memory, persistent
<1>5. CASE Decrypt
  BY <1>5 DEF Decrypt, persistent
<1>6. CASE ScanSk
  BY <1>6 DEF ScanSk, Else, Fault, memory, persistent
<1>7. CASE LoadWram
  BY <1>0, <1>7 DEF LoadWram, Else, Fault, memory, persistent, TypeOK, Regions
<1>8. CASE LoadIram
  BY <1>0, <1>8, OthersAssumption DEF LoadIram, Else, Fault, memory, persistent
<1>9. CASE PopSk
  <2>1. request.site # "overlap"
    <3>1. Torn.key # Expected
      BY <1>0 DEF Torn
    <3>2. QED
      BY <1>9, <3>1 DEF PopSk
  <2>2. mram' = mram
    BY <1>0, <1>9, <2>1 DEF PopSk, TypeOK
  <2>3. QED
    BY <1>0, <1>9, <2>1, <2>2, FieldsOfImages DEF PopSk, persistent, TypeOK, Regions
<1>10. QED
  BY <1>1, <1>2, <1>3, <1>4, <1>5, <1>6, <1>7, <1>8, <1>9 DEF Load

(***************************************************************************)
(* The subkernels: they call ime_replace_sk, stay running, or fault.       *)
(***************************************************************************)

\* A call starts from a clean slate: nothing is known of the image yet, and
\* nothing need be.  What is in memory is wiped or was meant to be kept.
LEMMA CallPreservesRest ==
  ASSUME LoaderInv, Running, UNCHANGED opened, keyed' <=> userKey' = "user",
         NEW site, NEW tag, NEW key, Replace(site, tag, key)
  PROVE  Rest'
<1>1. opened \subseteq {"scratch"}
  BY DEF LoaderInv, ImagesAreSealed, Running
<1>2. \A owner \in wram["middle"] \ {Nobody} : owner = iram \/ owner.keeps
  BY DEF LoaderInv, NoDataLeftBehind, Regions
<1>3. "low" \in request'.wipe /\ ("middle" \notin request'.wipe => iram.keeps)
  BY DEF Replace, Regions
<1>4. \A owner \in wram'["middle"] : owner \in wram["middle"] \/ owner = iram
  BY DEF Replace, LoaderInv, TypeOK, Regions
<1>5. Wiping'
  BY <1>2, <1>3, <1>4 DEF Replace, Wiping, Wiped, Pushed, TagChecked, Verified, Decrypted,
    Scanned, WramLoaded, IramLoaded
<1>6. QED
  BY <1>1, <1>5 DEF Replace, Rest, Vetting, Sealing, Running, OnlyVettedCodeRuns, ImagesAreSealed,
    NoDataLeftBehind, KeyEndsWithMain, FaultHasCause, IramLoaded, WramLoaded, Scanned, Decrypted, Verified, TagChecked,
    Pushed, Wiped

\* A running subkernel that goes on has been vetted and stays so.
LEMMA RunningPreservesRest ==
  ASSUME LoaderInv, Running, Running', opened' \subseteq opened,
         UNCHANGED <<request, iram, wram, userKey, keyed>>
  PROVE  Rest'
BY DEF LoaderInv, Rest, Vetting, Sealing, Wiping, Running, OnlyVettedCodeRuns, ImagesAreSealed,
  NoDataLeftBehind, KeyEndsWithMain, FaultHasCause, Accepted,
  IramLoaded, WramLoaded, Scanned, Decrypted, Verified, TagChecked, Pushed, Wiped

LEMMA SubkernelPreservesRest ==
  ASSUME LoaderInv, Subkernel
  PROVE  Rest'
<1> USE DEF Runs, memory, persistent
<1>0. keyed <=> userKey = "user"
  BY DEF LoaderInv
<1>1. CASE WaitForHost \/ MsgReturns \/ Stage3Rejects \/ AppReturns
  BY <1>1, RunningPreservesRest DEF WaitForHost, MsgReturns, Stage3Rejects, AppReturns, Running
<1>2. CASE Return
  BY <1>2, CallPreservesRest DEF Return, Running
<1>3. CASE MsgLoads \/ AppLoads
  BY <1>0, <1>3, CallPreservesRest DEF MsgLoads, AppLoads, Running
<1>4. CASE Stage1
  BY <1>0, <1>4, CallPreservesRest DEF Stage1, Running
<1>5. CASE Stage2
  <2>1. CASE Replace("stage3", AnyTag, "system")
    BY <1>0, <1>5, <2>1, CallPreservesRest DEF Stage2, Running
  <2>2. CASE pc' = "fault" /\ UNCHANGED <<request, wram>>
    BY <1>0, <1>5, <2>2 DEF Stage2, LoaderInv, Rest, Vetting, Sealing, Wiping,
      Running, OnlyVettedCodeRuns, ImagesAreSealed, NoDataLeftBehind, KeyEndsWithMain,
      FaultHasCause, IramLoaded, WramLoaded, Scanned, Decrypted, Verified, TagChecked, Pushed, Wiped
  <2>3. QED
    BY <1>5, <2>1, <2>2 DEF Stage2, Fault
<1>6. CASE Stage3Accepts
  BY <1>6, CallPreservesRest DEF Stage3Accepts, Running
<1>7. QED
  BY <1>1, <1>2, <1>3, <1>4, <1>5, <1>6 DEF Subkernel

LEMMA HostPreservesRest ==
  ASSUME LoaderInv, Host
  PROVE  Rest'
BY RunningPreservesRest DEF Host, Running, persistent, memory

LEMMA StutterPreservesRest ==
  ASSUME LoaderInv, UNCHANGED vars
  PROVE  Rest'
BY DEF vars, LoaderInv, Rest, Vetting, Sealing, Wiping, Running, OnlyVettedCodeRuns,
  ImagesAreSealed, NoDataLeftBehind, KeyEndsWithMain, FaultHasCause, Image, Expected, Accepted,
  IramLoaded, WramLoaded, Scanned, Decrypted, Verified, TagChecked, Pushed, Wiped

-----------------------------------------------------------------------------
\* The invariant of the pipeline, and so everything a subkernel relies on.
THEOREM LoaderInvariant == Spec => []LoaderInv
<1>1. LoaderInv /\ [Next]_vars => LoaderInv'
  <2> SUFFICES ASSUME LoaderInv, [Next]_vars PROVE LoaderInv'
    OBVIOUS
  <2>1. TypeOK'
    BY TypesArePreserved DEF LoaderInv
  <2>2. Rest'
    BY LoadPreservesRest, SubkernelPreservesRest, HostPreservesRest, StutterPreservesRest
    DEF Next, Halted
  <2>3. QED
    BY <2>1, <2>2 DEF LoaderInv, Rest
<1>2. QED
  BY <1>1, InitEstablishesInv, PTL DEF Spec

\* Only code that passed the tag, key, scan, magic and size checks of the call
\* that loaded it ever runs (core_load.S:39-78).
THEOREM OnlyVettedCode == Spec => []OnlyVettedCodeRuns
<1>1. LoaderInv => OnlyVettedCodeRuns
  BY DEF LoaderInv
<1>2. QED
  BY <1>1, LoaderInvariant, PTL

\* Between an exchange and the first return from main() after it, what is
\* loaded as the user's is sealed under the client's key (ime.h:9-14), and at
\* any other time under the zeros that boot.s:23-29 leaves.
THEOREM KeyLifetime == Spec => []KeyEndsWithMain
<1>1. LoaderInv => KeyEndsWithMain
  BY DEF LoaderInv
<1>2. QED
  BY <1>1, LoaderInvariant, PTL

\* A load of an image that meets the request, under a key that is there, does
\* not fault unless it lies in the loader's scratch memory: the wipe spares
\* the key (core_mem.s, user.ld:2-7).
THEOREM FaultsHaveCauses == Spec => []FaultHasCause
<1>1. LoaderInv => FaultHasCause
  BY DEF LoaderInv
<1>2. QED
  BY <1>1, LoaderInvariant, PTL

\* While a subkernel runs every image in MRAM is sealed again (ime_push_sk and
\* ime_pop_sk, core_load.S:40-78), save one that was loaded from the scratch
\* memory; a fault leaves open only an image refused after its decryption.
THEOREM ImagesStaySealed == Spec => []ImagesAreSealed
<1>1. LoaderInv => ImagesAreSealed
  BY DEF LoaderInv
<1>2. QED
  BY <1>1, LoaderInvariant, PTL

\* What a subkernel finds in WRAM of an earlier one lies in the persistent
\* section of the one that left it (boot.s:34,43, user.ld:3, core_mem.s).
THEOREM NothingLeftBehind == Spec => []NoDataLeftBehind
<1>1. LoaderInv => NoDataLeftBehind
  BY DEF LoaderInv
<1>2. QED
  BY <1>1, LoaderInvariant, PTL
=============================================================================
