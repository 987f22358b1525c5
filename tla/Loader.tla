------------------------------- MODULE Loader -------------------------------
(***************************************************************************)
(* From one subkernel to the next, on tasklet 0: the pipeline of           *)
(* ime_replace_sk (core_load.S), the exit of main() (boot.s), the message  *)
(* loop (msg/main.c) and the three stages of the key exchange, which hand  *)
(* over to each other by loading one another.  Memory that outlives a      *)
(* subkernel is modelled by what it holds: the images in MRAM, the user    *)
(* key at the end of WRAM, and the WRAM in front of it, in the two regions *)
(* that the linker script tells apart.  That no other tasklet runs         *)
(* meanwhile is module TaskletLife.                                        *)
(*                                                                         *)
(* An image is a record: the subkernel it is (role), the key it is sealed  *)
(* under (key; "none" when no key verifies it), whether it is free of the  *)
(* instructions scan rejects (clean), has the magic word (magic), has 1 to *)
(* 15 sections of text (fits), and whether its .data.persist has more in   *)
(* it than g_load_prop (keeps): then its __ime_persist_start is lower.     *)
(***************************************************************************)
EXTENDS Naturals, FiniteSets

CONSTANTS
  Images,     \* the images the host has
  HostSites,  \* bound: the sites whose image the host changes
  AnyTag,     \* tag == NULL
  Nobody      \* owner of what is in WRAM at power-on

Stages == {"stage1", "stage2", "stage3"}
Roles == Stages \cup {"msg", "app"}

\* "zero" is the key that boot.s leaves: all zeros, a key as good as any.
ASSUME ImagesAssumption ==
  /\ Images \subseteq [role : Roles, key : {"system", "user", "zero", "none"},
                      clean : BOOLEAN, magic : BOOLEAN, fits : BOOLEAN, keeps : BOOLEAN]
  /\ \A image \in Images :
       (image.role \in Stages => image.keeps) /\ (image.role = "msg" => ~ image.keeps)

\* What is left of an image that was written over in part.
Torn == [role |-> "app", key |-> "none",
         clean |-> FALSE, magic |-> FALSE, fits |-> FALSE, keeps |-> FALSE]

Contents == Images \cup {Torn}

ASSUME OthersAssumption == {AnyTag, Nobody} \cap Contents = {}

(***************************************************************************)
(* Addresses in MRAM: __ime_msg_sk, __ime_xchg_sk_2, __ime_xchg_sk_3, one  *)
(* more that is clear of the loader's memory, __ime_scratch_a itself, and  *)
(* one at which an image lies over a part of __ime_scratch_a.              *)
(***************************************************************************)
Sites == {"msg", "stage2", "stage3", "other", "scratch", "overlap"}

ASSUME SitesAssumption == HostSites \subseteq Sites

\* WRAM below g_load_prop: "low" is ordinary memory of every subkernel,
\* "middle" is in .data.persist of those that keep g_xchg_io or the like.
Regions == {"low", "middle"}

VARIABLES
  pc,        \* where tasklet 0 is
  mram,      \* mram[s]: the image at site s
  opened,    \* the sites whose image is in plaintext
  request,   \* arguments of the last ime_replace_sk call
  iram,      \* the image whose code is in IRAM
  wram,      \* wram[r]: the subkernels whose data region r holds
  exchange,  \* g_xchg_io: "in", "shared" or nothing of an exchange, "none"
  userKey,   \* g_load_prop.key: "old", "zero" or "user"
  command,   \* __ime_msg_buf
  keyed      \* history: an exchange has ended since the last return from main()

vars == <<pc, mram, opened, request, iram, wram, exchange, userKey, command, keyed>>
memory == <<mram, opened>>
persistent == <<exchange, userKey, keyed>>

Requests ==
  [site : Sites, tag : Images \cup {AnyTag}, key : {"system", "user"},
   wipe : SUBSET Regions]

Commands ==
  [type : {"ping", "other"}] \cup [type : {"load"}, site : Sites, key : {"system", "user"}]

\* ime_replace_sk: "wipe" ... "pop".  "start": at the entry of a subkernel.
\* "wait": in __ime_wait_for_host.  "resumed": back from it.  "return": after main().
Locations == {"wipe", "push", "tag", "verify", "decrypt", "scan", "wram", "iram", "pop",
              "start", "wait", "resumed", "return", "fault"}

(***************************************************************************)
(* A call of __ime_replace_sk, which passes on the caller's own            *)
(* __ime_persist_start.  By then the caller may have used all its memory.  *)
(***************************************************************************)
Replace(site, tag, key) ==
  /\ request' = [site |-> site, tag |-> tag, key |-> key,
                 wipe |-> IF iram.keeps THEN {"low"} ELSE Regions]
  /\ wram' = [wram EXCEPT !["middle"] = @ \cup {iram}]
  /\ pc' = "wipe"

\* What MRAM can be after a write of an image at a site: the images that
\* lie over one another do not both survive.
Write(site, image) ==
  LET shared == IF site \in {"scratch", "overlap"} THEN {"scratch", "overlap"} \ {site} ELSE {}
  IN {[s \in Sites |-> IF s = site THEN image ELSE IF s \in torn THEN Torn ELSE mram[s]] :
        torn \in SUBSET shared}

\* core_cont_boot loads the message subkernel and wipes nothing.
Init ==
  /\ pc = "wipe"
  /\ mram \in [Sites -> Contents]
  /\ \A s \in Sites \ HostSites :
       IF s \in Roles THEN mram[s] \in Images /\ mram[s].role = s ELSE mram[s] = Torn
  /\ opened = {}
  /\ request = [site |-> "msg", tag |-> AnyTag, key |-> "system", wipe |-> {}]
  /\ iram = Nobody
  /\ wram = [r \in Regions |-> {Nobody}]
  /\ exchange = "none"
  /\ userKey \in {"old", "zero"}
  /\ command = [type |-> "other"]
  /\ keyed = FALSE

-----------------------------------------------------------------------------
(* ime_replace_sk. *)

Image == mram[request.site]

Fault == pc' = "fault"

Else(condition, next) == IF condition THEN pc' = next ELSE Fault

\* Slip: a caller that keeps no more than g_load_prop is taken to keep nothing.
WipeKey ==
  /\ pc = "wipe"
  /\ wram' = [r \in Regions |-> IF r \in request.wipe THEN {} ELSE wram[r]]
  /\ exchange' = IF "middle" \in request.wipe THEN "none" ELSE exchange
  /\ userKey' = IF "middle" \in request.wipe THEN "zero" ELSE userKey
  /\ pc' = "push"
  /\ UNCHANGED <<memory, request, iram, command, keyed>>

\* Slip: the wipe ends where g_xchg_io is in the stages, for every caller.
WipeLow ==
  /\ pc = "wipe"
  /\ wram' = IF request.wipe = {} THEN wram ELSE [wram EXCEPT !["low"] = {}]
  /\ pc' = "push"
  /\ UNCHANGED <<memory, request, iram, persistent, command>>

\* ime_wipe_user zeroes WRAM below r3: the __ime_persist_start of the
\* caller, or 0 at boot.
WipeUser ==
  /\ pc = "wipe"
  /\ wram' = [r \in Regions |-> IF r \in request.wipe THEN {} ELSE wram[r]]
  /\ exchange' = IF "middle" \in request.wipe THEN "none" ELSE exchange
  /\ pc' = "push"
  /\ UNCHANGED <<memory, request, iram, userKey, keyed, command>>

(***************************************************************************)
(* The image is copied to __ime_scratch_a as it is.  One that lies over a  *)
(* part of it is torn by the copy, one that is there already is its copy.  *)
(***************************************************************************)
PushSk ==
  /\ pc = "push"
  /\ \E m \in Write("scratch", Image) :
       mram' = IF request.site = "overlap" THEN [m EXCEPT !["overlap"] = Torn] ELSE m
  /\ opened' = IF request.site \in opened THEN opened \cup {"scratch"} ELSE opened \ {"scratch"}
  /\ pc' = "tag"
  /\ UNCHANGED <<request, iram, wram, persistent, command>>

CheckTag ==
  /\ pc = "tag"
  /\ Else(request.tag = AnyTag \/ request.tag = Image, "verify")
  /\ UNCHANGED <<memory, request, iram, wram, persistent, command>>

\* user_key points at g_load_prop.key and is read here, after the wipe.
\* Nothing refuses a key of zeros.
Key == IF request.key = "system" THEN "system" ELSE userKey

\* Slip: the tag of the image is not compared.
VerifyNothing ==
  /\ pc = "verify"
  /\ pc' = "decrypt"
  /\ UNCHANGED <<memory, request, iram, wram, persistent, command>>

Verify ==
  /\ pc = "verify"
  /\ Else(Image.key = Key /\ request.site \notin opened, "decrypt")
  /\ UNCHANGED <<memory, request, iram, wram, persistent, command>>

Decrypt ==
  /\ pc = "decrypt"
  /\ opened' = opened \cup {request.site}
  /\ pc' = "scan"
  /\ UNCHANGED <<mram, request, iram, wram, persistent, command>>

\* Slip: the scan looks for nothing.
ScanNothing ==
  /\ pc = "scan"
  /\ pc' = "wram"
  /\ UNCHANGED <<memory, request, iram, wram, persistent, command>>

ScanSk ==
  /\ pc = "scan"
  /\ Else(Image.clean, "wram")
  /\ UNCHANGED <<memory, request, iram, wram, persistent, command>>

\* A bad magic word is a sanity fault; otherwise the data sections are copied.
LoadWram ==
  /\ pc = "wram"
  /\ Else(Image.magic, "iram")
  /\ wram' = IF Image.magic THEN [wram EXCEPT !["low"] = @ \cup {Image}] ELSE wram
  /\ UNCHANGED <<memory, request, iram, persistent, command>>

LoadIram ==
  /\ pc = "iram"
  /\ Else(Image.fits, "pop")
  /\ iram' = IF Image.fits THEN Image ELSE iram
  /\ UNCHANGED <<memory, request, wram, persistent, command>>

\* Slip: the image stays as it was decrypted.
PopNothing ==
  /\ pc = "pop"
  /\ pc' = "start"
  /\ UNCHANGED <<memory, request, iram, wram, persistent, command>>

\* The copy goes back to where the image was.
PopSk ==
  /\ pc = "pop"
  /\ mram' = [mram EXCEPT ![request.site] = mram["scratch"]]
  /\ opened' = IF "scratch" \in opened THEN opened ELSE opened \ {request.site}
  /\ pc' = "start"
  /\ UNCHANGED <<request, iram, wram, persistent, command>>

-----------------------------------------------------------------------------
(* The subkernels. *)

\* What a subkernel that keeps data there makes of g_xchg_io.
MayUse(image) ==
  IF image.keeps THEN exchange' \in {"none", "in", "shared"} ELSE UNCHANGED exchange

Runs(role, at) == pc = at /\ iram.role = role

\* Slip: the key is left in place.
ReturnKeepsKey ==
  /\ pc = "return"
  /\ keyed' = FALSE
  /\ Replace("msg", AnyTag, "system")
  /\ UNCHANGED <<memory, iram, exchange, userKey, command>>

\* Slip: the image that returns is loaded again.
ReturnAgain ==
  /\ pc = "return"
  /\ userKey' = "zero"
  /\ keyed' = FALSE
  /\ Replace(request.site, AnyTag, request.key)
  /\ UNCHANGED <<memory, iram, exchange, command>>

\* After main(): g_load_prop is zeroed and the message subkernel loaded.
Return ==
  /\ pc = "return"
  /\ userKey' = "zero"
  /\ keyed' = FALSE
  /\ Replace("msg", AnyTag, "system")
  /\ UNCHANGED <<memory, iram, exchange, command>>

\* msg and stage 1 give the MRAM to the host.
WaitForHost ==
  /\ Runs("msg", "start") \/ Runs("stage1", "start")
  /\ pc' = "wait"
  /\ UNCHANGED <<memory, request, iram, wram, persistent, command>>

\* The host writes a message and perhaps an image, then lets the DPU go on.
Host ==
  /\ pc = "wait"
  /\ command' \in Commands
  /\ \/ UNCHANGED memory
     \/ \E s \in HostSites, image \in Images :
          mram' \in Write(s, image) /\ opened' = opened \ {s}
  /\ pc' = "resumed"
  /\ UNCHANGED <<request, iram, wram, persistent>>

MsgReturns ==
  /\ Runs("msg", "resumed")
  /\ command.type # "load"
  /\ pc' = "return"
  /\ command' = [type |-> "other"]
  /\ UNCHANGED <<memory, request, iram, wram, persistent>>

MsgLoads ==
  /\ Runs("msg", "resumed")
  /\ command.type = "load"
  /\ Replace(command.site, AnyTag, command.key)
  /\ command' = [type |-> "other"]
  /\ UNCHANGED <<memory, iram, persistent>>

\* Stage 1 takes over the client's public key and the sealed key.
Stage1 ==
  /\ Runs("stage1", "resumed")
  /\ exchange' = "in"
  /\ Replace("stage2", AnyTag, "system")
  /\ UNCHANGED <<memory, iram, userKey, command, keyed>>

\* Stage 2 replaces the public key by the shared secret; an assert may fail.
Stage2 ==
  /\ Runs("stage2", "start")
  /\ \/ /\ exchange' = IF exchange = "in" THEN "shared" ELSE "none"
        /\ Replace("stage3", AnyTag, "system")
     \/ /\ Fault
        /\ UNCHANGED <<exchange, request, wram>>
  /\ UNCHANGED <<memory, iram, userKey, command, keyed>>

\* The sealed key opens under the shared secret.
Stage3Accepts ==
  /\ Runs("stage3", "start")
  /\ exchange = "shared"
  /\ userKey' = "user"
  /\ keyed' = TRUE
  /\ Replace("msg", AnyTag, "system")
  /\ UNCHANGED <<memory, iram, exchange, command>>

Stage3Rejects ==
  /\ Runs("stage3", "start")
  /\ pc' = "return"
  /\ UNCHANGED <<memory, request, iram, wram, persistent, command>>

AppReturns ==
  /\ Runs("app", "start")
  /\ MayUse(iram)
  /\ pc' = "return"
  /\ UNCHANGED <<memory, request, iram, wram, userKey, keyed, command>>

\* An application may name its successor, with a tag and the key it has.
AppLoads ==
  /\ Runs("app", "start")
  /\ MayUse(iram)
  /\ \E site \in Sites, tag \in Images \cup {AnyTag}, key \in {"system", "user"} :
       Replace(site, tag, key)
  /\ UNCHANGED <<memory, iram, userKey, keyed, command>>

-----------------------------------------------------------------------------
Load ==
  WipeUser \/ PushSk \/ CheckTag \/ Verify \/ Decrypt \/ ScanSk \/ LoadWram \/ LoadIram \/ PopSk

Subkernel ==
  \/ Return \/ WaitForHost \/ MsgReturns \/ MsgLoads
  \/ Stage1 \/ Stage2 \/ Stage3Accepts \/ Stage3Rejects \/ AppReturns \/ AppLoads

\* The DPU stays as a fault leaves it.
Halted == pc = "fault" /\ UNCHANGED vars

Next == Load \/ Subkernel \/ Host \/ Halted

Spec == Init /\ [][Next]_vars

\* Tasklet 0 goes on; the host need not.
FairSpec == Spec /\ WF_vars(Load) /\ WF_vars(Subkernel)

-----------------------------------------------------------------------------
TypeOK ==
  /\ pc \in Locations
  /\ mram \in [Sites -> Contents]
  /\ opened \subseteq Sites
  /\ request \in Requests
  /\ iram \in Contents \cup {Nobody}
  /\ wram \in [Regions -> SUBSET (Contents \cup {Nobody})]
  /\ exchange \in {"none", "in", "shared"}
  /\ userKey \in {"old", "zero", "user"}
  /\ command \in Commands
  /\ keyed \in BOOLEAN

Running == pc \in {"start", "wait", "resumed", "return"}

\* The key that the request names when it names the user key: the client's
\* from an exchange to the next return from main(), then all zeros.
Expected == IF request.key = "system" THEN "system" ELSE IF keyed THEN "user" ELSE "zero"

Accepted(image) == image.clean /\ image.magic /\ image.fits

(***************************************************************************)
(* Code runs only after it passed every check of the call that loaded it:  *)
(* the tag that was asked for, a key of the kind that was asked for, the   *)
(* scan, the magic word, the size (core_load.S:39-78).                     *)
(***************************************************************************)
OnlyVettedCodeRuns ==
  Running =>
    /\ request.tag \in {AnyTag, iram}
    /\ iram.key \in (IF request.key = "system" THEN {"system"} ELSE {"user", "zero"})
    /\ Accepted(iram)

(***************************************************************************)
(* While a subkernel runs, and so whenever the host may read MRAM between  *)
(* two loads, every image is sealed, except that one loaded from the       *)
(* loader's own scratch memory stays there in plaintext.  A fault leaves   *)
(* in plaintext at most the image that was being loaded, when the loader   *)
(* refused it after the decryption (core_load.S:53-78).                    *)
(***************************************************************************)
ImagesAreSealed ==
  Running \/ pc = "fault" =>
    \A s \in opened :
      /\ s = request.site
      /\ s = "scratch" \/ (pc = "fault" /\ ~ Accepted(mram[s]))

(***************************************************************************)
(* What a subkernel left is found by a later one only where it was in the  *)
(* .data.persist of the one that left it (boot.s:34,43, user.ld:3); this   *)
(* may be ordinary memory of the one that finds it.                        *)
(***************************************************************************)
NoDataLeftBehind ==
  Running =>
    \A r \in Regions : \A owner \in wram[r] \ {Nobody} :
      owner = iram \/ (r = "middle" /\ owner.keeps)

(***************************************************************************)
(* The user key lasts from an exchange to the first return from main()     *)
(* after it (ime.h:9-14).  In that time what is loaded as the user's is    *)
(* sealed under it; at any other time it is sealed under a key of zeros.   *)
(***************************************************************************)
KeyEndsWithMain ==
  Running /\ request.key = "user" => iram.key = IF keyed THEN "user" ELSE "zero"

(***************************************************************************)
(* A fault has a cause: the image is not what the call asks for, or there  *)
(* was no key, or it lay in the loader's scratch memory, or stage 2 failed *)
(* an assert.  In particular the wipe, which comes before the key is read  *)
(* through user_key, spares it.                                            *)
(***************************************************************************)
FaultHasCause ==
  pc = "fault" =>
    \/ iram # Nobody /\ iram.role = "stage2"
    \/ ~ (request.tag \in {AnyTag, Image} /\ Image.key = Expected /\ Accepted(Image))
    \/ request.key = "user" /\ userKey = "old"
    \/ request.site = "scratch" /\ "scratch" \in opened

(***************************************************************************)
(* The inductive invariant behind the five properties above: what is known *)
(* at each step of the pipeline, and still known while the subkernel runs. *)
(***************************************************************************)
IramLoaded == {"pop"}
WramLoaded == {"iram"} \cup IramLoaded
Scanned == {"wram"} \cup WramLoaded
Decrypted == {"scan"} \cup Scanned
Verified == {"decrypt"} \cup Decrypted
TagChecked == {"verify"} \cup Verified
Pushed == {"tag"} \cup TagChecked
Wiped == {"push"} \cup Pushed

Vetting ==
  /\ pc \in TagChecked => request.tag \in {AnyTag, Image}
  /\ pc \in Verified => Image.key = Expected
  /\ pc \in Scanned => Image.clean
  /\ pc \in WramLoaded => Image.magic
  /\ pc \in IramLoaded => Image.fits /\ iram = Image

\* Before the push the scratch memory may be in plaintext; from the push to
\* the decryption only if it is itself to be loaded, and then in vain.
Sealing ==
  /\ pc \in {"wipe", "push"} => opened \subseteq {"scratch"}
  /\ pc \in Pushed => opened \subseteq {request.site}
  /\ pc \in Pushed /\ pc \notin Decrypted => opened \subseteq {"scratch"}
  /\ pc = "decrypt" => opened = {}
  /\ pc \in Pushed => request.site = "overlap" \/ mram["scratch"] = Image
  /\ pc \in Pushed /\ request.site = "overlap" => Image = Torn

\* "middle" is below the boundary of a caller that keeps nothing there.
Wiping ==
  /\ pc = "wipe" /\ "low" \notin request.wipe => wram["low"] \subseteq {Nobody}
  /\ pc = "wipe" /\ "middle" \notin request.wipe =>
       \A owner \in wram["middle"] \ {Nobody} : owner.keeps
  /\ pc \in Wiped =>
       /\ wram["low"] \subseteq (IF pc \in WramLoaded THEN {Image, Nobody} ELSE {Nobody})
       /\ \A owner \in wram["middle"] \ {Nobody} : owner.keeps

LoaderInv ==
  /\ TypeOK
  /\ keyed <=> userKey = "user"
  /\ Running => iram # Nobody
  /\ Vetting /\ Sealing /\ Wiping
  /\ OnlyVettedCodeRuns /\ ImagesAreSealed /\ NoDataLeftBehind
  /\ KeyEndsWithMain /\ FaultHasCause

\* stage3.c:31-33: when stage 3 gives up, "exiting main this way will clear
\* all data in WRAM (including key material)": looked at after the wipe.
ExitClearsSecrets ==
  pc = "push" /\ iram # Nobody /\ userKey = "zero" =>
    (iram.role = "stage3" => exchange # "shared")

\* stage3.c:31-33: "after this the MSG subkernel will be invoked, allowing a
\* new key exchange to start", unless the image at its address is refused.
ReturnReachesMsg ==
  pc = "return" ~> pc \in {"wait", "fault"} \/ (pc = "start" /\ mram["msg"].role # "msg")
=============================================================================
