------------------------------- MODULE UsbContext -------------------------------
(***************************************************************************)
(* context.c and enumerate_devices of main.c: from the list of devices to  *)
(* an open handle, a configuration descriptor and a claimed interface, and *)
(* back.  Every call of libusb can fail, for any device at any time.       *)
(*                                                                         *)
(* A device on the bus is [id, actions, settings]: vendor and product; does*)
(* it identify itself as an Actions device; the alternate settings of its  *)
(* interfaces in order, each [interface, storage, endpoints], where storage*)
(* is the test of class, subclass and protocol, and an endpoint is         *)
(* [bulk, in, addr].  libusb keeps the books: handles, confs and claims are*)
(* the devices of which it has a handle open, a descriptor allocated, an   *)
(* interface claimed.                                                      *)
(***************************************************************************)
EXTENDS Integers, Sequences, FiniteSets

VARIABLES
    devices,    \* the devices on the bus, in the order of the list
    want,       \* the id open_device looks for, <<>> for enumerate_devices
    at,         \* the place in context.c or enumerate_devices
    n,          \* the loop variable: the device at hand
    setting,    \* the alternate setting init_bulk_context looks at
    uctx,       \* the bulk context
    listed,     \* the device list is allocated
    handles,    \* open handles
    confs,      \* allocated configuration descriptors
    claims,     \* claimed interfaces
    actid,      \* the stack variable of this name spells ACTIONSUSBD
    found,      \* the devices counted as "FOUND"
    tested,     \* history: the devices that were sent IDENTIFY
    short,      \* history: those that answered it with too little data
    failed,     \* history: the devices that a call of libusb failed for
    misuse      \* history: something was released that was not held

books == <<listed, handles, confs, claims, misuse>>
tally == <<actid, found, tested, short>>
counts == <<tally, failed>>
contextVars == <<devices, want, at, n, setting, uctx, books, counts>>

EndpointDescriptors == [bulk : BOOLEAN, in : BOOLEAN, addr : 0..255]
InterfaceDescriptors == [interface : Nat, storage : BOOLEAN,
                         endpoints : Seq(EndpointDescriptors)]
UsbDevices == [id : Nat \X Nat, actions : BOOLEAN,
               settings : Seq(InterfaceDescriptors)]

AnyDevice == <<>>
NoId == <<0, 0>>

(* zero_bulk_context: 0 is no device, no handle, no descriptor.            *)
ZeroContext == [dev |-> 0, handle |-> 0, conf |-> 0, interface |-> 0,
                claimed |-> FALSE, in |-> 0, out |-> 0]

ContextInit(bus) ==
    /\ devices = bus
    /\ want = AnyDevice /\ at = "idle" /\ n = 1 /\ setting = 1
    /\ uctx = ZeroContext
    /\ listed = FALSE /\ handles = {} /\ confs = {} /\ claims = {}
    /\ actid = FALSE /\ found = {} /\ tested = {} /\ short = {} /\ failed = {}
    /\ misuse = FALSE

Continue(id) == want' = id /\ at' = "list"

Fails == failed' = failed \cup {n}

(* Mutant: the handle is closed but not forgotten.                         *)
FreeKeepsHandle ==
    /\ uctx' = [ZeroContext EXCEPT !.handle = uctx.handle,
                    !.interface = IF uctx.claimed THEN 0 ELSE uctx.interface]
    /\ claims' = claims \ (IF uctx.claimed THEN {uctx.handle} ELSE {})
    /\ confs' = confs \ {uctx.conf}
    /\ handles' = handles \ {uctx.handle}
    /\ misuse' = \/ misuse
                 \/ uctx.claimed /\ uctx.handle \notin claims
                 \/ uctx.conf \notin confs \cup {0}
                 \/ uctx.handle \notin handles \cup {0}

(* free_bulk_context: what the context says it holds is released.          *)
FreeContext ==
    /\ uctx' = [ZeroContext EXCEPT
                    !.interface = IF uctx.claimed THEN 0 ELSE uctx.interface]
    /\ claims' = claims \ (IF uctx.claimed THEN {uctx.handle} ELSE {})
    /\ confs' = confs \ {uctx.conf}
    /\ handles' = handles \ {uctx.handle}
    /\ misuse' = \/ misuse
                 \/ uctx.claimed /\ uctx.handle \notin claims
                 \/ uctx.conf \notin confs \cup {0}
                 \/ uctx.handle \notin handles \cup {0}

-----------------------------------------------------------------------------
(* The start of both loops.                                                *)
GetDeviceList ==
    /\ at = "list"
    /\ \/ at' = "refused" /\ UNCHANGED listed
       \/ want # NoId /\ at' = "next" /\ listed' = TRUE
    /\ UNCHANGED <<devices, want, n, setting, uctx, handles, confs, claims,
                   misuse, counts>>

(* The head of the loop, and init_bulk_context up to the descriptor of the *)
(* device, or the end of the list.                                         *)
NextDevice ==
    /\ at = "next" /\ n <= Len(devices)
    /\ uctx' = ZeroContext
    /\ at' = "descriptor"
    /\ UNCHANGED <<devices, want, n, setting, books, counts>>

FreeList ==
    /\ at = "next" /\ n > Len(devices)
    /\ listed' = FALSE
    /\ at' = IF want = AnyDevice THEN "enumerated" ELSE "refused"
    /\ UNCHANGED <<devices, want, n, setting, uctx, handles, confs, claims,
                   misuse, counts>>

(* A failing call of init_bulk_context: it frees the context, returns, and *)
(* its caller frees it again.                                              *)
InitFails ==
    /\ Fails
    /\ FreeContext
    /\ at' = "unsuitable"
    /\ UNCHANGED listed

GetDescriptor ==
    /\ at = "descriptor"
    /\ \/ InitFails
       \/ /\ uctx' = [uctx EXCEPT !.dev = n] /\ at' = "open"
          /\ UNCHANGED <<books, failed>>
    /\ UNCHANGED <<devices, want, n, setting, tally>>

OpenHandle ==
    /\ at = "open"
    /\ \/ InitFails
       \/ /\ uctx' = [uctx EXCEPT !.handle = n] /\ at' = "config"
          /\ handles' = handles \cup {n}
          /\ UNCHANGED <<listed, confs, claims, misuse, failed>>
    /\ UNCHANGED <<devices, want, n, setting, tally>>

(* Mutant: a failure here returns without freeing the context.             *)
GetConfigurationLeaks ==
    /\ at = "config"
    /\ setting' = 1
    /\ \/ /\ Fails /\ at' = "next" /\ n' = n + 1
          /\ UNCHANGED <<uctx, books>>
       \/ /\ uctx' = [uctx EXCEPT !.conf = n] /\ at' = "scan" /\ UNCHANGED n
          /\ confs' = confs \cup {n}
          /\ UNCHANGED <<listed, handles, claims, misuse, failed>>
    /\ UNCHANGED <<devices, want, tally>>

GetConfiguration ==
    /\ at = "config"
    /\ setting' = 1
    /\ \/ InitFails
       \/ /\ uctx' = [uctx EXCEPT !.conf = n] /\ at' = "scan"
          /\ confs' = confs \cup {n}
          /\ UNCHANGED <<listed, handles, claims, misuse, failed>>
    /\ UNCHANGED <<devices, want, n, tally>>

-----------------------------------------------------------------------------
(* endpoints_found after the first k endpoints: the directions of the bulk *)
(* ones.  The mutant does not start every setting with none.               *)
FoundEver(endpoints, k) ==
    {endpoints[m].in : m \in {m \in 1..k : endpoints[m].bulk}}
    \cup (IF uctx.in # 0 THEN {TRUE} ELSE {})
    \cup (IF uctx.out # 0 THEN {FALSE} ELSE {})

endpoints_found(endpoints, k) ==
    {endpoints[m].in : m \in {m \in 1..k : endpoints[m].bulk}}

(* The last bulk endpoint of one direction among the first k, or what the  *)
(* context had.                                                            *)
Endpoint(endpoints, k, in, old) ==
    LET same == {m \in 1..k : endpoints[m].bulk /\ endpoints[m].in = in}
    IN  IF same = {} THEN old
        ELSE endpoints[CHOOSE m \in same : \A o \in same : o <= m].addr

(* One alternate setting.  The endpoints of a mass-storage one are taken   *)
(* until there are two directions; then the device is suitable.            *)
ScanSetting ==
    /\ at = "scan" /\ setting <= Len(devices[n].settings)
    /\ LET s == devices[n].settings[setting]
           eps == s.endpoints
           both == {k \in 1..Len(eps) : s.storage
                                        /\ endpoints_found(eps, k) = BOOLEAN}
           last == IF ~s.storage THEN 0
                   ELSE IF both = {} THEN Len(eps)
                   ELSE CHOOSE k \in both : \A m \in both : k <= m
       IN /\ uctx' = [uctx EXCEPT !.interface = s.interface,
                          !.in = Endpoint(eps, last, TRUE, @),
                          !.out = Endpoint(eps, last, FALSE, @)]
          /\ at' = IF both = {} THEN "scan"
                   ELSE IF want = AnyDevice THEN "claim" ELSE "compare"
    /\ setting' = setting + 1
    /\ UNCHANGED <<devices, want, n, books, counts>>

NoSuitableSetting ==
    /\ at = "scan" /\ setting > Len(devices[n].settings)
    /\ at' = "unsuitable"
    /\ UNCHANGED <<devices, want, n, setting, uctx, books, counts>>

(* The callers free the context of a device they cannot use.               *)
Unsuitable ==
    /\ at = "unsuitable"
    /\ FreeContext
    /\ at' = "next" /\ n' = n + 1
    /\ UNCHANGED <<devices, want, setting, listed, counts>>

(* Mutant: one half of the id is enough.                                   *)
CompareEither ==
    /\ at = "compare"
    /\ IF \E k \in 1..2 : devices[uctx.dev].id[k] = want[k]
         THEN at' = "claim" /\ listed' = FALSE /\ UNCHANGED n
         ELSE at' = "next" /\ n' = n + 1 /\ UNCHANGED listed
    /\ UNCHANGED <<devices, want, setting, uctx, handles, confs, claims,
                   misuse, counts>>

(* Mutant: the loop does not go on behind a device with another id.        *)
CompareAgain ==
    /\ at = "compare"
    /\ IF devices[uctx.dev].id = want THEN at' = "claim" /\ listed' = FALSE
       ELSE at' = "next" /\ UNCHANGED listed
    /\ UNCHANGED <<devices, want, n, setting, uctx, handles, confs, claims,
                   misuse, counts>>

(* open_device: the id decides.  What it passes over is not freed.         *)
CompareId ==
    /\ at = "compare"
    /\ IF devices[uctx.dev].id = want
         THEN at' = "claim" /\ listed' = FALSE /\ UNCHANGED n
         ELSE at' = "next" /\ n' = n + 1 /\ UNCHANGED listed
    /\ UNCHANGED <<devices, want, setting, uctx, handles, confs, claims,
                   misuse, counts>>

(* Mutant: enumerate_devices gives up with the first device that is busy.  *)
ClaimGivesUp ==
    /\ at = "claim"
    /\ \/ /\ Fails /\ FreeContext
          /\ IF want = AnyDevice THEN at' = "next" /\ n' = Len(devices) + 1
             ELSE at' = "refused" /\ UNCHANGED n
       \/ /\ uctx' = [uctx EXCEPT !.claimed = TRUE]
          /\ claims' = claims \cup {uctx.handle}
          /\ at' = (IF want = AnyDevice THEN "identify" ELSE "opened")
          /\ UNCHANGED <<n, handles, confs, misuse, failed>>
    /\ UNCHANGED <<devices, want, setting, listed, tally>>

(* claim_bulk_context: a failure is one device less for enumerate_devices, *)
(* and the end of open_and_claim.                                          *)
Claim ==
    /\ at = "claim"
    /\ \/ /\ Fails /\ FreeContext
          /\ IF want = AnyDevice THEN at' = "next" /\ n' = n + 1
             ELSE at' = "refused" /\ UNCHANGED n
       \/ /\ uctx' = [uctx EXCEPT !.claimed = TRUE]
          /\ claims' = claims \cup {uctx.handle}
          /\ at' = (IF want = AnyDevice THEN "identify" ELSE "opened")
          /\ UNCHANGED <<n, handles, confs, misuse, failed>>
    /\ UNCHANGED <<devices, want, setting, listed, tally>>

(* ACT IDENTIFY: the command fails, perhaps with actid filled by then, or  *)
(* it is answered, and actid is compared.  Where the answer comes short it *)
(* keeps what it held: perhaps the answer of a device before.              *)
Identify ==
    /\ at = "identify"
    /\ tested' = tested \cup {n}
    /\ \/ /\ actid' \in {actid, devices[n].actions, FALSE}
          /\ UNCHANGED <<found, short>>
       \/ /\ actid' = devices[n].actions
          /\ found' = found \cup (IF actid' THEN {n} ELSE {})
          /\ UNCHANGED short
       \/ /\ actid' \in {actid, devices[n].actions}
          /\ found' = found \cup (IF actid' THEN {n} ELSE {})
          /\ short' = short \cup {n}
    /\ FreeContext
    /\ at' = "next" /\ n' = n + 1
    /\ UNCHANGED <<devices, want, setting, listed, failed>>

ContextStep ==
    \/ GetDeviceList \/ NextDevice \/ FreeList \/ GetDescriptor \/ OpenHandle
    \/ GetConfiguration \/ ScanSetting \/ NoSuitableSetting \/ Unsuitable
    \/ CompareId \/ Claim \/ Identify

-----------------------------------------------------------------------------
Bulk(s, addr, in) ==
    \E k \in 1..Len(s.endpoints) :
        s.endpoints[k] = [bulk |-> TRUE, in |-> in, addr |-> addr]
Suitable(d) ==
    \E k \in 1..Len(devices[d].settings) :
        LET s == devices[d].settings[k]
        IN  s.storage /\ \E a, b \in 1..Len(s.endpoints) :
                /\ s.endpoints[a].bulk /\ s.endpoints[a].in
                /\ s.endpoints[b].bulk /\ ~s.endpoints[b].in

(* init_bulk_context frees the context when it fails and its callers free  *)
(* it once more: still nothing is released twice, and nothing that is not  *)
(* held.                                                                   *)
NoMisuse == ~misuse

(* What open_device has passed over: suitable devices with another id.     *)
PassedOver ==
    {d \in 1..(n - 1) : /\ want \notin {AnyDevice, devices[d].id}
                        /\ Suitable(d) /\ d \notin failed}

(* Wherever no device is at hand, so also when the program ends, this is   *)
(* what is open: all that open_device passed over, whose handle and        *)
(* descriptor the next init_bulk_context forgot, and the device that is    *)
(* used, which no function frees.  Everything else is released, however    *)
(* the calls failed: enumerate_devices leaves nothing, and both the list.  *)
LeftOpen ==
    LET used == IF at = "opened" THEN {n} ELSE {}
    IN  at \in {"idle", "list", "next", "refused", "enumerated", "opened"} =>
            /\ handles = PassedOver \cup used /\ confs = handles
            /\ claims = used
            /\ listed <=> at = "next"

(* The two endpoints a device is used with are bulk ones of one alternate  *)
(* setting, a mass-storage one, and so is the interface that is claimed,   *)
(* however the settings before it stopped half way.                        *)
EndpointsOfOneSetting ==
    at \in {"compare", "claim", "identify", "opened"} =>
        \E k \in 1..Len(devices[uctx.handle].settings) :
            LET s == devices[uctx.handle].settings[k]
            IN  /\ s.storage /\ s.interface = uctx.interface
                /\ Bulk(s, uctx.in, TRUE) /\ Bulk(s, uctx.out, FALSE)

(* A command works on the first suitable device with the id asked for of   *)
(* which no call failed, through the interface claimed; and it is refused  *)
(* only if a call failed for a device with this id, or there is none, or   *)
(* there is no list.                                                       *)
OnlyAskedDevice ==
    LET asked == {d \in 1..Len(devices) : devices[d].id = want /\ Suitable(d)}
    IN  /\ at = "opened" =>
               /\ uctx.handle \in asked \cap claims /\ uctx.claimed
               /\ \A d \in asked : d < uctx.handle => d \in failed
        /\ at = "refused" /\ want # AnyDevice /\ n > 1 =>
               asked = {} \/ asked \cap failed # {}

(* An enumeration has tested every suitable device it is done with that no *)
(* call failed for, whatever happened with the ones before; and it counts  *)
(* no other than Actions devices, unless one answered short behind an      *)
(* Actions device, whose answer is then taken for its own.                 *)
EnumerationVisitsAll ==
    /\ want = AnyDevice =>
           \A d \in 1..(n - 1) : Suitable(d) => d \in tested \cup failed
    /\ at = "enumerated" => n = Len(devices) + 1
    /\ \A d \in found :
           \/ devices[d].actions
           \/ d \in short /\ \E e \in tested : e < d /\ devices[e].actions
===============================================================================
