----------------------------- MODULE DriverList -----------------------------
(***************************************************************************)
(* The `list` subcommand of driver_tools                                   *)
(* (src/devices/bin/driver_tools/src/subcommands/list/mod.rs).  It asks    *)
(* the driver-development service for the driver list and, with --loaded,  *)
(* for the device list too; the two futures are awaited together (join!), *)
(* so their replies arrive in either order.  The device result is checked  *)
(* first, then the driver result; the drivers some device is bound to are  *)
(* kept, and every driver kept is printed, one per loop iteration.         *)
(*                                                                         *)
(* An Option<String> is a set of at most one string.  A driver is          *)
(* [name, libname, url, rules]; rules abstracts its bind_rules to what the *)
(* printing branches tell apart.  A device is [version, libname, url]: the *)
(* bound driver of a DFv1 or DFv2 node.                                    *)
(***************************************************************************)
EXTENDS Sequences, SequencesExt

CONSTANTS
  DriverLists,   \* driver lists the service may return
  DeviceLists    \* device lists the service may return

VARIABLES
  cmd,           \* the ListCommand flags [loaded, verbose]
  driverReply,   \* the driver query: Pending, Failed or [tag |-> "Ok", val]
  deviceReply,   \* the device query, NotSent without --loaded
  pc,            \* "await", "print" or "done"
  listing,       \* the drivers still to print
  out,           \* the lines printed: [driver, text]
  result         \* the Result list returns

vars == <<cmd, driverReply, deviceReply, pc, listing, out, result>>

Pending == [tag |-> "Pending", val |-> <<>>]
NotSent == [tag |-> "NotSent", val |-> <<>>]
Failed  == [tag |-> "Err", val |-> <<>>]
Replied(l) == [tag |-> "Ok", val |-> l]

NoResult == "none"

\* Option::or and unwrap_or("").
OrElse(a, b) == IF a # {} THEN a ELSE b
UnwrapOrEmpty(o) == IF o = {} THEN "" ELSE CHOOSE x \in o : TRUE

(***************************************************************************)
(* The keys of loaded_driver_set: the bound libname of a DFv1 node, the    *)
(* bound URL of a DFv2 node, nodes bound to nothing dropped (filter_map).  *)
(***************************************************************************)
LoadedDriverSet(devices) ==
  UNION {IF devices[i].version = "V1" THEN devices[i].libname ELSE devices[i].url
           : i \in DOMAIN devices}

\* Mutant: the filter looks at the libname only.
IsLoadedByLibname(d, set) == (d.libname \cap set) # {}

\* The filter closure: the libname or the URL is in the set.
IsLoaded(d, set) == (d.libname \cap set) # {} \/ (d.url \cap set) # {}

(***************************************************************************)
(* What one iteration of the printing loop writes about a driver: with     *)
(* --verbose, how its bind rules are shown (a V2 program dump_bind_rules   *)
(* rejects is reported as an issue and the loop goes on); otherwise the    *)
(* name line, libname before URL when there is a name, URL first if not.  *)
(***************************************************************************)
Line(d, verbose) ==
  [driver |-> d,
   text |-> IF verbose
            THEN CASE d.rules = "V1"          -> "bytes"
                   [] d.rules = "V2"          -> "dump"
                   [] d.rules = "V2Malformed" -> "issue"
                   [] d.rules = "None"        -> "unknown"
            ELSE IF d.name # {} THEN UnwrapOrEmpty(OrElse(d.libname, d.url))
            ELSE UnwrapOrEmpty(OrElse(d.url, d.libname))]

Init ==
  /\ cmd \in [loaded : BOOLEAN, verbose : BOOLEAN]
  /\ driverReply = Pending
  /\ deviceReply = IF cmd.loaded THEN Pending ELSE NotSent
  /\ pc = "await"
  /\ listing = <<>>
  /\ out = <<>>
  /\ result = NoResult

(***************************************************************************)
(* The service answers a query, with a list or an error, independently of  *)
(* the other query.                                                        *)
(***************************************************************************)
DriverServiceReplies ==
  /\ driverReply = Pending
  /\ driverReply' \in {Failed} \cup {Replied(l) : l \in DriverLists}
  /\ UNCHANGED <<cmd, deviceReply, pc, listing, out, result>>

DeviceServiceReplies ==
  /\ deviceReply = Pending
  /\ deviceReply' \in {Failed} \cup {Replied(l) : l \in DeviceLists}
  /\ UNCHANGED <<cmd, driverReply, pc, listing, out, result>>

\* The statement after join!, or after driver_info.await, returns early.
Return(e) == pc' = "done" /\ result' = e /\ UNCHANGED <<listing, out>>

\* Mutant: driver_info.unwrap_or_default() in place of driver_info?.
JoinLoadedDefaultingDrivers ==
  /\ pc = "await"
  /\ cmd.loaded
  /\ driverReply # Pending /\ deviceReply # Pending
  /\ IF deviceReply = Failed THEN Return("device query failed")
     ELSE LET set == LoadedDriverSet(deviceReply.val)
          IN /\ listing' = SelectSeq(driverReply.val, LAMBDA d : IsLoaded(d, set))
             /\ pc' = "print"
             /\ UNCHANGED <<out, result>>
  /\ UNCHANGED <<cmd, driverReply, deviceReply>>

(***************************************************************************)
(* --loaded: join! resumes when both replies are in; device_info? returns  *)
(* first, then driver_info?, then the driver list is filtered.             *)
(***************************************************************************)
JoinLoaded ==
  /\ pc = "await"
  /\ cmd.loaded
  /\ driverReply # Pending /\ deviceReply # Pending
  /\ CASE deviceReply = Failed -> Return("device query failed")
       [] driverReply = Failed -> Return("driver query failed")
       [] OTHER ->
            LET set == LoadedDriverSet(deviceReply.val)
            IN /\ listing' = SelectSeq(driverReply.val, LAMBDA d : IsLoaded(d, set))
               /\ pc' = "print"
               /\ UNCHANGED <<out, result>>
  /\ UNCHANGED <<cmd, driverReply, deviceReply>>

\* Without --loaded: driver_info.await?.
AwaitDrivers ==
  /\ pc = "await"
  /\ ~cmd.loaded
  /\ driverReply # Pending
  /\ IF driverReply = Failed
     THEN Return("driver query failed")
     ELSE /\ listing' = driverReply.val
          /\ pc' = "print"
          /\ UNCHANGED <<out, result>>
  /\ UNCHANGED <<cmd, driverReply, deviceReply>>

PrintDriver ==
  /\ pc = "print"
  /\ listing # <<>>
  /\ out' = Append(out, Line(Head(listing), cmd.verbose))
  /\ listing' = Tail(listing)
  /\ UNCHANGED <<cmd, driverReply, deviceReply, pc, result>>

Finish ==
  /\ pc = "print"
  /\ listing = <<>>
  /\ pc' = "done"
  /\ result' = "Ok"
  /\ UNCHANGED <<cmd, driverReply, deviceReply, listing, out>>

Client == JoinLoaded \/ AwaitDrivers \/ PrintDriver \/ Finish

Next == DriverServiceReplies \/ DeviceServiceReplies \/ Client

(***************************************************************************)
(* The service answers every query it is sent (a closed channel is an      *)
(* error reply), and the command, once resumed, runs on to its return.     *)
(***************************************************************************)
Spec ==
  /\ Init /\ [][Next]_vars
  /\ WF_vars(DriverServiceReplies) /\ WF_vars(DeviceServiceReplies)
  /\ WF_vars(Client)

-----------------------------------------------------------------------------
\* A device node is bound to a driver: DFv1 by libname, DFv2 by URL.
BoundBy(dev, d) ==
  \/ dev.version = "V1" /\ dev.libname # {} /\ dev.libname = d.libname
  \/ dev.version = "V2" /\ dev.url # {} /\ dev.url = d.url

(***************************************************************************)
(* Whatever order the two replies come in, a successful `list --loaded`    *)
(* prints exactly the drivers of the driver reply that some node of the    *)
(* device reply is bound to (DFv1 and DFv2 nodes alike), once each and in  *)
(* the reply's order, and `list` prints every driver of the reply; a V2    *)
(* program the dumper rejects does not cut the listing short.              *)
(***************************************************************************)
ListsExactlyTheBoundDrivers ==
  pc = "done" /\ result = "Ok" =>
    [i \in DOMAIN out |-> out[i].driver] =
      IF cmd.loaded
      THEN SelectSeq(driverReply.val,
             LAMBDA d : \E i \in DOMAIN deviceReply.val : BoundBy(deviceReply.val[i], d))
      ELSE driverReply.val

(***************************************************************************)
(* list fails only for a query that was sent and failed, and then prints   *)
(* nothing; it succeeds only when every query it sent succeeded.  When     *)
(* both joined queries fail only the device error is reported.             *)
(***************************************************************************)
ErrorsComeFromFailedQueries ==
  /\ result = "device query failed" => deviceReply = Failed /\ out = <<>>
  /\ result = "driver query failed" =>
       driverReply = Failed /\ deviceReply # Failed /\ out = <<>>
  /\ result = "Ok" => driverReply # Failed /\ deviceReply # Failed

=============================================================================
