----------------------------- MODULE Cr50Client -----------------------------
(***************************************************************************)
(* The Cr50 TPM client tool (src/devices/tpm/bin/tpm-cr50/client/src/      *)
(* main.rs), `ccd get-info`: run_cmd connects to fuchsia.tpm.cr50.Cr50,    *)
(* sends CcdGetInfo and prints the reply, one capability row per loop      *)
(* iteration; main prints any error run_cmd returns.  A step of the        *)
(* service answers the request; the other steps are the tool's.            *)
(*                                                                         *)
(* A capability is [capability, current, default]; an info is [state,     *)
(* capabilities]; an Option is a set of at most one element; the printed   *)
(* output is a sequence of line records.                                   *)
(***************************************************************************)
EXTENDS Naturals, Sequences

CONSTANTS
  Infos,          \* CcdInfo values the service may return
  ReturnCodes     \* the Cr50 return codes rc

VARIABLES
  pc,      \* "connect", "await", "print", "done"
  reply,   \* the answer to CcdGetInfo, Pending until the service answers
  rows,    \* capabilities still to print
  out      \* lines printed

vars == <<pc, reply, rows, out>>

Pending == [tag |-> "Pending"]

\* The results of proxy.ccd_get_info().await: a FIDL error, a zx status, or (rc, info).
Replies ==
  {[tag |-> "FidlError"], [tag |-> "ServerError"]}
  \cup {[tag |-> "Ok", rc |-> rc, info |-> i] : rc \in ReturnCodes, i \in {{}} \cup {{x} : x \in Infos}}

\* The CcdInfo of a reply, an Option as a set of at most one element.
TheInfo == CHOOSE x \in reply.info : TRUE

\* main: println!("Error while running command: {:?}", e).
ReportError(ctx) == out' = Append(out, [line |-> "error", ctx |-> ctx])

Init ==
  /\ pc = "connect"
  /\ reply = Pending
  /\ rows = <<>>
  /\ out = <<>>

(***************************************************************************)
(* connect_to_protocol::<Cr50Marker>(): an Err ends run_cmd through `?`.   *)
(***************************************************************************)
ConnectFails ==
  /\ pc = "connect"
  /\ ReportError("Connecting to firmware parameter service")
  /\ pc' = "done"
  /\ UNCHANGED <<reply, rows>>

Connect ==
  /\ pc = "connect"
  /\ pc' = "await"
  /\ UNCHANGED <<reply, rows, out>>

ServiceReplies ==
  /\ pc = "await"
  /\ reply = Pending
  /\ reply' \in Replies
  /\ UNCHANGED <<pc, rows, out>>

(***************************************************************************)
(* The two `?` after the call, then the `if let Some(info)`: with an info  *)
(* the state lines and the table header, without one "Error: rc".          *)
(***************************************************************************)
ReceiveReply ==
  /\ pc = "await"
  /\ reply # Pending
  /\ CASE reply.tag = "FidlError" ->
            ReportError("Getting info (Sending FIDL request)") /\ pc' = "done" /\ UNCHANGED rows
       [] reply.tag = "ServerError" ->
            ReportError("Getting info (Server-side failure)") /\ pc' = "done" /\ UNCHANGED rows
       [] reply.info = {} ->
            out' = Append(out, [line |-> "rc", ctx |-> reply.rc]) /\ pc' = "done"
              /\ UNCHANGED rows
       [] OTHER ->
            /\ out' = out \o <<[line |-> "state", ctx |-> TheInfo.state],
                              [line |-> "header", ctx |-> "CAPABILITY"]>>
            /\ rows' = TheInfo.capabilities
            /\ pc' = "print"
  /\ UNCHANGED reply

\* One row: the capability and its current state, the default only when it differs.
CapabilityRow(cap) ==
  [line |-> "capability", ctx |-> cap.capability, current |-> cap.current,
   default |-> IF cap.current # cap.default THEN {cap.default} ELSE {}]

PrintCapability ==
  /\ pc = "print"
  /\ rows # <<>>
  /\ out' = Append(out, CapabilityRow(Head(rows)))
  /\ rows' = Tail(rows)
  /\ UNCHANGED <<pc, reply>>

\* run_cmd returns Ok(()) after the loop, even when only "Error: rc" was printed.
Return ==
  /\ pc = "print"
  /\ rows = <<>>
  /\ pc' = "done"
  /\ UNCHANGED <<reply, rows, out>>

Tool == ConnectFails \/ Connect \/ ReceiveReply \/ PrintCapability \/ Return

Next == ServiceReplies \/ Tool

\* The service answers (a closed channel is a FIDL error); the tool runs to its end.
Spec == Init /\ [][Next]_vars /\ WF_vars(ServiceReplies) /\ WF_vars(Tool)

=============================================================================
