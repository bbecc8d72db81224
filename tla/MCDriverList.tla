---------------------------- MODULE MCDriverList ----------------------------
(***************************************************************************)
(* Drivers and device nodes for DriverList: a DFv1 driver, a DFv2 driver,  *)
(* a driver with both a libname and a URL and a malformed V2 program, and  *)
(* an unnamed driver with no bind rules; nodes bound by libname, by URL,   *)
(* and to nothing.                                                         *)
(***************************************************************************)
EXTENDS DriverList

Ethernet == [name |-> {"ethernet"}, libname |-> {"ethernet.so"}, url |-> {}, rules |-> "V1"]
Usb      == [name |-> {"usb"}, libname |-> {}, url |-> {"usb.cm"}, rules |-> "V2"]
Gpu      == [name |-> {"gpu"}, libname |-> {"gpu.so"}, url |-> {"gpu.cm"}, rules |-> "V2Malformed"]
Serial   == [name |-> {}, libname |-> {"serial.so"}, url |-> {"serial.cm"}, rules |-> "None"]

V1Node(l)  == [version |-> "V1", libname |-> l, url |-> {}]
V2Node(u)  == [version |-> "V2", libname |-> {}, url |-> u]

MCDriverLists == {<<Ethernet, Usb, Gpu, Serial>>, <<Serial, Gpu>>, <<>>}

MCDeviceLists ==
  {<<V1Node({"ethernet.so"}), V2Node({"usb.cm"}), V1Node({})>>,
   <<V2Node({"gpu.cm"}), V1Node({"serial.so"})>>,
   <<V2Node({})>>}

=============================================================================
