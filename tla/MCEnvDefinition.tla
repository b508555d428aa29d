-------------------------- MODULE MCEnvDefinition --------------------------
(* Definitions for TLC: one that is sound and those that differ from it in *)
(* one respect, and a second env.                                          *)
EXTENDS Naturals, Sequences, TLC

LibraryOf(tick, slots) ==
  [tick |-> tick, buses |-> {"b"}, channels |-> "c" :> slots, colon |-> FALSE]

EnvLibraries ==
  "l1" :> LibraryOf(20, 2) @@ "l2" :> LibraryOf(20, 2) @@ "l3" :> LibraryOf(50, 2)
  @@ "l4" :> LibraryOf(20, 3) @@ "l5" :> LibraryOf(0, 2) @@ "l6" :> [LibraryOf(20, 2) EXCEPT !.colon = TRUE]

Member(n, l) == [name |-> n, lib |-> l, device |-> "none"]
Device(n, d) == [name |-> n, lib |-> "none", device |-> d]
EnvBus(n, ms) == [name |-> n, iface |-> "vcan0", members |-> ms]
EnvChannel(n, w, ms) == [name |-> n, writer |-> w, members |-> ms]

Sound ==
  [name |-> "lab", instances |-> <<Member("i", "l1"), Device("j", "ecu")>>,
   can |-> <<EnvBus("x", <<<<"i", "b">>, <<"j", "b">>>>)>>,
   shared |-> <<EnvChannel("s", "j", <<<<"i", "c">>, <<"j", "c">>>>)>>]

(* A different library, or a name or a device that is not right.           *)
OtherMembers ==
  {[Sound EXCEPT !.instances[1] = m] :
     m \in {Member("i", "l3"), Member("i", "l4"), Member("i", "l5"), Member("i", "l6"), Member("i", "nolib"),
            Member("j", "l1"), Member("k", "l1"), Device("i", "nodevice"),
            [Member("i", "l1") EXCEPT !.device = "ecu"], [Member("i", "l1") EXCEPT !.lib = "none"]}}
OtherBuses ==
  {[Sound EXCEPT !.can = b] :
     b \in {<<>>, <<[EnvBus("x", <<>>) EXCEPT !.iface = "vcan9"]>>, <<EnvBus("x", <<<<"i", "b">>, <<"i", "b">>>>)>>,
            <<EnvBus("x", <<<<"i", "b">>>>), EnvBus("y", <<<<"j", "b">>, <<"i", "b">>>>)>>,
            <<EnvBus("x", <<<<"i", "b">>>>), EnvBus("y", <<<<"j", "b">>>>)>>,
            <<EnvBus("x", <<<<"i", "b">>>>), [EnvBus("y", <<<<"j", "b">>>>) EXCEPT !.iface = "vcan1"]>>,
            <<EnvBus("x", <<<<"k", "b">>>>)>>, <<EnvBus("x", <<<<"i", "none">>>>)>>}}
OtherChannels ==
  {[Sound EXCEPT !.shared = c] :
     c \in {<<>>, <<EnvChannel("s", "k", <<<<"i", "c">>, <<"j", "c">>>>)>>,
            <<EnvChannel("s", "k", <<<<"k", "c">>, <<"j", "c">>>>)>>,
            <<EnvChannel("s", "i", <<<<"i", "c">>, <<"k", "c">>>>)>>,
            <<EnvChannel("s", "i", <<<<"i", "c">>>>), EnvChannel("t", "j", <<<<"j", "c">>>>)>>,
            <<EnvChannel("s", "i", <<<<"i", "c">>>>), EnvChannel("t", "j", <<<<"j", "c">>, <<"i", "c">>>>)>>}}
Empty == [Sound EXCEPT !.instances = <<>>, !.can = <<>>, !.shared = <<>>]
Rig ==
  [name |-> "rig", instances |-> <<Member("m", "l1")>>, can |-> <<EnvBus("x", <<<<"m", "b">>>>)>>,
   shared |-> <<EnvChannel("s", "m", <<<<"m", "c">>, <<"k", "c">>>>)>>]
(* One whose channel is written by an instance of the other env.           *)
Borrower == [Rig EXCEPT !.shared = <<EnvChannel("s", "j", <<<<"m", "c">>, <<"j", "c">>>>)>>]

SomeDefinitions == {Sound, Rig, Borrower, Empty} \cup OtherMembers \cup OtherBuses \cup OtherChannels

SomeDevices == "ecu" :> "l2"
SomeStrangers == "k" :> "l1"

=============================================================================
