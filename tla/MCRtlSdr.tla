------------------------------- MODULE MCRtlSdr -------------------------------
(* The dongle in one run: its transfers, or its settings, which share nothing *)
(* with them but a mutex that no call of the second kind lets go, or the gain *)
(* that the feeder sets.                                                      *)
EXTENDS UsbAsync, GainControl

Device(known, serial, tuner) == [known |-> known, serial |-> serial, tuner |-> tuner]
\* A mouse, a dongle with each tuner, and one whose tuner nobody knows.
MCBuses ==
  { << Device(FALSE, "mouse", "none"), Device(TRUE, "a", tuner), Device(TRUE, "b", "none") >> :
      tuner \in {"E4000", "FC0012", "FC0013", "FC2580", "R820T", "R828D"} }
\* DAB in band III, UHF, and 1 GHz, where an E4000 does not lock.
MCFrequencies == {1783520, 4660000, 10000000}
MCCorrections == {-125, 0}
MCCrystals == {<<288010, 0>>, <<0, 287990>>}

\* Peaks of the antenna, from below what the least gain shows to above the highest.
MCLevels == {28 * k - 520 : k \in 0..24}

NotTransferring ==
  /\ xfer = [x \in Transfers |-> "IDLE"]
  /\ list = << >>
  /\ flight = [order |-> << >>, cancelled |-> {}]
  /\ status = "CLOSING"
  /\ errors = 0
  /\ reader = [at |-> "out", x |-> 1, lost |-> FALSE, calls |-> 0]
  /\ holder = "nobody"
  /\ closer = "done"
  /\ device = [plugged |-> TRUE, dev_lost |-> FALSE, allocated |-> FALSE, freed |-> TRUE]
  /\ stream = [next |-> 0, block |-> [x \in Transfers |-> 0], last |-> Blocks - 1]
Deaf == agc = Off /\ level = 0 /\ fades = MaxFades + 1 /\ sampled = 0

Transferring == Init /\ bus = << >> /\ dongle = Closed /\ calls = 0 /\ Deaf
Setting == NotTransferring /\ RtlInit /\ Deaf
Listening == NotTransferring /\ GainInit

MCInit == Transferring \/ Setting \/ Listening
MCNext ==
  \/ Next /\ UNCHANGED <<rtlvars, gainvars>>
  \/ fades > MaxFades /\ RtlNext /\ UNCHANGED <<vars, gainvars>>
  \/ fades <= MaxFades /\ GainNext /\ UNCHANGED vars
MCSpec ==
  /\ MCInit /\ [][MCNext]_<<vars, rtlvars, gainvars>>
  /\ Fairness /\ WF_<<rtlvars, gainvars>>(AGC)
==============================================================================
