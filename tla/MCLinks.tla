------------------------------ MODULE MCLinks ------------------------------
(***************************************************************************)
(* How links come about, for TLC: in a behaviour either one link is made   *)
(* and used (ArdLink; ten byte values, so that the longest datagram is     *)
(* ended by the last NUL of the flush only), or the program searches for   *)
(* links (HotPlug).  The other part stands where nothing moves it.         *)
(***************************************************************************)
EXTENDS ArdLink, HotPlug

\* Key length, key and value; with a size of 4, a substate is as long as an answer.
MCMessages == {<<1, 2>>}
MCValue == <<3>>
MCLeftovers == {<<0, 0, 0, 0, 0>>, <<4, 9, 1, 1, 5>>}

NoLink ==
  /\ host = "failed" /\ baud = 1 /\ attempt = 1 /\ manager = "DeviceManager"
  /\ appType = 0 /\ uid = 0 /\ rx = <<>> /\ hostOut = <<>> /\ devOut = <<>> /\ devBaud = 1
  /\ size = 0 /\ left = 0 /\ type = 0 /\ plugged = FALSE /\ slow = {} /\ excuses = {}

NoSearch ==
  /\ stage = "ended" /\ files = {} /\ events = <<>> /\ batch = <<>> /\ entries = {}
  /\ trying = NoPort /\ step = "none" /\ objects = [p \in Port |-> 0]
  /\ m_failed = <<>> /\ motor = NoPort /\ plugs = 0 /\ unlucky = {} /\ raced = {}

LinksInit ==
  \/ Init /\ NoSearch
  \/ HotPlugInit /\ NoLink

LinksNext ==
  \/ Next /\ UNCHANGED plugVars
  \/ HotPlugNext /\ UNCHANGED vars

LinksSpec ==
  /\ LinksInit /\ [][LinksNext]_<<vars, plugVars>>
  /\ WF_vars(Look) /\ WF_vars(Device) /\ WF_plugVars(Program)
=============================================================================
