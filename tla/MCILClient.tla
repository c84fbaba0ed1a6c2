----------------------------- MODULE MCILClient -----------------------------
(***************************************************************************)
(* Two components, one failure and events nobody asked for: an error that  *)
(* ends no command, and new settings and a new configuration of the source. *)
(***************************************************************************)
EXTENDS ILClient

UnsolicitedEvents == {<<"Error", "PortUnpopulated", "async">>, <<"ParamOrConfigChanged", "out", "-">>,
                       <<"PortSettingsChanged", "out", "-">>}
=============================================================================
