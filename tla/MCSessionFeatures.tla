-------------------------- MODULE MCSessionFeatures --------------------------
(* Instance of SessionFeatures: one usage after the other, two connections. *)
EXTENDS SessionFeatures

MCCapacitesDe ==
  [u \in Usages |->
    CASE u \in {"listing", "telechargement"} -> {"FileDownload"}
      [] u = "permissions"                   -> {"Audio", "TcpTunnel"}
      [] u = "pressePapiers"                 -> {"ClipboardRead", "ClipboardWrite"}
      [] u = "entrees"                       -> {"ControlKeyboard", "ControlMouse"}
      [] u = "tunnels"                       -> {"TcpTunnel"}
      [] u \in UsagesFlux                    -> {"PrivacyMode"}]

MCBasculablesDe ==
  [u \in Usages |->
    IF u \in {"permissions", "listing", "confidentialite"} THEN MCCapacitesDe[u]
    ELSE IF u = "entrees" THEN {"ControlKeyboard"} ELSE {}]

\* The file of the host: two slices, then one, then two.
MCLongueurs == <<2, 1, 2>>

MCBit == [t \in {"CtrlG", "CtrlD"} |-> "Ctrl"]
MCRaccourcis ==
  {[mods |-> {"Ctrl"}, touche |-> "M", action |-> "ToggleViewOnly"],
   [mods |-> {"Ctrl"}, touche |-> "R", action |-> "ReleaseMouse"]}

=============================================================================
