--------------------------- MODULE MCFileTransfer ---------------------------
(***************************************************************************)
(* A small instance of FileTransfer: a file of two chunks and a short one, *)
(* sent alone or together, into a directory with an older and longer b or, *)
(* on the host, one with the first chunk of a, or one with an older a that *)
(* is shorter than the source.                                             *)
(***************************************************************************)
EXTENDS FileTransfer, TLC

CONSTANTS a, b

MCFichiers == {a, b}
MCTaille   == (a :> 2 @@ b :> 1)
MCInegaux  == {b}
MCLots     == {<<a, b>>, <<b>>}
MCAncien   == (a :> <<>> @@ b :> <<Rien, Rien>>)
MCEntame   == (a :> <<<<a, 1>>>> @@ b :> <<>>)
MCPerime   == (a :> <<Rien>> @@ b :> <<>>)
MCFiables  == [Controller |-> {MCAncien}, Controlled |-> {MCAncien, MCEntame}]
MCRestes   == [MCFiables EXCEPT !["Controlled"] = @ \cup {MCPerime}]

=============================================================================
