------------------------------- MODULE MCYang -------------------------------
(***************************************************************************)
(* Building a schema, converting requests with one, and fercc's own part.  *)
(***************************************************************************)
EXTENDS MCFercc, MCYangSchema

VARIABLE part \* which of the three this behaviour is about
yangVars == <<part, codecVars, catalogVars, ferccVars>>

MCNoRequest == request = None /\ continue = FALSE /\ wire = Err /\ back = Err /\ phase = "idle"
MCNoBuild == args = None /\ builder = Ok(NewBuilder) /\ todo = <<Step("idle", None)>> /\ sids = None /\ modules = None /\ doc = None
MCNoRun == opts = None /\ sent = None /\ answer = None /\ output = None /\ step = "idle"

MCYangInit ==
    \/ part = "codec" /\ CodecInit /\ MCNoBuild /\ MCNoRun
    \/ part = "schema" /\ CatalogInit /\ MCNoRequest /\ MCNoRun
    \/ part = "fercc" /\ FerccInit /\ MCNoRequest /\ MCNoBuild

MCYangNext ==
    \/ part = "codec" /\ CodecNext /\ UNCHANGED <<part, catalogVars, ferccVars>>
    \/ part = "schema" /\ CatalogNext /\ UNCHANGED <<part, codecVars, ferccVars>>
    \/ part = "fercc" /\ FerccNext /\ UNCHANGED <<part, codecVars, catalogVars>>

MCYangSpec == MCYangInit /\ [][MCYangNext]_yangVars
=============================================================================
