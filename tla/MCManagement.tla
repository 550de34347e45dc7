---------------------------- MODULE MCManagement ----------------------------
(* The parts of the management API, checked side by side: each behaviour    *)
(* exercises the one that Init picks, and the others rest where pinned.     *)
EXTENDS MCManifest, ManagementCodec, ManagementEdits, ManagementTransport

VARIABLE part

managementVars == <<part, manifestVars, codecVars, editVars, transportVars>>

Init ==
    /\ part \in {"manifest", "codec", "edits", "transport"}
    /\ CodecInit /\ (part # "codec" => schema = "Role")
    /\ EditInit /\ (part # "edits" => form = "stream")
    /\ TransportInit /\ (part # "transport" => known = {} /\ credentials = {})
    /\ ManifestInit /\ (part # "manifest" => manifest = Twins.manifest)

Next ==
    \/ part = "manifest" /\ ManifestNext /\ UNCHANGED <<part, codecVars, editVars, transportVars>>
    \/ part = "codec" /\ CodecNext /\ UNCHANGED <<part, manifestVars, editVars, transportVars>>
    \/ part = "edits" /\ EditNext /\ UNCHANGED <<part, manifestVars, codecVars, transportVars>>
    \/ part = "transport" /\ TransportNext /\ UNCHANGED <<part, manifestVars, codecVars, editVars>>

\* The parts that tell neither two threads, nor two administrators, nor two
\* event types apart.
Symmetry == Permutations(Threads) \cup Permutations(Admins) \cup Permutations(Events)
=============================================================================
