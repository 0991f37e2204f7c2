---------------------------- MODULE MCProcessing ----------------------------
(* Processing on small directories. *)
EXTENDS Processing

Directory(p) == [path |-> p, ext |-> ""]
Json(p)      == [path |-> p, ext |-> "json"]
Other(p)     == [path |-> p, ext |-> "other"]

AbiDirectory == <<"src", "abi">>

\* One name three times, as a directory, its JSON file and another file beside them, and a
\* nested directory called abi; every directory may also be empty.
SmallEntries ==
    {Json(<<"foo">>), Directory(<<"foo">>), Other(<<"foo">>), Json(<<"foo", "bar">>),
     Directory(<<"foo", "abi">>), Json(<<"foo", "abi", "baz">>)}

=============================================================================
