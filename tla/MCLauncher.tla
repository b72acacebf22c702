----------------------------- MODULE MCLauncher -----------------------------
(***************************************************************************)
(* Two books with files of the same names.  The first has its package in a *)
(* directory and images outside it; the second has a spine item that is    *)
(* missing and one whose name is not ASCII.                                *)
(***************************************************************************)
EXTENDS LauncherProperties

MCBooks    == {"A", "B"}
MCNames    == {"res", "host_app", "epubVirtual", "", "OEBPS", "text", "images", "cover", "one",
               "style", "map", "toc", "missing", "cafe-acute", "cafe-mangled"}
MCMangled  == [name \in {"cafe-acute"} |-> "cafe-mangled"]
MCBasePath == [b \in MCBooks |-> IF b = "A" THEN <<"OEBPS">> ELSE <<>>]
MCArchive  == [b \in MCBooks |->
    IF b = "A" THEN {<<"OEBPS", "cover">>, <<"OEBPS", "text", "one">>, <<"OEBPS", "style">>,
                     <<"images", "map">>}
    ELSE {<<"cover">>, <<"style">>, <<"cafe-acute">>}]
MCSpine    == [b \in MCBooks |->
    IF b = "A" THEN << <<"cover">>, <<"text", "one">> >>
    ELSE << <<"cover">>, <<"missing">>, <<"cafe-acute">> >>]

Up(n, path) == [up |-> n, path |-> path]

MCReferences == [b \in MCBooks |-> [path \in MCArchive[b] |->
    CASE path[Len(path)] = "cover" -> {Up(0, <<"style">>)}
      [] path[Len(path)] = "one"   -> {Up(1, <<"style">>), Up(2, <<"images", "map">>)}
      [] OTHER                     -> {}]]

(* Links of a table of contents beside the package and of a document below  *)
(* it, one to a fragment of itself, one that climbs out of the package.     *)
Link(source, ref) == [source |-> source, ref |-> ref]

MCLinks == [b \in MCBooks |->
    {Link(<<"toc">>, Up(0, <<"cafe-acute">>)), Link(<<"cover">>, Up(1, <<"cover">>))}
    \cup IF b = "A" THEN {Link(<<"toc">>, Up(0, <<"text", "one">>)),
                          Link(<<"text", "one">>, Up(1, <<"cover">>)),
                          Link(<<"text", "one">>, Up(0, <<"">>))}
         ELSE {}]
=============================================================================
