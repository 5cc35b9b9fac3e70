---------------------------- MODULE MCPcdGrabber ----------------------------
(* Playlists for TLC: single clouds, archives and files nobody can read. *)
EXTENDS PcdGrabber

Cloud == [kind |-> "pcd"]
Unreadable == [kind |-> "unreadable"]
Archive(entries, end) == [kind |-> "tar", entries |-> entries, end |-> end]

(* An archive cut after its last entry, one that ends in a file that is no *)
(* cloud, an unreadable file in between and a single cloud at the end.     *)
MixedList ==
    << Archive(<<"cloud", "cloud">>, "cut"), Unreadable,
       Archive(<<"cloud", "junk", "cloud">>, "zeros"), Archive(<<"notRegular">>, "zeros"), Cloud >>

(* An archive as tar writes it, between two clouds. *)
TarList == << Cloud, Archive(<<"cloud", "cloud">>, "zeros"), Cloud >>

(* Clouds of full blocks: before an entry with no data and the cloud that  *)
(* is found behind it, before a cloud that is missed, at a cut end.        *)
FullList ==
    << Archive(<<"fullCloud", "empty", "cloud", "fullCloud", "cloud">>, "zeros"),
       Archive(<<"fullCloud">>, "cut"), Cloud >>

Lists == {MixedList, TarList, FullList}
=============================================================================
