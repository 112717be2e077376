------------------------------ MODULE MCNavTree ------------------------------
(* A small manual for NavTree, with what the real one has: a place that two    *)
(* items of the tree lead to, an anchor that is in two pages, a page that is   *)
(* shown at the item of another one (the listing of a source file), and a      *)
(* branch that is two scripts deep.                                            *)
EXTENDS NavTree

CONSTANTS index, header, listing, conn, loop, line

MCUrls ==
  {Url(p, NoHash) : p \in {index, header, listing, conn}}
    \cup {Url(header, loop), Url(conn, loop), Url(listing, line)}

\* index > (script) header > (script) conn > loop, and loop, of header;
\* index > loop, of conn.
MCLink ==
  [n \in {<<0>>, <<0, 0>>, <<0, 0, 0>>, <<0, 0, 0, 0>>, <<0, 0, 1>>, <<0, 1>>} |->
     CASE n = <<0>>                        -> Url(index, NoHash)
       [] n = <<0, 0>>                     -> Url(header, NoHash)
       [] n = <<0, 0, 0>>                  -> Url(conn, NoHash)
       [] n = <<0, 0, 1>>                  -> Url(header, loop)
       [] n \in {<<0, 0, 0, 0>>, <<0, 1>>} -> Url(conn, loop)]

MCTree == {<<>>} \cup DOMAIN MCLink
MCLazy == {<<0, 0>>, <<0, 0, 0>>}

MCEntry ==
  [u \in MCUrls \ {Url(listing, line)} |->
     CASE u = Url(index, NoHash)   -> <<>>
       [] u = Url(header, NoHash)  -> <<0>>
       [] u = Url(listing, NoHash) -> <<0>>
       [] u = Url(header, loop)    -> <<0, 1>>
       [] u = Url(conn, NoHash)    -> <<0, 0>>
       [] u = Url(conn, loop)      -> <<0, 0, 0>>]

MCChunk == [u \in Urls |-> IF u.page = conn THEN 1 ELSE 0]
=============================================================================
