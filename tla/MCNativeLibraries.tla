-------------------------- MODULE MCNativeLibraries --------------------------
(***************************************************************************)
(* Two libraries that share a bucket and an operation, one that asks for a *)
(* name twice, one whose last creator makes nothing, and the four that     *)
(* cannot be opened.  One operation has a colon for a first character.     *)
(***************************************************************************)
EXTENDS NativeLibraries, TLC

Lib(bucket, loaders) == [kind |-> "library", bucket |-> bucket, loaders |-> loaders]
Bad(kind)            == [kind |-> kind]

MCLibrary ==
  [time   |-> Lib(<<"t">>, << <<"n">>, <<":", "m">> >>),
   clock  |-> Lib(<<"t">>, << <<"k">>, <<"n">> >>),
   twice  |-> Lib(<<"u">>, << <<"n">>, <<"n">> >>),
   half   |-> Lib(<<"u">>, << <<"m">>, NoOperation >>),
   path   |-> Bad("slash"),
   none   |-> Bad("absent"),
   plain  |-> Bad("no_entry"),
   shy    |-> Bad("declines")]

MCSeparate == {<< <<"t">>, <<":", "m">> >>, << <<"u">>, <<"n">> >>}
MCOwnNames == {<<"t", ":", ":", "n">>, <<"x">>}

=============================================================================
