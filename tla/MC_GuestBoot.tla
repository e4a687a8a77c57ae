---------------------------- MODULE MC_GuestBoot ----------------------------
(* Small instances of GuestBoot for TLC.                                   *)
EXTENDS GuestBoot, TLC

CONSTANTS img1, img2, w1, w2, sda, sdb, c1, c2

Opt(o, v) == [opt |-> o, val |-> v]

\* As the Makefile's workflows put them together, an option added by hand, one
\* missing because roothash.txt is empty, and one nobody knows.
MCCmdlines == {
    <<Opt("root", sda)>>,
    <<Opt("root", sda), Opt("boot", "encrypted")>>,
    <<Opt("boot", "encrypted"), Opt("root", sdb)>>,
    <<Opt("root", sda), Opt("boot", "verity"), Opt("verity_disk", sdb),
      Opt("verity_roothash", img1)>>,
    <<Opt("root", sda), Opt("boot", "verity"), Opt("verity_disk", sdb),
      Opt("verity_roothash", img1), Opt("verity_roothash", img2)>>,
    <<Opt("root", sda), Opt("boot", "verity"), Opt("verity_disk", sdb)>>,
    <<Opt("root", sda), Opt("boot", "plain")>> }

Pass(w, e) == [word |-> w, escape |-> e]
FS(i) == [kind |-> "fs", image |-> i, pass |-> NoKey]
Tree(i) == [kind |-> "tree", image |-> i, pass |-> NoKey]
Luks(i, p) == [kind |-> "luks", image |-> i, pass |-> p]

MCDisks == {
    (sda :> a) @@ (sdb :> b) :
      a \in {FS(img1), FS(img2), Luks(img1, Pass(w1, FALSE)), Luks(img1, Pass(w1, TRUE))},
      b \in {FS(img1), Tree(img1), Tree(img2), Luks(img2, Pass(w2, FALSE))} }
==============================================================================
