------------------------ MODULE MCVariantAttributes ------------------------
(* Instances of VariantAttributes for TLC.                                 *)
EXTENDS VariantAttributes, TLC

CONSTANTS v1, v2, p1, p2, colour, size, cloth, red, blue, large, silk

MCValue == {<<colour, red>>, <<colour, blue>>, <<size, large>>, <<cloth, silk>>}

\* No value, one, two in either order, the same two for both variants, two of
\* one attribute, and more than the key can hold.
MCCalls ==
    {<<v1, <<>>>>,
     <<v1, <<<<colour, red>>>>>>,
     <<v1, <<<<colour, blue>>, <<size, large>>>>>>,
     <<v1, <<<<size, large>>, <<colour, red>>>>>>,
     <<v1, <<<<colour, red>>, <<colour, blue>>>>>>,
     <<v2, <<<<colour, red>>>>>>,
     <<v2, <<<<size, large>>, <<colour, blue>>>>>>,
     <<v2, <<<<colour, red>>, <<size, large>>, <<cloth, silk>>>>>>}
=============================================================================
