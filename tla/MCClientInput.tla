--------------------------- MODULE MCClientInput ---------------------------
(***************************************************************************)
(* Small instances of ClientInput.                                         *)
(***************************************************************************)
EXTENDS ClientInput

\* All that there are; with a byte of 18 values they need both bytes.
AllKeyCodes == 0 .. 193

\* A notch is two fractions: less than one, and more than one the other way.
HalfNotches == {1, -3}

\* Bars at the sides, bars above and below, and a minimised window.
SideBars == <<9, 4>>
ThreeWindows == {SideBars, <<4, 7>>, <<0, 0>>}
Wide == <<4, 2>>
TwoModes == {Wide, <<3, 3>>}
TwoPoints == {<<0, 0>>, <<3, 2>>}

\* The keyboard, the wheel and the picture meet in no variable but the focus
\* and the device failures.
FourScenarios ==
    { [kinds |-> {"key", "button", "focus", "close", "failure"}, events |-> 4],
      [kinds |-> {"wheel", "focus", "close", "failure"}, events |-> 4],
      [kinds |-> {"resize", "mode"}, events |-> 3],
      [kinds |-> {"cursor", "resize"}, events |-> 3] }


=============================================================================
