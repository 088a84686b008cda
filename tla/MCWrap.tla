-------------------------------- MODULE MCWrap --------------------------------
(* Wrap with bounds of up to four columns and two rows around the origin,  *)
(* and IPs that start on all sides of them.                                *)
EXTENDS Wrap

MCTopLefts     == {<<-1, 0>>}
MCBottomRights == (-1 .. 2) \X (0 .. 1)
MCStarts       == (-4 .. 4) \X (-2 .. 3)
MCFlying       == (-2 .. 2) \X (-2 .. 2)
MCJumps        == {-3, 0, 2}
=============================================================================
