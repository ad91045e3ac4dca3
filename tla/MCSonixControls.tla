-------------------------- MODULE MCSonixControls --------------------------
(* UvcControls and SonixControls for TLC: every control, two sample      *)
(* values a field; flash pages of 4 and sectors of 16 bytes at an address   *)
(* whose low byte is 240, so that address bytes carry; the longest text is  *)
(* longer than a sector.                                                    *)
EXTENDS SonixControls

MCRegisters == {4096, 4097}
MCTexts == {<<1>>, <<1, 2, 3>>, <<1, 2, 3, 4>>, <<5, 6, 7, 8, 9, 10, 11>>,
            <<1, 2, 3, 4, 5, 6, 7, 8, 9, 10, 11, 12, 13, 14, 15>>,
            <<1, 2, 3, 4, 5, 6, 7, 8, 9, 10, 11, 12, 13, 14, 15, 16, 17, 18, 19>>}

=============================================================================
