-------------------------- MODULE MC_MarkerScanner --------------------------
(* Bytes: ESC, '[', the parameter '0', the final 'm', the marker letters  *)
(* 'A' and 'B' (both also final bytes), and the two bytes C3 A9 of 'é'.    *)
(* The marker "AB" stands for the ASCII banners; a window of 3 for 512.    *)
EXTENDS MarkerScanner

MCAlphabet == {27, 91, 48, 109, 65, 66, 195, 169}
MCMarkers == {<<65, 66>>}
MCCapacity == 3
MCMaxLen == 5
MCMaxChunk == 4
=============================================================================
