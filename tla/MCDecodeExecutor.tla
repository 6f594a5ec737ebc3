---------------------------- MODULE MCDecodeExecutor ----------------------------
(* A convolution layer between two attention layers, with FP8 copies of some *)
(* of the weights and of the head.                                           *)
EXTENDS DecodeExecutor

MCLayers == <<"attention", "conv", "attention">>
MCFp8Sites == {<<1, "q">>, <<1, "down">>, <<2, "in">>, <<2, "gate_up">>, <<3, "out">>, <<4, "head">>}
================================================================================
