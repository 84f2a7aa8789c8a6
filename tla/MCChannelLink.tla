---------------------------- MODULE MCChannelLink ----------------------------
(* ChannelLink on its own; MCChannelOrders checks it together with the orders *)
(* it carries.                                                                *)
EXTENDS ChannelLink

=============================================================================
