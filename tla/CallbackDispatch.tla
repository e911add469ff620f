--------------------------- MODULE CallbackDispatch ---------------------------
(***************************************************************************)
(* rclcpp::AnySubscriptionCallback: which object a user callback of each   *)
(* signature is handed, for a message that arrives from the middleware or  *)
(* through intra-process communication.                                    *)
(*                                                                         *)
(* A callback is its form (how it takes the message), the type of message  *)
(* it wants and whether it also wants the MessageInfo.  is_ta says that    *)
(* MessageT is a type adapter: then its custom type differs from the ROS   *)
(* type, otherwise the two are the same and a callback wants "ros".        *)
(***************************************************************************)
EXTENDS Integers

Forms == {"const_ref", "unique_ptr", "shared_const_ptr", "const_ref_shared_const_ptr",
          "shared_ptr"}
MessageTypes == {"custom", "ros", "serialized"}

(* AnySubscriptionCallbackHelper: the variant of a plain and of an adapted type. *)
CallbackTypes(is_ta) ==
    [form : Forms, type : IF is_ta THEN MessageTypes ELSE {"ros", "serialized"}, info : BOOLEAN]

SharedConst == {"shared_const_ptr", "const_ref_shared_const_ptr"}
Mutable == {"unique_ptr", "shared_ptr"}

(* A callback is handed the very object that arrived ("same"), a copy of it or the
   result of a conversion by the type adapter; or the dispatch "throws". *)

(* Only the alternatives with the subscribed type count. *)
use_take_shared_method(cb, is_ta) ==
    cb.form \in SharedConst /\ cb.type = (IF is_ta THEN "custom" ELSE "ros")

(* The alternatives that also take a MessageInfo are not listed. *)
is_serialized_message_callback(cb) == cb.type = "serialized" /\ ~cb.info

(* create_*_unique_ptr_from_*_shared_ptr: a copy of a message others may hold. *)
CopyOfShared == "copy"

(* convert_ros_message_to_custom_type_unique_ptr and its inverse. *)
Converted == "converted"

(* dispatch(std::shared_ptr<ROSMessageType>, ...). *)
dispatch(cb, is_ta) ==
    CASE cb.type = "custom" -> Converted
      [] cb.type = "ros" -> IF cb.form = "unique_ptr" THEN CopyOfShared ELSE "same"
      [] cb.type = "serialized" -> "throws"

(* dispatch(std::shared_ptr<SerializedMessage>, ...). *)
dispatch_serialized(cb) ==
    CASE cb.type # "serialized" -> "throws"
      [] cb.form = "const_ref" -> "same"
      [] OTHER -> CopyOfShared

(* dispatch_intra_process(std::shared_ptr<const SubscribedType>, ...). *)
dispatch_intra_process_shared(cb, is_ta) ==
    CASE cb.type = "serialized" -> "throws"
      [] cb.type = "ros" /\ is_ta -> Converted
      [] cb.form \in Mutable -> CopyOfShared
      [] OTHER -> "same"

(* dispatch_intra_process(std::unique_ptr<SubscribedType>, ...): the message moves. *)
dispatch_intra_process_unique(cb, is_ta) ==
    CASE cb.type = "serialized" -> "throws"
      [] cb.type = "ros" /\ is_ta -> Converted
      [] OTHER -> "same"

(* Executor::execute_subscription takes a serialized message exactly for the
   callbacks the subscription was told are serialized. *)
execute_subscription(cb, is_ta) ==
    IF is_serialized_message_callback(cb) THEN dispatch_serialized(cb) ELSE dispatch(cb, is_ta)

(* SubscriptionIntraProcess::execute_impl. *)
execute_intra_process(cb, is_ta) ==
    IF use_take_shared_method(cb, is_ta) THEN dispatch_intra_process_shared(cb, is_ta)
    ELSE dispatch_intra_process_unique(cb, is_ta)
===============================================================================
