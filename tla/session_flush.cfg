SPECIFICATION Spec
CONSTANTS
    TopicNames = {a}
    NoName = NoName
    PacketIds = {1}
    mqtt_topic_alias_max = 1
    mqtt_maximum_qos = 2
    mqtt_ignore_duplicate = TRUE
    mqtt_retain_available = FALSE
    mqtt_pkt_batch_size = 2
    receive_maximum = 1
    KeepAlive = TRUE
    MaxPacketId = 3
    MaxOut = 4
CHECK_DEADLOCK FALSE
INVARIANTS BackLogIsUnsent
